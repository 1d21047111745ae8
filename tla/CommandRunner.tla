--------------------------- MODULE CommandRunner ---------------------------
(***************************************************************************)
(* What a command runner promises to the build loop (command_runner.go):   *)
(* every command it accepted is given back at most once, and only when its *)
(* process has ended.  Builder relies on this promise.                     *)
(***************************************************************************)
CONSTANT Process

VARIABLES
  accepted,  \* commands StartCommand accepted
  ended,     \* commands whose process has ended
  returned,  \* how often WaitForCommand gave a command back with its edge
  stopped    \* the build stopped using the runner

promiseVars == <<accepted, ended, returned, stopped>>

Init ==
  /\ accepted = {} /\ ended = {} /\ stopped = FALSE
  /\ returned = [p \in Process |-> 0]

Accept(p) ==
  /\ ~stopped /\ p \notin accepted
  /\ accepted' = accepted \cup {p}
  /\ UNCHANGED <<ended, returned, stopped>>

End(p) ==
  /\ p \notin ended
  /\ ended' = ended \cup {p}
  /\ UNCHANGED <<accepted, returned, stopped>>

(* The last command may also be the one that stops the build. *)
GiveBack(p) ==
  /\ ~stopped /\ p \in accepted \cap ended /\ returned[p] = 0
  /\ returned' = [returned EXCEPT ![p] = 1]
  /\ stopped' \in BOOLEAN
  /\ UNCHANGED <<accepted, ended>>

Stop ==
  /\ ~stopped
  /\ stopped' = TRUE
  /\ UNCHANGED <<accepted, ended, returned>>

Next == (\E p \in Process : Accept(p) \/ End(p) \/ GiveBack(p)) \/ Stop

Spec == Init /\ [][Next]_promiseVars
===========================================================================
