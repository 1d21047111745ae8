------------------------- MODULE RealCommandRunner -------------------------
(***************************************************************************)
(* The command runner and its set of subprocesses (real_command_runner.go).*)
(*                                                                         *)
(* Two kinds of threads meet here: the build loop, which calls the runner, *)
(* and one goroutine per process, which waits for the process, notes its   *)
(* status, closes "done" and sends a notice to the channel finishCh, all   *)
(* but the first while it holds the lock of its Subprocess.  A signal      *)
(* handler sets "interrupted" at any moment.  The lists running and        *)
(* finishedQ are touched by the build loop's thread only.                  *)
(*                                                                         *)
(* The build loop is any client that starts a command while CanRunMore     *)
(* allows, waits while commands are pending, and aborts where Build does.  *)
(***************************************************************************)
EXTENDS Naturals, FiniteSets, SequencesExt

CONSTANTS
  Process,      \* the subprocesses, one for every command started
  NoProcess,
  Parallelism,  \* config.parallelism (-j)
  ChannelCap    \* capacity of finishCh, 64 in the code

ASSUME RunnerConstants ==
  /\ IsFiniteSet(Process) /\ NoProcess \notin Process
  /\ Parallelism \in Nat \ {0}
  /\ ChannelCap \in Nat \ {0}

VARIABLES
  process,      \* new, alive, exited (lock held), ended (goroutine gone)
  running,      \* SubprocessSet.running
  finishedQ,    \* SubprocessSet.finishedQ
  finishCh,     \* the channel
  edgeOf,       \* keys of subprocToEdge
  pending,      \* pendingCommands of the build loop
  interrupted,
  signalled,    \* processes Clear has terminated
  pc,           \* where the build loop's thread is
  current,      \* the subprocess it has in hand
  returned      \* history: how often a subprocess was given back with its edge

lists == <<running, finishedQ, finishCh>>
vars == <<process, lists, edgeOf, pending, interrupted, signalled, pc, current,
          returned>>

(* over: Build returned; aborted: after an Abort; panic: on a nil edge. *)
PcValues == {"idle", "added", "next", "dowork", "finish", "clear", "drain",
             "aborted", "over", "panic"}

Stopped == pc \in {"clear", "drain", "aborted", "over", "panic"}
Alive   == {p \in Process : process[p] = "alive"}
Exited  == {p \in Process : process[p] \in {"exited", "ended"}}

Init ==
  /\ process = [p \in Process |-> "new"]
  /\ running = << >> /\ finishedQ = << >> /\ finishCh = << >>
  /\ edgeOf = {} /\ pending = 0
  /\ interrupted = FALSE /\ signalled = {}
  /\ pc = "idle" /\ current = NoProcess
  /\ returned = [p \in Process |-> 0]

---------------------------------------------------------------------------
(* The goroutine of a process, and the signal handler *)

(* The process ends: Wait returns, the lock is taken, the status set and   *)
(* done closed.                                                            *)
ProcessEnds(p) ==
  /\ process[p] = "alive"
  /\ process' = [process EXCEPT ![p] = "exited"]
  /\ UNCHANGED <<lists, edgeOf, pending, interrupted, signalled, pc, current,
                 returned>>

(* finishCh <- sub, which waits for room; then the lock is released. *)
Notify(p) ==
  /\ process[p] = "exited"
  /\ Len(finishCh) < ChannelCap
  /\ finishCh' = Append(finishCh, p)
  /\ process' = [process EXCEPT ![p] = "ended"]
  /\ UNCHANGED <<running, finishedQ, edgeOf, pending, interrupted, signalled,
                 pc, current, returned>>

ReceiveSignal ==
  /\ ~interrupted /\ ~Stopped
  /\ interrupted' = TRUE
  /\ UNCHANGED <<process, lists, edgeOf, pending, signalled, pc, current, returned>>

---------------------------------------------------------------------------
(* Starting a command *)

MutantCanRunMore == Len(running) <= Parallelism  \* off by one

(* CanRunMore() > 0.  A load average limit can only lower the capacity; a  *)
(* build loop that does not start what it could covers it.                 *)
CanRunMore ==
  \/ Len(running) + Len(finishedQ) < Parallelism
  \/ running = << >>

(* SubprocessSet.Add up to the go statement. *)
StartCommand(p) ==
  /\ pc = "idle" /\ CanRunMore /\ ~interrupted
  /\ process[p] = "new"
  /\ process' = [process EXCEPT ![p] = "alive"]
  /\ pc' = "added" /\ current' = p
  /\ UNCHANGED <<lists, edgeOf, pending, interrupted, signalled, returned>>

(* Interrupted, or the process could not be started: Build cleans up. *)
StartCommandFails ==
  /\ pc = "idle" /\ CanRunMore
  /\ pc' = "clear"
  /\ UNCHANGED <<process, lists, edgeOf, pending, interrupted, signalled,
                 current, returned>>

MutantFileProcess ==  \* forgets a process that has ended already
  /\ pc = "added"
  /\ running' = IF current \in Exited THEN running ELSE Append(running, current)
  /\ edgeOf' = edgeOf \cup {current}
  /\ pending' = pending + 1
  /\ pc' = "idle" /\ current' = NoProcess
  /\ UNCHANGED <<process, finishedQ, finishCh, interrupted, signalled, returned>>

(* The select of Add: a process that has already ended goes to finishedQ,  *)
(* although its goroutine sends a notice too.  Then StartCommand of the    *)
(* runner enters the edge in the map, and the build loop counts it.        *)
FileProcess ==
  /\ pc = "added"
  /\ IF current \in Exited
     THEN finishedQ' = Append(finishedQ, current) /\ UNCHANGED running
     ELSE running' = Append(running, current) /\ UNCHANGED finishedQ
  /\ edgeOf' = edgeOf \cup {current}
  /\ pending' = pending + 1
  /\ pc' = "idle" /\ current' = NoProcess
  /\ UNCHANGED <<process, finishCh, interrupted, signalled, returned>>

---------------------------------------------------------------------------
(* Waiting for a command *)

BeginWait ==
  /\ pc = "idle" /\ pending > 0
  /\ pc' = "next"
  /\ UNCHANGED <<process, lists, edgeOf, pending, interrupted, signalled,
                 current, returned>>

NextFinished ==
  /\ pc = "next"
  /\ IF finishedQ = << >>
     THEN pc' = "dowork" /\ UNCHANGED <<finishedQ, current>>
     ELSE /\ current' = Head(finishedQ)
          /\ finishedQ' = Tail(finishedQ)
          /\ pc' = "finish"
  /\ UNCHANGED <<process, running, finishCh, edgeOf, pending, interrupted,
                 signalled, returned>>

MutantReceiveNotice ==  \* does not queue the process as finished
  /\ pc = "dowork" /\ ~interrupted /\ finishCh # << >>
  /\ running' = RemoveFirst(running, Head(finishCh))
  /\ finishCh' = Tail(finishCh)
  /\ pc' = "next"
  /\ UNCHANGED <<process, finishedQ, edgeOf, pending, interrupted, signalled,
                 current, returned>>

MutantReceiveNoticeOldest ==  \* takes the oldest from the running list
  /\ pc = "dowork" /\ ~interrupted /\ finishCh # << >>
  /\ running' = SubSeq(running, 2, Len(running))
  /\ finishedQ' = Append(finishedQ, Head(finishCh))
  /\ finishCh' = Tail(finishCh)
  /\ pc' = "next"
  /\ UNCHANGED <<process, edgeOf, pending, interrupted, signalled, current, returned>>

(* DoWork receives a notice. *)
ReceiveNotice ==
  /\ pc = "dowork" /\ ~interrupted /\ finishCh # << >>
  /\ running' = RemoveFirst(running, Head(finishCh))
  /\ finishedQ' = Append(finishedQ, Head(finishCh))
  /\ finishCh' = Tail(finishCh)
  /\ pc' = "next"
  /\ UNCHANGED <<process, edgeOf, pending, interrupted, signalled, current, returned>>

(* DoWork gives up after 10 ms and is called again. *)
Timeout ==
  /\ pc = "dowork" /\ ~interrupted /\ finishCh = << >>
  /\ pc' = "next"
  /\ UNCHANGED <<process, lists, edgeOf, pending, interrupted, signalled,
                 current, returned>>

(* DoWork sees the flag: WaitForCommand returns FALSE and Build cleans up. *)
SeeInterrupt ==
  /\ pc = "dowork" /\ interrupted
  /\ pc' = "clear"
  /\ UNCHANGED <<process, lists, edgeOf, pending, interrupted, signalled,
                 current, returned>>

MutantFinishCommand ==  \* keeps the edge in the map
  /\ pc = "finish" /\ process[current] = "ended"
  /\ returned' = [returned EXCEPT ![current] = @ + 1]
  /\ current' = NoProcess
  /\ \/ pc' = "clear" /\ UNCHANGED pending
     \/ pc' = "idle" /\ pending' = pending - 1
  /\ UNCHANGED <<process, lists, edgeOf, interrupted, signalled>>

(* Finish and GetOutput take the lock of the subprocess; the edge leaves   *)
(* the map.  The build loop goes on with the edge, or cleans up when the   *)
(* command was interrupted or FinishCommand gives up.  A subprocess that   *)
(* is no longer in the map yields a nil edge: FinishCommand panics.        *)
FinishCommand ==
  /\ pc = "finish" /\ process[current] = "ended"
  /\ edgeOf' = edgeOf \ {current}
  /\ returned' = [returned EXCEPT ![current] = IF current \in edgeOf THEN @ + 1 ELSE @]
  /\ current' = NoProcess
  /\ \/ pc' = "clear" /\ UNCHANGED pending
     \/ /\ pc' = IF current \in edgeOf THEN "idle" ELSE "panic"
        /\ pending' = pending - 1
  /\ UNCHANGED <<process, lists, interrupted, signalled>>

(* Build returns without cleaning up. *)
Leave ==
  /\ pc = "idle"
  /\ pc' = "over"
  /\ UNCHANGED <<process, lists, edgeOf, pending, interrupted, signalled,
                 current, returned>>

---------------------------------------------------------------------------
(* Abort *)

MutantTerminate ==  \* spares the oldest
  /\ pc = "clear"
  /\ signalled' = {p \in Alive : \E i \in 2 .. Len(running) : running[i] = p}
  /\ pc' = "drain"
  /\ UNCHANGED <<process, lists, edgeOf, pending, interrupted, current, returned>>

(* Clear's loop over the running processes: those that are not done are    *)
(* terminated, and killed if that does not help within 100 ms.             *)
Terminate ==
  /\ pc = "clear"
  /\ signalled' = Alive \cap ToSet(running)
  /\ pc' = "drain"
  /\ UNCHANGED <<process, lists, edgeOf, pending, interrupted, current, returned>>

(* wg.Wait() returns when every goroutine has ended. *)
Drain ==
  /\ pc = "drain"
  /\ \A p \in Process : process[p] \in {"new", "ended"}
  /\ running' = << >> /\ finishedQ' = << >>
  /\ pc' = "aborted"
  /\ UNCHANGED <<process, finishCh, edgeOf, pending, interrupted, signalled,
                 current, returned>>

---------------------------------------------------------------------------
Stop == pc \in {"aborted", "over", "panic"} /\ UNCHANGED vars

BuilderStep ==
  \/ \E p \in Process : StartCommand(p)
  \/ StartCommandFails \/ FileProcess
  \/ BeginWait \/ NextFinished \/ ReceiveNotice \/ Timeout \/ SeeInterrupt
  \/ FinishCommand
  \/ Leave
  \/ Terminate \/ Drain

Next ==
  \/ BuilderStep
  \/ \E p \in Process : ProcessEnds(p) \/ Notify(p)
  \/ ReceiveSignal
  \/ Stop

Spec == Init /\ [][Next]_vars

(* The build loop's thread and the goroutines run on.  A command need not  *)
(* end by itself, but one that was killed does.                            *)
FairSpec ==
  /\ Spec
  /\ WF_vars(BuilderStep)
  /\ \A p \in Process : WF_vars(Notify(p))
                        /\ WF_vars(ProcessEnds(p) /\ p \in signalled)
---------------------------------------------------------------------------
(* Properties *)

TypeOK ==
  /\ process \in [Process -> {"new", "alive", "exited", "ended"}]
  /\ running \in Seq(Process) /\ finishedQ \in Seq(Process) /\ finishCh \in Seq(Process)
  /\ edgeOf \subseteq Process /\ returned \in [Process -> Nat]
  /\ signalled \subseteq Process
  /\ pending \in Nat
  /\ interrupted \in BOOLEAN
  /\ pc \in PcValues /\ current \in Process \cup {NoProcess}

(* -j is kept: no more than Parallelism processes are alive, although      *)
(* CanRunMore counts lists that lag behind the processes and always allows *)
(* one when nothing is filed as running.                                   *)
JobsBounded == Cardinality(Alive) <= Parallelism

(* No completion is lost: a command the build loop still waits for is on a *)
(* list or in hand, and if its process is gone but it is filed as running, *)
(* its notice is under way.                                                *)
Accounted ==
  pc \in {"idle", "added", "next", "dowork", "finish"} =>
    /\ edgeOf \subseteq ToSet(running) \cup ToSet(finishedQ) \cup {current}
    /\ \A p \in ToSet(running) : process[p] = "ended" => p \in ToSet(finishCh)

(* pendingCommands of the build loop agrees with the runner's map. *)
PendingCount ==
  pc \in {"idle", "added", "next", "dowork", "finish"} =>
    pending = Cardinality(edgeOf)

(* When an abort waits for the goroutines, every command that is alive has *)
(* been terminated: Clear goes by the running list, which is filed late    *)
(* and from which notices of fast commands that were never on it, or have  *)
(* left it before, must not take another.                                  *)
NoneSpared == pc = "drain" => Alive \subseteq signalled

(* The runner keeps the promise of CommandRunner, whatever the timing. *)
Promise == INSTANCE CommandRunner WITH
  accepted <- edgeOf \cup {p \in Process : returned[p] > 0},
  ended <- Exited,
  stopped <- Stopped
KeepsPromise == Promise!Spec

(* A command whose process ends while the build loop goes on is given back *)
(* even if all others run forever.                                         *)
Reaped ==
  \A p \in Process :
    (process[p] = "exited" /\ ~Stopped) ~> (returned[p] > 0 \/ Stopped)

(* Abort returns: the goroutines it waits for come to an end. *)
AbortReturns == pc = "clear" ~> pc = "aborted"

---------------------------------------------------------------------------
(* What comments say, and the code does not do *)

(* A process that has ended goes "directly" to finishedQ and one that is   *)
(* running is moved there when its notice comes (comments in Add and       *)
(* DoWork): each is delivered once, so every result has its edge.          *)
ResultHasEdge == pc # "panic"
===========================================================================
