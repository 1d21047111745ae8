------------------------------ MODULE Builder ------------------------------
(***************************************************************************)
(* The build loop (builder.go): targets are added to the plan, the initial *)
(* edges scheduled, then commands are started while there is capacity and  *)
(* work, and their results fed back until nothing wanted is left.          *)
(*                                                                         *)
(* The builder is one thread.  The commands run beside it; what they do is *)
(* visible to it only when WaitForCommand returns one of them, so a step   *)
(* of the loop picks any running command and any result.  A slot of Slot   *)
(* holds one command that was started and not given back: pendingCommands  *)
(* is the number of slots in use.  Slots are names and limit nothing; what *)
(* limits the commands is CanRunMore, which goes by the runner's lists.    *)
(***************************************************************************)
EXTENDS Plan

CONSTANTS
  Slot,             \* names for the commands that are pending at once
  Parallelism,      \* config_.parallelism (-j)
  MaxFast,          \* bound: commands that have ended when Add looks at them
  FailuresAllowed,  \* config_.failures_allowed (-k)
  Targets,          \* the nodes the user asked for
  HasDeps           \* the edges with a deps binding

VARIABLES
  stale,            \* edges out of date on their own account (see ScanContract)
  deps_missing,     \* edges whose recorded deps could not be loaded
  pc,               \* where the builder is
  targets,          \* targets not yet added
  unscheduled,      \* planned edges ScheduleInitialEdges has not looked at
  pools,            \* pools ScheduleInitialEdges still has to retrieve from
  jobs,             \* the pending commands
  fast,             \* those in finishedQ: they had ended when Add looked
  echoes,           \* notices in finishCh of fast commands given back before
  finishing,        \* the command edge FinishCommand is working on
  failuresAllowed,  \* failuresAllowed of Build
  build_log,        \* edges recorded in the build log by this build
  deps_log,         \* edges whose deps were recorded by this build
  failed,           \* history: edges with a failed command
  outcome           \* how the build ended

planVars == <<dirty, outputs_ready, want, ready, delayed, currentUse,
              wanted_edges, command_edges, agenda, lost>>
scanVars == <<stale, deps_missing>>
logVars  == <<build_log, deps_log>>
vars == <<planVars, scanVars, pc, targets, unscheduled, pools, jobs, fast,
          echoes, finishing, failuresAllowed, logVars, failed, outcome>>

ASSUME BuilderConstants ==
  /\ Parallelism \in Nat \ {0} /\ MaxFast \in Nat
  /\ IsFiniteSet(Slot) /\ Cardinality(Slot) >= Parallelism + MaxFast
  /\ FailuresAllowed \in Nat \ {0}
  /\ Targets \subseteq Node
  /\ HasDeps \subseteq Edge

PcValues == {"targets", "initial", "head", "start", "phony",
             "cascade", "wait", "done"}

(* upToDate: nothing to do; error: ExitFailure before or while starting;   *)
(* built: the loop ran out of wanted edges; gaveUp: FinishCommand returned *)
(* false because CleanNode did, ioError: because a stat or a log write     *)
(* failed; failed and stuck: the two messages at the end of Build; panic:  *)
(* WaitForCommand gave back a command without its edge.                    *)
Outcomes == {"running", "upToDate", "error", "built", "interrupted", "gaveUp",
             "ioError", "failed", "stuck", "panic"}

(* The ExitStatus Build returns: exit_code_ is never assigned, and when    *)
(* FinishCommand gives up the status is that of the successful command.    *)
ExitStatus(o) ==
  CASE o = "error" -> "Failure"
    [] o = "interrupted" -> "Interrupted"
    [] o = "panic" -> "Crashed"
    [] OTHER -> "Success"

FreeSlots == {s \in Slot : jobs[s] = NoEdge}
Pending   == {s \in Slot : jobs[s] # NoEdge}

(* The runner's lists while the builder runs: finishedQ holds the commands *)
(* that had ended when Add looked, running all the others.                 *)
Slow == Pending \ fast

(* CanRunMore() > 0: -j counts both lists, but one command more may always *)
(* run when no command is in the list of the running ones.                 *)
CanRunMore == Cardinality(Pending) < Parallelism \/ Slow = {}

(* What WaitForCommand can give back next: DoWork looks at the processes   *)
(* only when finishedQ is empty.                                           *)
Given == {s \in Pending : fast # {} => s \in fast}

---------------------------------------------------------------------------
(* Before the loop *)

(* A phony edge is out of date by itself only when it has no inputs. *)
MayBeStale == {e \in Edge : e \in Phony => Inputs(e) \cup Validations[e] = {}}

Init ==
  /\ stale \in SUBSET MayBeStale
  /\ deps_missing \in SUBSET HasDeps
  /\ dirty \in [Node -> BOOLEAN]
  /\ ScanDirties(dirty, stale, deps_missing)
  /\ outputs_ready \in [Edge -> BOOLEAN]
  /\ ScanContract(dirty, outputs_ready, stale, deps_missing)
  /\ want = [e \in Edge |-> Absent]
  /\ ready = << >>
  /\ delayed = [p \in Pool |-> << >>]
  /\ currentUse = [p \in Pool |-> 0]
  /\ wanted_edges = 0 /\ command_edges = 0
  /\ agenda = << >> /\ lost = {}
  /\ pc = "targets" /\ targets = Targets
  /\ unscheduled = {} /\ pools = {}
  /\ jobs = [s \in Slot |-> NoEdge] /\ fast = {} /\ echoes = 0
  /\ finishing = NoEdge
  /\ failuresAllowed = FailuresAllowed
  /\ build_log = {} /\ deps_log = {} /\ failed = {}
  /\ outcome = "running"

(* Build returns; Cleanup has killed whatever still ran. *)
Return(o) ==
  /\ pc' = "done" /\ outcome' = o
  /\ jobs' = [s \in Slot |-> NoEdge] /\ fast' = {}
  /\ UNCHANGED <<scanVars, targets, unscheduled, pools, echoes, logVars>>

(* Builder.AddTarget: the target and the validation nodes of its scan. *)
AddTarget(n) ==
  /\ pc = "targets" /\ n \in targets
  /\ LET roots == {n} \cup {v \in ValidationNodes[n] : InEdge[v] # NoEdge} IN
     /\ ~MissingSource(roots)
     /\ AddSubTargets(roots)
  /\ targets' = targets \ {n}
  /\ UNCHANGED <<dirty, outputs_ready, ready, delayed, currentUse, agenda, lost,
                 scanVars, pc, unscheduled, pools, jobs, fast, echoes,
                 finishing, failuresAllowed, logVars, failed, outcome>>

(* A source is missing and no rule makes it, or a file could not be        *)
(* statted: RunBuild stops with ExitFailure.                               *)
AddTargetFails(n) ==
  /\ pc = "targets" /\ n \in targets
  /\ Return("error")
  /\ UNCHANGED <<planVars, finishing, failuresAllowed, failed>>

(* Build, with AlreadyUpToDate and the start of PrepareQueue. *)
BeginBuild ==
  /\ pc = "targets" /\ targets = {}
  /\ IF MoreToDo
     THEN /\ pc' = "initial"
          /\ unscheduled' = {e \in Edge : want[e] = ToStart /\ InputsReady(e)}
          /\ UNCHANGED outcome
     ELSE /\ pc' = "done" /\ outcome' = "upToDate"
          /\ UNCHANGED unscheduled
  /\ UNCHANGED <<planVars, scanVars, targets, pools, jobs, fast, echoes,
                 finishing, failuresAllowed, logVars, failed>>

(* ScheduleInitialEdges ranges over a Go map: in any order. *)
ScheduleInitialEdge(e) ==
  /\ pc = "initial" /\ e \in unscheduled
  /\ ScheduleInitial(e)
  /\ unscheduled' = unscheduled \ {e}
  /\ pools' = IF Depth[PoolOf[e]] = 0 THEN pools ELSE pools \cup {PoolOf[e]}
  /\ UNCHANGED <<dirty, outputs_ready, wanted_edges, command_edges, agenda,
                 lost, scanVars, pc, targets, jobs, fast, echoes, finishing,
                 failuresAllowed, logVars, failed, outcome>>

RetrieveInitial(p) ==
  /\ pc = "initial" /\ unscheduled = {} /\ p \in pools
  /\ RetrieveReadyEdges(p, currentUse[p], delayed[p])
  /\ pools' = pools \ {p}
  /\ UNCHANGED <<dirty, outputs_ready, want, wanted_edges, command_edges,
                 agenda, lost, scanVars, pc, targets, unscheduled, jobs, fast,
                 echoes, finishing, failuresAllowed, logVars, failed, outcome>>

EnterLoop ==
  /\ pc = "initial" /\ unscheduled = {} /\ pools = {}
  /\ pc' = "head"
  /\ UNCHANGED <<planVars, scanVars, targets, unscheduled, pools, jobs, fast,
                 echoes, finishing, failuresAllowed, logVars, failed, outcome>>

---------------------------------------------------------------------------
(* The loop: starting commands *)

MutantLoopHeadSpins ==  \* does not wait for what runs when none is allowed
  /\ pc = "head"
  /\ IF MoreToDo
     THEN /\ pc' = IF failuresAllowed > 0 THEN "start" ELSE "head"
          /\ UNCHANGED outcome
     ELSE pc' = "done" /\ outcome' = "built"
  /\ UNCHANGED <<planVars, scanVars, targets, unscheduled, pools, jobs, fast,
                 echoes, finishing, failuresAllowed, logVars, failed>>

(* The condition of the outer loop, and the budget test of the inner one.  *)
LoopHead ==
  /\ pc = "head"
  /\ IF MoreToDo
     THEN /\ pc' = IF failuresAllowed > 0 THEN "start" ELSE "wait"
          /\ UNCHANGED outcome
     ELSE pc' = "done" /\ outcome' = "built"
  /\ UNCHANGED <<planVars, scanVars, targets, unscheduled, pools, jobs, fast,
                 echoes, finishing, failuresAllowed, logVars, failed>>

(* FindWork and StartEdge of a command.  Its process may have ended before *)
(* Add looks at it.                                                        *)
StartCommand(e, s) ==
  /\ pc = "start" /\ CanRunMore /\ e \notin Phony
  /\ FreeSlots # {} /\ s = CHOOSE x \in FreeSlots : TRUE
  /\ FindWork(e)
  /\ jobs' = [jobs EXCEPT ![s] = e]
  /\ \/ UNCHANGED fast
     \/ Cardinality(fast) + echoes < MaxFast /\ fast' = fast \cup {s}
  /\ UNCHANGED <<dirty, outputs_ready, want, delayed, currentUse, wanted_edges,
                 command_edges, agenda, scanVars, pc, targets, unscheduled,
                 pools, echoes, finishing, failuresAllowed, logVars, failed,
                 outcome>>

(* StartEdge fails: a directory, the response file or the process could    *)
(* not be created.                                                         *)
StartCommandFails(e) ==
  /\ pc = "start" /\ CanRunMore /\ e \notin Phony
  /\ FindWork(e)
  /\ Return("error")
  /\ UNCHANGED <<dirty, outputs_ready, want, delayed, currentUse, wanted_edges,
                 command_edges, agenda, finishing, failuresAllowed, failed>>

(* A phony edge runs nothing and finishes in the same iteration. *)
StartPhony(e) ==
  /\ pc = "start" /\ CanRunMore /\ e \in Phony
  /\ FindWork(e)
  /\ pc' = "phony" /\ finishing' = e
  /\ UNCHANGED <<dirty, outputs_ready, want, delayed, currentUse, wanted_edges,
                 command_edges, agenda, scanVars, targets, unscheduled, pools,
                 jobs, fast, echoes, failuresAllowed, logVars, failed, outcome>>

FinishPhony ==
  /\ pc = "phony"
  /\ EdgeSucceeded(finishing, << >>) \/ EdgeUnknown(finishing)
  /\ pc' = "cascade" /\ finishing' = NoEdge
  /\ UNCHANGED <<dirty, command_edges, lost, scanVars, targets, unscheduled,
                 pools, jobs, fast, echoes, failuresAllowed, logVars, failed,
                 outcome>>

(* The rest of EdgeFinished: nodeFinished for every output, recursively. *)
Cascade ==
  /\ pc = "cascade"
  /\ EdgeMaybeReady
  /\ UNCHANGED <<dirty, command_edges, lost, scanVars, pc, targets, unscheduled,
                 pools, jobs, fast, echoes, finishing, failuresAllowed, logVars,
                 failed, outcome>>

(* Back in the inner loop after a phony edge.  Its break when nothing is   *)
(* pending and nothing is wanted leaves the inner loop only.               *)
PhonyDone ==
  /\ pc = "cascade" /\ agenda = << >> /\ finishing = NoEdge
  /\ pc' = IF Pending = {} /\ ~MoreToDo THEN "wait" ELSE "start"
  /\ UNCHANGED <<planVars, scanVars, targets, unscheduled, pools, jobs, fast,
                 echoes, finishing, failuresAllowed, logVars, failed, outcome>>

(* No capacity, or FindWork returned nil. *)
StopStarting ==
  /\ pc = "start" /\ (~CanRunMore \/ ready = << >>)
  /\ pc' = "wait"
  /\ UNCHANGED <<planVars, scanVars, targets, unscheduled, pools, jobs, fast,
                 echoes, finishing, failuresAllowed, logVars, failed, outcome>>

---------------------------------------------------------------------------
(* The loop: waiting for a command and FinishCommand *)

(* The outputs a restat command may leave with their old mtime. *)
Unchangeable(e) == IF e \in Restat THEN Outputs[e] ELSE {}

(* A command leaves the runner; the notice of a fast one is still to come. *)
GiveBack(s) ==
  /\ jobs' = [jobs EXCEPT ![s] = NoEdge]
  /\ fast' = fast \ {s}
  /\ echoes' = IF s \in fast THEN echoes + 1 ELSE echoes

(* WaitForCommand returns a success; FinishCommand up to plan.EdgeFinished.*)
CommandSucceeds(s) ==
  /\ pc = "wait" /\ s \in Given
  /\ \E unchanged \in SUBSET Unchangeable(jobs[s]) :
       /\ ~CleanNodeGivesUp(unchanged, stale, deps_missing)
       /\ dirty' = CleanNodes(unchanged)
  /\ EdgeSucceeded(jobs[s], << >>) \/ EdgeUnknown(jobs[s])
  /\ finishing' = jobs[s]
  /\ GiveBack(s)
  /\ pc' = "cascade"
  /\ UNCHANGED <<command_edges, lost, scanVars, targets, unscheduled, pools,
                 failuresAllowed, logVars, failed, outcome>>

(* CleanNode returned FALSE: FinishCommand gives up before EdgeFinished. *)
RestatGivesUp(s) ==
  /\ pc = "wait" /\ s \in Given
  /\ \E unchanged \in SUBSET Unchangeable(jobs[s]) :
       /\ CleanNodeGivesUp(unchanged, stale, deps_missing)
       /\ dirty' = CleanNodes(unchanged)
  /\ Return("gaveUp")
  /\ UNCHANGED <<outputs_ready, want, ready, delayed, currentUse, wanted_edges,
                 command_edges, agenda, lost, finishing, failuresAllowed,
                 failed>>

(* An output cannot be statted after the command. *)
StatFails(s) ==
  /\ pc = "wait" /\ s \in Given
  /\ \E unchanged \in SUBSET Unchangeable(jobs[s]) :
       /\ ~CleanNodeGivesUp(unchanged, stale, deps_missing)
       /\ dirty' = CleanNodes(unchanged)
  /\ Return("ioError")
  /\ UNCHANGED <<outputs_ready, want, ready, delayed, currentUse, wanted_edges,
                 command_edges, agenda, lost, finishing, failuresAllowed,
                 failed>>

MutantCommandFails(s) ==  \* counts a failure twice
  /\ pc = "wait" /\ s \in Given
  /\ EdgeFailed(jobs[s]) \/ EdgeUnknown(jobs[s])
  /\ failed' = failed \cup {jobs[s]}
  /\ failuresAllowed' = failuresAllowed - 2
  /\ GiveBack(s)
  /\ pc' = "head"
  /\ UNCHANGED <<dirty, command_edges, lost, scanVars, targets, unscheduled,
                 pools, finishing, logVars, outcome>>

(* The command failed, or its deps could not be extracted. *)
CommandFails(s) ==
  /\ pc = "wait" /\ s \in Given
  /\ EdgeFailed(jobs[s]) \/ EdgeUnknown(jobs[s])
  /\ failed' = failed \cup {jobs[s]}
  /\ failuresAllowed' = failuresAllowed - 1
  /\ GiveBack(s)
  /\ pc' = "head"
  /\ UNCHANGED <<dirty, command_edges, lost, scanVars, targets, unscheduled,
                 pools, finishing, logVars, outcome>>

(* The notice of a fast command arrives after the command was given back:  *)
(* its process has no edge any more, and FinishCommand dereferences nil.   *)
SecondNotice ==
  /\ pc = "wait" /\ Pending # {} /\ fast = {} /\ echoes > 0
  /\ Return("panic")
  /\ UNCHANGED <<planVars, finishing, failuresAllowed, failed>>

(* SIGINT, or a command that was interrupted. *)
Interrupt ==
  /\ pc = "wait" /\ Pending # {}
  /\ Return("interrupted")
  /\ UNCHANGED <<planVars, finishing, failuresAllowed, failed>>

MutantRecordCommand ==  \* one log or the other
  /\ pc = "cascade" /\ agenda = << >> /\ finishing # NoEdge
  /\ build_log' = build_log \cup ({finishing} \ HasDeps)
  /\ deps_log' = deps_log \cup ({finishing} \cap HasDeps)
  /\ finishing' = NoEdge
  /\ pc' = "head"
  /\ UNCHANGED <<planVars, scanVars, targets, unscheduled, pools, jobs, fast,
                 echoes, failuresAllowed, failed, outcome>>

(* The rest of FinishCommand: RecordCommand, then RecordDeps. *)
RecordCommand ==
  /\ pc = "cascade" /\ agenda = << >> /\ finishing # NoEdge
  /\ build_log' = build_log \cup {finishing}
  /\ deps_log' = deps_log \cup ({finishing} \cap HasDeps)
  /\ finishing' = NoEdge
  /\ pc' = "head"
  /\ UNCHANGED <<planVars, scanVars, targets, unscheduled, pools, jobs, fast,
                 echoes, failuresAllowed, failed, outcome>>

(* A log cannot be written: the build log (nothing is recorded), or the    *)
(* deps log once the build log has its record.                             *)
RecordFails ==
  /\ pc = "cascade" /\ agenda = << >> /\ finishing # NoEdge
  /\ build_log' \in {build_log, build_log \cup ({finishing} \cap HasDeps)}
  /\ pc' = "done" /\ outcome' = "ioError"
  /\ jobs' = [s \in Slot |-> NoEdge] /\ fast' = {}
  /\ UNCHANGED <<planVars, scanVars, targets, unscheduled, pools, echoes,
                 finishing, failuresAllowed, deps_log, failed>>

(* Nothing is running and the loop has not ended: the build cannot go on.  *)
GiveUp ==
  /\ pc = "wait" /\ Pending = {}
  /\ Return(IF failuresAllowed = 0 THEN "failed" ELSE "stuck")
  /\ UNCHANGED <<planVars, finishing, failuresAllowed, failed>>

---------------------------------------------------------------------------
Done == pc = "done" /\ UNCHANGED vars

Next ==
  \/ \E n \in Node : AddTarget(n) \/ AddTargetFails(n)
  \/ BeginBuild
  \/ \E e \in Edge : ScheduleInitialEdge(e)
  \/ \E p \in Pool : RetrieveInitial(p)
  \/ EnterLoop
  \/ LoopHead
  \/ \E e \in Edge, s \in Slot : StartCommand(e, s)
  \/ \E e \in Edge : StartCommandFails(e) \/ StartPhony(e)
  \/ FinishPhony \/ Cascade \/ PhonyDone \/ StopStarting
  \/ \E s \in Slot : CommandSucceeds(s) \/ RestatGivesUp(s) \/ StatFails(s)
                      \/ CommandFails(s)
  \/ SecondNotice \/ Interrupt
  \/ RecordCommand \/ RecordFails
  \/ GiveUp
  \/ Done

Spec == Init /\ [][Next]_vars

(* The builder's thread runs, and every command ends in the end. *)
FairSpec == Spec /\ WF_vars(Next)
---------------------------------------------------------------------------
(* Properties *)

TypeOK ==
  /\ dirty \in [Node -> BOOLEAN] /\ outputs_ready \in [Edge -> BOOLEAN]
  /\ want \in [Edge -> Wants]
  /\ ready \in Seq(Edge) /\ delayed \in [Pool -> Seq(Edge)]
  /\ currentUse \in [Pool -> Int]
  /\ wanted_edges \in Nat /\ command_edges \in Nat
  /\ agenda \in Seq(Edge) /\ lost \subseteq Edge
  /\ stale \subseteq Edge /\ deps_missing \subseteq Edge
  /\ pc \in PcValues /\ outcome \in Outcomes
  /\ targets \subseteq Node /\ unscheduled \subseteq Edge /\ pools \subseteq Pool
  /\ jobs \in [Slot -> Edge \cup {NoEdge}] /\ fast \subseteq Slot
  /\ echoes \in Nat /\ finishing \in Edge \cup {NoEdge}
  /\ failuresAllowed \in Int
  /\ build_log \subseteq Edge /\ deps_log \subseteq Edge /\ failed \subseteq Edge

Running == {jobs[s] : s \in Pending}
Failures == FailuresAllowed - failuresAllowed
InLoop  == pc \in {"head", "start", "phony", "cascade", "wait"}

(* The edges in the queue or delayed by a pool, and with those running the *)
(* edges the plan has handed on and can account for.                       *)
Queued    == ToSet(ready) \cup UNION {ToSet(delayed[p]) : p \in Pool}
Scheduled == Queued \cup Running \cup {finishing}

(* No wakeup is missed: an edge of the plan whose inputs are ready is      *)
(* queued, delayed, running, failed or still on the list of edges to look  *)
(* at.  The lost edges are the ones Pop dropped.                           *)
NoForgottenWork ==
  InLoop => \A e \in Edge : Planned(e) /\ InputsReady(e) =>
              e \in Scheduled \cup ToSet(agenda) \cup failed \cup lost

(* wanted_edges_, which decides when the loop ends, counts exactly the     *)
(* edges the plan wants, through duplicate and unwanted completions.       *)
WantedCount == wanted_edges = Cardinality({e \in Edge : Wanted(e)})

(* A pool never grants more slots than its depth, and nothing waits in a   *)
(* pool that has a slot free.                                              *)
PoolsBusy ==
  \A p \in Pool : Depth[p] > 0 =>
    /\ currentUse[p] <= Depth[p]
    /\ InLoop /\ delayed[p] # << >> => currentUse[p] = Depth[p]

(* The slots of a pool are held by its queued, running and lost edges: a   *)
(* lost edge keeps its slot for good.  An edge that comes back once more   *)
(* after it failed gives its slot back once more; those are the            *)
(* completions of SlotsFreedAgain.  But for them the pool counts its       *)
(* holders, and each frees at most one slot too many.                      *)
SlotHolders(p) ==
  {e \in Edge : PoolOf[e] = p /\ Wanted(e) /\ e \notin failed
                 /\ e \in ToSet(ready) \cup Running \cup {finishing} \cup lost}
SlotsFreedAgain ==
  Failures - Cardinality(failed) + Cardinality({e \in failed : ~Planned(e)})
SlotsAccounted ==
  InLoop => \A p \in Pool : Depth[p] > 0 =>
    LET held == Cardinality(SlotHolders(p)) IN
    /\ held - SlotsFreedAgain <= currentUse[p] /\ currentUse[p] <= held
    /\ lost = {} \/ failed = {} => currentUse[p] = held

(* An edge is started again only if FindWork has dropped another edge. *)
Starts(e, s) == jobs[s] = NoEdge /\ jobs'[s] = e
StartedBefore(e) == ~Planned(e) \/ e \in failed \/ e \in Running
OnceUnlessLost ==
  [][\A e \in Edge, s \in Slot : Starts(e, s) /\ StartedBefore(e) => lost' # {}]_vars

(* The build log is closed upwards: when a command runs or has its record, *)
(* everything it depends on that was out of date has been rebuilt and has  *)
(* its records too. A crash at any moment leaves a log from which the next *)
(* run rebuilds no less than it must.                                      *)
Upstream == [e \in Edge |-> Closure(Producers[e], Producers)]
RecordedBeforeUse ==
  \A e \in Running \cup build_log : \A f \in Upstream[e] \ Phony :
    (\E o \in Outputs[f] : dirty[o]) =>
      f \in build_log /\ (f \in HasDeps => f \in deps_log)

(* When the loop runs out of wanted edges every target is built. *)
BuiltIsBuilt ==
  outcome = "built" =>
    \A n \in Targets : InEdge[n] # NoEdge => outputs_ready[InEdge[n]]

(* The loop keeps going: when it stops with budget left, every edge still  *)
(* wanted failed, was lost, waits for a slot a lost edge holds, or depends *)
(* on such an edge.                                                        *)
Blocked ==
  failed \cup lost \cup
  {e \in Edge : \E x \in lost : PoolOf[x] = PoolOf[e]
                               /\ e \in ToSet(delayed[PoolOf[e]])}
KeepGoing ==
  outcome \in {"failed", "stuck"} /\ failuresAllowed > 0 =>
    \A e \in Edge : Wanted(e) => ({e} \cup Upstream[e]) \cap Blocked # {}

(* Once -k commands have failed none is started.  What can still fail are  *)
(* the others in the list of the running ones, fewer than -j, and the      *)
(* commands -j did not count because they were over when Add looked.       *)
FailureOverrun ==
  failuresAllowed + (Parallelism - Cardinality(Slow)) + echoes >= 1

(* The build ends, whatever fails. *)
Termination == <>(pc = "done")

---------------------------------------------------------------------------
(* What comments, messages and tests say, and the code does not do *)

(* "Avoid scheduling the work again" (plan.go 203), and FindWork leaves the*)
(* queue without the edge it returned (plan_test.go 163-165): no edge is   *)
(* started a second time.                                                  *)
StartedOnce == [][\A e \in Edge, s \in Slot : Starts(e, s) => ~StartedBefore(e)]_vars

(* RunBuild "returns the exit status" (main.go 1339): a build whose        *)
(* commands failed does not exit with success.                             *)
FailureStatus == pc = "done" /\ failed # {} => ExitStatus(outcome) # "Success"

(* CleanNode "takes the edge out of the plan" when its outputs are clean   *)
(* (plan.go 350), and the build goes on without it.                        *)
RestatGoesOn == outcome # "gaveUp"
===========================================================================
