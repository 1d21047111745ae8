---------------------------- MODULE BuilderProofs ----------------------------
(***************************************************************************)
(* Theorems of Builder, for every graph, every -j and -k and any targets:  *)
(* its types and counts, that no work is forgotten, what a crash leaves in *)
(* the build log, and what the failure budget stops.                       *)
(*                                                                         *)
(* From "The slots" on, what Builder keeps although FindWork drops edges   *)
(* and repeats others: the slots of the pools are accounted for, nothing   *)
(* is started twice while no edge was dropped, and the loop ends for a     *)
(* reason: when it runs out of wanted edges the targets are built, and     *)
(* when it stops before that with budget left, what is left over depends   *)
(* on a failed edge or on one FindWork dropped.  The last two theorems     *)
(* look at a lowest edge of the plan, one whose producers all left it:     *)
(* they left it ready, so the edge can start, and the plan has not         *)
(* forgotten it.                                                           *)
(***************************************************************************)
EXTENDS Builder, SequenceLemmas, FiniteSetTheorems, WellFoundedInduction

---------------------------------------------------------------------------
(* Pools *)

PoolsTyped ==
  /\ ready \in Seq(Edge)
  /\ delayed \in [Pool -> Seq(Edge)]
  /\ currentUse \in [Pool -> Int]

(* What every call of RetrieveReadyEdges leaves behind in a limited pool.  *)
WithinDepth(p) == currentUse[p] <= Depth[p]
NoneWaitsInVain(p) == delayed[p] # << >> => currentUse[p] = Depth[p]

(* RetrieveReadyEdges admits no more edges than wait and than fit.         *)
LEMMA AdmittedRange ==
  ASSUME NEW p \in Pool, NEW use \in Int, NEW waiting \in Seq(Edge)
  PROVE  /\ Admitted(p, use, waiting) \in 0 .. Len(waiting)
         /\ Depth[p] > 0 /\ use <= Depth[p] =>
              /\ use + Admitted(p, use, waiting) <= Depth[p]
              /\ Admitted(p, use, waiting) < Len(waiting) =>
                   use + Admitted(p, use, waiting) = Depth[p]
<1>1. Depth[p] \in Nat /\ Len(waiting) \in Nat
  BY GraphTyped
<1> QED BY <1>1 DEF Admitted

(* RetrieveReadyEdges moves edges from the pool to the queue and loses     *)
(* none; afterwards the pool is full, or nothing waits in it.              *)
LEMMA RetrieveMoves ==
  ASSUME PoolsTyped,
         NEW p \in Pool, NEW use \in Int, NEW waiting \in Seq(Edge),
         RetrieveReadyEdges(p, use, waiting)
  PROVE  /\ PoolsTyped'
         /\ ToSet(ready) \cup ToSet(waiting) \subseteq ToSet(ready') \cup ToSet(delayed'[p])
         /\ \A q \in Pool \ {p} : delayed'[q] = delayed[q] /\ currentUse'[q] = currentUse[q]
         /\ Depth[p] > 0 /\ use <= Depth[p] => (WithinDepth(p) /\ NoneWaitsInVain(p))'
<1> DEFINE k == Admitted(p, use, waiting)
           taken == SubSeq(waiting, 1, k)
           left == SubSeq(waiting, k + 1, Len(waiting))
<1>1. k \in 0 .. Len(waiting)
  BY AdmittedRange
<1>2. /\ taken \in Seq(Edge) /\ left \in Seq(Edge)
      /\ Len(left) = Len(waiting) - k
      /\ ToSet(waiting) = ToSet(taken) \cup ToSet(left)
  BY <1>1, ToSetSplit
<1>3. /\ ready' = ready \o taken
      /\ delayed' = [delayed EXCEPT ![p] = left]
      /\ currentUse' = [currentUse EXCEPT ![p] = use + k]
  BY DEF RetrieveReadyEdges
<1>4. Depth[p] > 0 /\ use <= Depth[p] =>
        /\ use + k <= Depth[p]
        /\ k < Len(waiting) => use + k = Depth[p]
  BY AdmittedRange
<1> HIDE DEF k, taken, left
<1>5. ready' \in Seq(Edge) /\ ToSet(ready') = ToSet(ready) \cup ToSet(taken)
  BY <1>2, <1>3, ToSetConcat DEF PoolsTyped
<1>6. /\ delayed' \in [Pool -> Seq(Edge)] /\ currentUse' \in [Pool -> Int]
      /\ delayed'[p] = left /\ currentUse'[p] = use + k
      /\ \A q \in Pool \ {p} : delayed'[q] = delayed[q] /\ currentUse'[q] = currentUse[q]
  BY <1>1, <1>2, <1>3 DEF PoolsTyped
<1>7. left # << >> => k < Len(waiting)
  BY <1>1, <1>2, EmptySeq
<1>8. Depth[p] > 0 /\ use <= Depth[p] => (WithinDepth(p) /\ NoneWaitsInVain(p))'
  BY <1>4, <1>6, <1>7 DEF WithinDepth, NoneWaitsInVain
<1> QED BY <1>2, <1>5, <1>6, <1>8 DEF PoolsTyped

(* The pools are in order: pool by pool, while it is not one that          *)
(* ScheduleInitialEdges has yet to retrieve from.                          *)
PoolsInOrder ==
  \A p \in Pool : Depth[p] > 0 =>
    WithinDepth(p) /\ (p \notin pools => NoneWaitsInVain(p))

(* RetrieveReadyEdges leaves every pool in order and every edge queued.    *)
LEMMA RetrieveInOrder ==
  ASSUME PoolsTyped, PoolsInOrder,
         NEW p \in Pool, NEW use \in Int, use <= currentUse[p],
         NEW waiting \in Seq(Edge), ToSet(delayed[p]) \subseteq ToSet(waiting),
         RetrieveReadyEdges(p, use, waiting),
         pools \ {p} \subseteq pools'
  PROVE  /\ PoolsTyped' /\ PoolsInOrder'
         /\ Queued \cup ToSet(waiting) \subseteq Queued'
<1>1. /\ PoolsTyped'
      /\ ToSet(ready) \cup ToSet(waiting) \subseteq ToSet(ready') \cup ToSet(delayed'[p])
      /\ \A q \in Pool \ {p} : delayed'[q] = delayed[q] /\ currentUse'[q] = currentUse[q]
      /\ Depth[p] > 0 /\ use <= Depth[p] => (WithinDepth(p) /\ NoneWaitsInVain(p))'
  BY RetrieveMoves
<1>2. PoolsInOrder'
  <2> SUFFICES ASSUME NEW q \in Pool, Depth[q] > 0
               PROVE  (WithinDepth(q) /\ (q \notin pools => NoneWaitsInVain(q)))'
    BY DEF PoolsInOrder
  <2>1. CASE q = p
    <3>1. Depth[p] \in Nat /\ currentUse[p] \in Int
      BY GraphTyped DEF PoolsTyped
    <3>2. use <= Depth[p]
      BY <2>1, <3>1 DEF PoolsInOrder, WithinDepth
    <3> QED BY <1>1, <2>1, <3>2
  <2>2. CASE q # p
    BY <1>1, <2>2 DEF PoolsInOrder, WithinDepth, NoneWaitsInVain
  <2> QED BY <2>1, <2>2
<1>3. Queued \cup ToSet(waiting) \subseteq Queued'
  <2>1. ToSet(ready') \subseteq Queued' /\ ToSet(delayed'[p]) \subseteq Queued'
    BY DEF Queued
  <2>2. ASSUME NEW q \in Pool PROVE ToSet(delayed[q]) \subseteq Queued'
    <3>1. CASE q = p
      BY <1>1, <2>1, <3>1
    <3>2. CASE q # p
      BY <1>1, <3>2 DEF Queued
    <3> QED BY <3>1, <3>2
  <2> QED BY <1>1, <2>1, <2>2 DEF Queued
<1> QED BY <1>1, <1>2, <1>3

(* ScheduleWork keeps the pools in order and queues its edge.              *)
LEMMA ScheduleWorkKeeps ==
  ASSUME PoolsTyped, PoolsInOrder, NEW e \in Edge, ScheduleWork(e), pools \subseteq pools'
  PROVE  /\ PoolsTyped' /\ PoolsInOrder'
         /\ Queued \cup {e} \subseteq Queued'
         /\ want' = [want EXCEPT ![e] = ToFinish]
<1> DEFINE p == PoolOf[e]
<1>0. p \in Pool /\ Depth[p] \in Nat
  BY GraphTyped
<1>1. CASE Depth[p] = 0
  <2>1. ready' = Append(ready, e) /\ UNCHANGED <<delayed, currentUse>>
    BY <1>1 DEF ScheduleWork
  <2>2. ready' \in Seq(Edge) /\ ToSet(ready') = ToSet(ready) \cup {e}
    BY <2>1, ToSetAppend DEF PoolsTyped
  <2>3. PoolsTyped' /\ PoolsInOrder'
    BY <2>1, <2>2 DEF PoolsTyped, PoolsInOrder, WithinDepth, NoneWaitsInVain
  <2>4. Queued \cup {e} \subseteq Queued'
    BY <2>1, <2>2 DEF Queued
  <2> QED BY <2>3, <2>4 DEF ScheduleWork
<1>2. CASE Depth[p] # 0
  <2> DEFINE waiting == Append(delayed[p], e)
  <2>1. waiting \in Seq(Edge) /\ ToSet(waiting) = ToSet(delayed[p]) \cup {e}
    BY <1>0, ToSetAppend DEF PoolsTyped
  <2>2. RetrieveReadyEdges(p, currentUse[p], waiting)
    BY <1>2 DEF ScheduleWork
  <2>3. currentUse[p] \in Int /\ currentUse[p] <= currentUse[p]
    BY <1>0 DEF PoolsTyped
  <2> HIDE DEF p, waiting
  <2>4. PoolsTyped' /\ PoolsInOrder' /\ Queued \cup ToSet(waiting) \subseteq Queued'
    BY <1>0, <2>1, <2>2, <2>3, RetrieveInOrder
  <2> QED BY <2>1, <2>4 DEF ScheduleWork
<1> QED BY <1>1, <1>2

(* Giving a slot back keeps the pools in order and every edge queued.      *)
LEMMA ReleaseSlotKeeps ==
  ASSUME PoolsTyped, PoolsInOrder, NEW e \in Edge, ReleaseSlot(e), pools \subseteq pools'
  PROVE  PoolsTyped' /\ PoolsInOrder' /\ Queued \subseteq Queued'
<1> DEFINE p == PoolOf[e]
           use == IF Wanted(e) /\ Depth[p] # 0 THEN currentUse[p] - 1 ELSE currentUse[p]
<1>1. p \in Pool /\ currentUse[p] \in Int /\ delayed[p] \in Seq(Edge)
  BY GraphTyped DEF PoolsTyped
<1>2. use \in Int /\ use <= currentUse[p]
  BY <1>1
<1>3. RetrieveReadyEdges(p, use, delayed[p])
  BY DEF ReleaseSlot
<1> HIDE DEF p, use
<1> QED BY <1>1, <1>2, <1>3, RetrieveInOrder

---------------------------------------------------------------------------
(* The inductive invariant *)

(* What holds in the phases of the build, and of the edge at hand. *)
Phases ==
  /\ pc # "initial" => unscheduled = {} /\ pools = {}
  /\ \A e \in unscheduled : want[e] = ToStart
  /\ pc = "phony" => finishing \in Edge
  /\ pc \in {"targets", "initial", "head", "start", "wait"} => finishing = NoEdge
  /\ pc \notin {"cascade", "done"} => agenda = << >>
  /\ pc = "cascade" /\ finishing # NoEdge => ~Planned(finishing)

(* While targets are added the marks are those of the scan, and the plan   *)
(* holds only edges that are not ready, wanted when they are dirty.        *)
Adding ==
  pc = "targets" =>
    /\ ScanContract(dirty, outputs_ready, stale, deps_missing)
    /\ \A e \in Edge : Planned(e) =>
         /\ ~outputs_ready[e]
         /\ want[e] = IF \E o \in Outputs[e] : dirty[o] THEN ToStart ELSE Nothing

(* Edges the builder has handed on. *)
Held == Scheduled \cup failed \cup lost

(* The plan forgets nothing: an edge that can start is handed on or will   *)
(* be looked at, and one that was scheduled is handed on.                  *)
Remembered ==
  pc = "initial" \/ InLoop =>
    \A e \in Edge :
      /\ Planned(e) /\ InputsReady(e) => e \in Held \cup unscheduled \cup ToSet(agenda)
      /\ want[e] = ToFinish => e \in Held

IInv == TypeOK /\ WantedCount /\ Phases /\ PoolsInOrder /\ Adding /\ Remembered

(* The inductive invariant gives the four invariants the runs check.       *)
THEOREM IInvImplies == IInv => TypeOK /\ WantedCount /\ PoolsBusy /\ NoForgottenWork
<1> SUFFICES ASSUME IInv PROVE PoolsBusy /\ NoForgottenWork
  BY DEF IInv
<1>1. PoolsBusy
  <2>1. InLoop => pools = {}
    BY DEF IInv, Phases, InLoop
  <2> QED BY <2>1 DEF IInv, PoolsInOrder, PoolsBusy, WithinDepth, NoneWaitsInVain
<1>2. NoForgottenWork
  <2>1. InLoop => unscheduled = {}
    BY DEF IInv, Phases, InLoop
  <2> QED BY <2>1 DEF IInv, Remembered, NoForgottenWork, Held
<1> QED BY <1>1, <1>2

---------------------------------------------------------------------------
(* Counting the edges that are wanted *)

WantedEdges == {e \in Edge : Wanted(e)}

(* The wanted edges can be counted, before and after a step.               *)
LEMMA WantedFinite == IsFiniteSet(WantedEdges) /\ IsFiniteSet(WantedEdges')
<1>1. IsFiniteSet(Edge)
  BY GraphTyped
<1> QED BY <1>1, FS_Subset DEF WantedEdges

(* An edge that leaves the plan is counted down if it was wanted. *)
LEMMA WantedLeaves ==
  ASSUME TypeOK, WantedCount, NEW e \in Edge,
         want' = [want EXCEPT ![e] = Absent],
         wanted_edges' = IF Wanted(e) THEN wanted_edges - 1 ELSE wanted_edges
  PROVE  wanted_edges' \in Nat /\ WantedCount'
<1>1. WantedEdges' = WantedEdges \ {e}
  BY DEF WantedEdges, Wanted, TypeOK, Absent, ToStart, ToFinish
<1>2. Cardinality(WantedEdges') =
        IF e \in WantedEdges THEN Cardinality(WantedEdges) - 1 ELSE Cardinality(WantedEdges)
  BY <1>1, WantedFinite, FS_RemoveElement
<1>3. Cardinality(WantedEdges') \in Nat
  BY WantedFinite, FS_CardinalityType
<1>4. wanted_edges = Cardinality(WantedEdges) /\ (e \in WantedEdges <=> Wanted(e))
  BY DEF WantedCount, WantedEdges
<1>5. wanted_edges' = Cardinality(WantedEdges')
  BY <1>2, <1>4
<1> QED BY <1>3, <1>5 DEF WantedCount, WantedEdges

(* Scheduling a wanted edge keeps the count. *)
LEMMA WantedStays ==
  ASSUME TypeOK, WantedCount, NEW e \in Edge, Wanted(e),
         want' = [want EXCEPT ![e] = ToFinish], wanted_edges' = wanted_edges
  PROVE  WantedCount'
<1>1. WantedEdges' = WantedEdges
  BY DEF WantedEdges, Wanted, TypeOK, ToStart, ToFinish
<1> QED BY <1>1 DEF WantedCount, WantedEdges

---------------------------------------------------------------------------
(* EdgeFinished and EdgeMaybeReady *)

(* A finished edge leaves the plan, its slot is passed on, and every edge  *)
(* whose last input it was is on the agenda.                               *)
LEMMA EdgeSucceededKeeps ==
  ASSUME TypeOK, WantedCount, PoolsInOrder,
         NEW e \in Edge, NEW rest \in Seq(Edge), EdgeSucceeded(e, rest), pools' = pools
  PROVE  /\ PoolsTyped' /\ PoolsInOrder' /\ Queued \subseteq Queued'
         /\ wanted_edges' \in Nat /\ WantedCount'
         /\ want' = [want EXCEPT ![e] = Absent] /\ want' \in [Edge -> Wants]
         /\ outputs_ready' \in [Edge -> BOOLEAN]
         /\ agenda' \in Seq(Edge) /\ ToSet(rest) \subseteq ToSet(agenda')
         /\ \A x \in Edge : InputsReady(x)' => InputsReady(x) \/ x \in ToSet(agenda')
<1>1. PoolsTyped
  BY DEF TypeOK, PoolsTyped
<1>2. ReleaseSlot(e)
  BY DEF EdgeSucceeded
<1>3. PoolsTyped' /\ PoolsInOrder' /\ Queued \subseteq Queued'
  BY <1>1, <1>2, ReleaseSlotKeeps
<1>4. wanted_edges' \in Nat /\ WantedCount'
  BY WantedLeaves DEF EdgeSucceeded
<1>5. /\ want' = [want EXCEPT ![e] = Absent] /\ want' \in [Edge -> Wants]
      /\ outputs_ready' = [outputs_ready EXCEPT ![e] = TRUE]
      /\ outputs_ready' \in [Edge -> BOOLEAN]
  BY DEF EdgeSucceeded, TypeOK, Wants
<1>6. Dependents[e] \in Seq(Edge)
  BY GraphTyped
<1>7. agenda' \in Seq(Edge) /\ ToSet(agenda') = ToSet(Dependents[e]) \cup ToSet(rest)
  BY <1>6, ToSetConcat DEF EdgeSucceeded
<1>8. ASSUME NEW x \in Edge, InputsReady(x)', ~InputsReady(x) PROVE x \in ToSet(agenda')
  <2>1. PICK f \in Producers[x] : ~outputs_ready[f]
    BY <1>8 DEF InputsReady, AllInputsReady
  <2>2. f \in Edge
    BY DEF Producers
  <2>3. outputs_ready'[f]
    BY <1>8 DEF InputsReady, AllInputsReady
  <2>4. f = e
    BY <1>5, <2>1, <2>2, <2>3 DEF TypeOK
  <2>5. x \in ToSet(Dependents[e])
    BY <2>1, <2>4, DependentsAreConsumers
  <2> QED BY <1>7, <2>5
<1> QED BY <1>3, <1>4, <1>5, <1>7, <1>8

---------------------------------------------------------------------------
(* Before the loop *)

(* The state after the scan satisfies the invariant.                       *)
LEMMA InitIInv == Init => IInv
<1> SUFFICES ASSUME Init PROVE IInv
  OBVIOUS
<1>1. TypeOK
  <2>1. stale \subseteq Edge /\ deps_missing \subseteq Edge
    BY BuilderConstants DEF Init, MayBeStale
  <2>2. failuresAllowed \in Int /\ targets \subseteq Node
    BY BuilderConstants DEF Init
  <2>3. << >> \in Seq(Edge)
    BY EmptySeq
  <2> QED BY <2>1, <2>2, <2>3 DEF Init, TypeOK, Wants, PcValues, Outcomes
<1>2. WantedCount
  <2>1. WantedEdges = {}
    BY DEF Init, WantedEdges, Wanted, Absent, ToStart, ToFinish
  <2> QED BY <2>1, FS_EmptySet DEF Init, WantedCount, WantedEdges
<1>3. Phases /\ Adding /\ Remembered
  BY DEF Init, Phases, Adding, Remembered, Planned, InLoop
<1>4. PoolsInOrder
  BY GraphTyped DEF Init, PoolsInOrder, WithinDepth, NoneWaitsInVain
<1> QED BY <1>1, <1>2, <1>3, <1>4 DEF IInv

(* AddTarget counts exactly the edges it makes wanted.                     *)
LEMMA AddTargetStep ==
  ASSUME IInv, NEW n \in Node, AddTarget(n)
  PROVE  IInv'
<1> DEFINE roots == {n} \cup {v \in ValidationNodes[n] : InEdge[v] # NoEdge}
           new == NewlyPlanned(roots)
           toStart == {e \in new : \E o \in Outputs[e] : dirty[o]}
<1>1. new \subseteq {e \in Edge : ~outputs_ready[e] /\ ~Planned(e)}
  BY DEF NewlyPlanned
<1>2. /\ want' = [e \in Edge |-> CASE e \in toStart -> ToStart
                                    [] e \in new \ toStart -> Nothing
                                    [] OTHER -> want[e]]
      /\ wanted_edges' = wanted_edges + Cardinality(toStart)
      /\ command_edges' = command_edges + Cardinality(toStart \ Phony)
  BY DEF AddTarget, AddSubTargets
<1>3. toStart \subseteq new
  OBVIOUS
<1>4. \A e \in Edge : e \in toStart <=> e \in new /\ \E o \in Outputs[e] : dirty[o]
  OBVIOUS
<1>5. /\ pc = "targets" /\ targets' = targets \ {n}
      /\ UNCHANGED <<dirty, outputs_ready, ready, delayed, currentUse, agenda, lost,
                     scanVars, pc, unscheduled, pools, jobs, fast, echoes, finishing,
                     failuresAllowed, logVars, failed, outcome>>
  BY DEF AddTarget
<1> HIDE DEF roots, new, toStart
<1>6. /\ IsFiniteSet(toStart) /\ Cardinality(toStart) \in Nat
      /\ Cardinality(toStart \ Phony) \in Nat
  <2>1. IsFiniteSet(toStart)
    BY <1>1, <1>3, GraphTyped, FS_Subset
  <2>2. IsFiniteSet(toStart \ Phony)
    BY <2>1, FS_Subset
  <2> QED BY <2>1, <2>2, FS_CardinalityType
<1>7. want' \in [Edge -> Wants]
  BY <1>2 DEF IInv, TypeOK, Wants
<1>8. TypeOK'
  BY <1>2, <1>5, <1>6, <1>7 DEF IInv, TypeOK, scanVars, logVars
<1>9. WantedCount'
  <2>1. WantedEdges \cap toStart = {}
    BY <1>1, <1>3 DEF WantedEdges, Wanted, Planned, Absent, ToStart, ToFinish
  <2>2. WantedEdges' = WantedEdges \cup toStart
    <3>1. ASSUME NEW e \in Edge PROVE Wanted(e)' <=> Wanted(e) \/ e \in toStart
      BY <1>1, <1>2, <1>3 DEF Wanted, Planned, Absent, Nothing, ToStart, ToFinish
    <3>2. toStart \subseteq Edge
      BY <1>1, <1>3
    <3> QED BY <3>1, <3>2 DEF WantedEdges
  <2>3. Cardinality(WantedEdges') =
          Cardinality(WantedEdges) + Cardinality(toStart) - Cardinality(WantedEdges \cap toStart)
    BY <1>6, <2>2, WantedFinite, FS_Union
  <2>4. Cardinality(WantedEdges) \in Nat
    BY WantedFinite, FS_CardinalityType
  <2>5. Cardinality(WantedEdges') = Cardinality(WantedEdges) + Cardinality(toStart)
    BY <1>6, <2>1, <2>3, <2>4, FS_EmptySet
  <2> QED BY <1>2, <2>5 DEF IInv, WantedCount, WantedEdges
<1>10. Phases'
  BY <1>5 DEF IInv, Phases
<1>11. PoolsInOrder'
  BY <1>5 DEF IInv, PoolsInOrder, WithinDepth, NoneWaitsInVain
<1>12. Adding'
  <2>1. ScanContract(dirty, outputs_ready, stale, deps_missing)'
    BY <1>5 DEF IInv, Adding, scanVars, ScanContract,
         KeepsContract, EdgeDirty, AllInputsReady
  <2>2. ASSUME NEW e \in Edge, Planned(e)'
        PROVE  /\ ~outputs_ready'[e]
               /\ want'[e] = IF \E o \in Outputs[e] : dirty'[o] THEN ToStart ELSE Nothing
    <3>1. CASE e \in new
      BY <1>1, <1>2, <1>4, <1>5, <3>1
    <3>2. CASE e \notin new
      <4>1. want'[e] = want[e]
        BY <1>2, <1>3, <3>2
      <4> QED BY <1>5, <2>2, <4>1 DEF IInv, Adding, Planned
    <3> QED BY <3>1, <3>2
  <2> QED BY <2>1, <2>2 DEF Adding
<1>13. Remembered'
  BY <1>5 DEF Remembered, InLoop
<1> QED BY <1>8, <1>9, <1>10, <1>11, <1>12, <1>13 DEF IInv

(* A step that ends the build leaves nothing to show but the types. *)
LEMMA EndStep ==
  ASSUME IInv, TypeOK', pc # "initial", pc' = "done",
         UNCHANGED <<want, wanted_edges, delayed, currentUse, unscheduled, pools>>
  PROVE  IInv'
<1>1. WantedCount' /\ PoolsInOrder'
  BY DEF IInv, WantedCount, Wanted, PoolsInOrder, WithinDepth, NoneWaitsInVain
<1>2. Phases' /\ Adding' /\ Remembered'
  BY DEF IInv, Phases, Adding, Remembered, InLoop
<1> QED BY <1>1, <1>2 DEF IInv

(* When the build begins, every ready edge of the plan is to be            *)
(* scheduled.                                                              *)
LEMMA BeginBuildStep ==
  ASSUME IInv, BeginBuild
  PROVE  IInv'
<1>1. /\ pc = "targets"
      /\ UNCHANGED <<planVars, scanVars, targets, pools, jobs, fast, echoes, finishing,
                     failuresAllowed, logVars, failed>>
  BY DEF BeginBuild
<1>2. CASE ~MoreToDo
  <2>1. pc' = "done" /\ outcome' = "upToDate" /\ UNCHANGED unscheduled
    BY <1>2 DEF BeginBuild
  <2>2. TypeOK'
    BY <1>1, <2>1 DEF IInv, TypeOK, planVars, scanVars, logVars, PcValues, Outcomes
  <2> QED BY <1>1, <2>1, <2>2, EndStep DEF planVars
<1>3. CASE MoreToDo
  <2>1. /\ pc' = "initial" /\ UNCHANGED outcome
        /\ unscheduled' = {e \in Edge : want[e] = ToStart /\ InputsReady(e)}
    BY <1>3 DEF BeginBuild
  <2>2. TypeOK'
    BY <1>1, <2>1 DEF IInv, TypeOK, planVars, scanVars, logVars, PcValues
  <2>3. WantedCount' /\ PoolsInOrder'
    BY <1>1 DEF IInv, planVars, WantedCount, Wanted, PoolsInOrder, WithinDepth, NoneWaitsInVain
  <2>4. Phases' /\ Adding'
    BY <1>1, <2>1 DEF IInv, planVars, Phases, Adding
  <2>5. ASSUME NEW e \in Edge, Planned(e), InputsReady(e)
        PROVE  want[e] = ToStart
    <3>1. ~outputs_ready[e]
      BY <1>1, <2>5 DEF IInv, Adding
    <3>2. ScanContract(dirty, outputs_ready, stale, deps_missing)
      BY <1>1 DEF IInv, Adding
    <3>3. EdgeDirty(e, dirty, stale, deps_missing)
      BY <2>5, <3>1, <3>2 DEF ScanContract, KeepsContract, InputsReady
    <3>4. \A o \in Outputs[e] : dirty[o] = EdgeDirty(e, dirty, stale, deps_missing)
      BY <3>2 DEF ScanContract, KeepsContract
    <3>5. \E o \in Outputs[e] : dirty[o]
      BY <3>3, <3>4, OutputsNonempty
    <3> QED BY <1>1, <2>5, <3>5 DEF IInv, Adding
  <2>6. \A e \in Edge : want[e] # ToFinish
    BY <1>1 DEF IInv, Adding, Planned, Absent, Nothing, ToStart, ToFinish
  <2>7. Remembered'
    <3>1. ASSUME NEW e \in Edge, (Planned(e) /\ InputsReady(e))' PROVE e \in unscheduled'
      BY <1>1, <2>1, <2>5, <3>1 DEF planVars, Planned, InputsReady, AllInputsReady
    <3> QED BY <1>1, <2>6, <3>1 DEF Remembered, planVars
  <2> QED BY <2>2, <2>3, <2>4, <2>7 DEF IInv
<1> QED BY <1>2, <1>3

(* A delayed edge keeps kWantToStart, any other is scheduled. *)
LEMMA ScheduleInitialEdgeStep ==
  ASSUME IInv, NEW e \in Edge, ScheduleInitialEdge(e)
  PROVE  IInv'
<1> DEFINE p == PoolOf[e]
<1>1. /\ pc = "initial" /\ e \in unscheduled
      /\ ScheduleInitial(e)
      /\ unscheduled' = unscheduled \ {e}
      /\ pools' = IF Depth[p] = 0 THEN pools ELSE pools \cup {p}
      /\ UNCHANGED <<dirty, outputs_ready, wanted_edges, command_edges, agenda, lost,
                     scanVars, pc, targets, jobs, fast, echoes, finishing,
                     failuresAllowed, logVars, failed, outcome>>
  BY DEF ScheduleInitialEdge
<1>2. p \in Pool /\ want[e] = ToStart /\ PoolsTyped
  BY <1>1, GraphTyped DEF IInv, Phases, TypeOK, PoolsTyped
<1> HIDE DEF p
<1>3. /\ PoolsTyped' /\ PoolsInOrder' /\ Queued \cup {e} \subseteq Queued'
      /\ want' \in [Edge -> Wants] /\ WantedCount'
      /\ \A x \in Edge : x # e => want'[x] = want[x]
  <2>1. CASE Depth[p] = 0
    <3>1. ScheduleWork(e) /\ pools' = pools
      BY <1>1, <2>1 DEF ScheduleInitial, p
    <3>2. /\ PoolsTyped' /\ PoolsInOrder' /\ Queued \cup {e} \subseteq Queued'
          /\ want' = [want EXCEPT ![e] = ToFinish]
      BY <1>2, <3>1, ScheduleWorkKeeps DEF IInv
    <3>3. WantedCount'
      BY <1>1, <1>2, <3>2, WantedStays DEF IInv, Wanted
    <3> QED BY <3>2, <3>3 DEF IInv, TypeOK, Wants
  <2>2. CASE Depth[p] # 0
    <3>1. /\ delayed' = [delayed EXCEPT ![p] = Append(@, e)]
          /\ UNCHANGED <<want, ready, currentUse>>
          /\ pools' = pools \cup {p}
      BY <1>1, <2>2 DEF ScheduleInitial, p
    <3>2. /\ Append(delayed[p], e) \in Seq(Edge)
          /\ ToSet(Append(delayed[p], e)) = ToSet(delayed[p]) \cup {e}
      BY <1>2, ToSetAppend DEF PoolsTyped
    <3>3. /\ PoolsTyped' /\ delayed'[p] = Append(delayed[p], e)
          /\ \A q \in Pool : q # p => delayed'[q] = delayed[q]
      BY <1>2, <3>1, <3>2 DEF PoolsTyped
    <3>4. PoolsInOrder'
      BY <3>1, <3>3 DEF IInv, PoolsInOrder, WithinDepth, NoneWaitsInVain
    <3>5. Queued \cup {e} \subseteq Queued'
      <4>1. ASSUME NEW q \in Pool PROVE ToSet(delayed[q]) \subseteq ToSet(delayed'[q])
        BY <3>2, <3>3
      <4>2. e \in ToSet(delayed'[p])
        BY <3>2, <3>3
      <4> QED BY <1>2, <3>1, <4>1, <4>2 DEF Queued
    <3> QED BY <1>1, <3>1, <3>3, <3>4, <3>5 DEF IInv, TypeOK, WantedCount, Wanted
  <2> QED BY <2>1, <2>2
<1>4. TypeOK'
  BY <1>1, <1>2, <1>3 DEF IInv, TypeOK, PoolsTyped, scanVars, logVars
<1>5. Phases' /\ Adding'
  BY <1>1, <1>3 DEF IInv, TypeOK, Phases, Adding
<1>6. Remembered'
  <2>1. /\ Held \subseteq Held' /\ e \in Held'
        /\ Held \cup unscheduled \cup ToSet(agenda)
             \subseteq (Held \cup unscheduled \cup ToSet(agenda))'
    BY <1>1, <1>3 DEF Held, Scheduled, Running, Pending
  <2>2. ASSUME NEW x \in Edge, x # e
        PROVE  /\ Planned(x)' <=> Planned(x)
               /\ want'[x] = ToFinish <=> want[x] = ToFinish
               /\ InputsReady(x)' <=> InputsReady(x)
    BY <1>1, <1>3, <2>2 DEF Planned, InputsReady, AllInputsReady
  <2> QED BY <1>1, <2>1, <2>2 DEF IInv, Remembered
<1> QED BY <1>3, <1>4, <1>5, <1>6 DEF IInv

(* The second loop of ScheduleInitialEdges puts its pool in order.         *)
LEMMA RetrieveInitialStep ==
  ASSUME IInv, NEW p \in Pool, RetrieveInitial(p)
  PROVE  IInv'
<1>1. /\ pc = "initial" /\ unscheduled = {} /\ p \in pools
      /\ RetrieveReadyEdges(p, currentUse[p], delayed[p])
      /\ pools' = pools \ {p}
      /\ UNCHANGED <<dirty, outputs_ready, want, wanted_edges, command_edges, agenda,
                     lost, scanVars, pc, targets, unscheduled, jobs, fast, echoes,
                     finishing, failuresAllowed, logVars, failed, outcome>>
  BY DEF RetrieveInitial
<1>2. PoolsTyped /\ currentUse[p] \in Int /\ delayed[p] \in Seq(Edge)
  BY DEF IInv, TypeOK, PoolsTyped
<1>3. PoolsTyped' /\ PoolsInOrder' /\ Queued \subseteq Queued'
  BY <1>1, <1>2, RetrieveInOrder DEF IInv
<1>4. TypeOK' /\ WantedCount'
  BY <1>1, <1>3 DEF IInv, TypeOK, PoolsTyped, scanVars, logVars, WantedCount, Wanted
<1>5. Phases' /\ Adding'
  BY <1>1 DEF IInv, Phases, Adding, Planned
<1>6. Remembered'
  <2>1. Held \subseteq Held'
    BY <1>1, <1>3 DEF Held, Scheduled, Running, Pending
  <2> QED BY <1>1, <2>1 DEF IInv, Remembered, Planned, InputsReady, AllInputsReady
<1> QED BY <1>3, <1>4, <1>5, <1>6 DEF IInv

(* Steps that only move the builder about in the loop. *)
LEMMA MoveStep ==
  ASSUME IInv, TypeOK', pc = "initial" \/ InLoop, InLoop',
         unscheduled = {}, pools = {}, finishing = NoEdge, agenda = << >>,
         UNCHANGED <<planVars, unscheduled, pools, jobs, finishing, failed>>,
         pc' # "phony"
  PROVE  IInv'
<1>1. WantedCount' /\ PoolsInOrder'
  BY DEF IInv, planVars, WantedCount, Wanted, PoolsInOrder, WithinDepth, NoneWaitsInVain
<1>2. Phases' /\ Adding'
  BY DEF IInv, Phases, Adding, InLoop, planVars
<1>3. Remembered'
  <2>1. Held' = Held
    BY DEF Held, Scheduled, Queued, Running, Pending, planVars
  <2> QED BY <2>1 DEF IInv, Remembered, Planned, InputsReady, AllInputsReady, planVars
<1> QED BY <1>1, <1>2, <1>3 DEF IInv

(* Steps that only move the builder on keep the invariant.                 *)
LEMMA MovingSteps ==
  ASSUME IInv, EnterLoop \/ LoopHead \/ PhonyDone \/ StopStarting
  PROVE  IInv'
<1>1. UNCHANGED <<planVars, scanVars, targets, unscheduled, pools, jobs, fast, echoes,
                  finishing, failuresAllowed, logVars, failed>>
  BY DEF EnterLoop, LoopHead, PhonyDone, StopStarting
<1>2. /\ pc = "initial" \/ InLoop
      /\ unscheduled = {} /\ pools = {} /\ finishing = NoEdge /\ agenda = << >>
  BY DEF EnterLoop, LoopHead, PhonyDone, StopStarting, IInv, Phases, InLoop
<1>3. \/ pc' \in {"head", "start", "wait"} /\ outcome' = outcome
      \/ pc # "initial" /\ pc' = "done" /\ outcome' = "built"
  BY DEF EnterLoop, LoopHead, PhonyDone, StopStarting
<1>4. TypeOK'
  BY <1>1, <1>3 DEF IInv, TypeOK, planVars, scanVars, logVars, PcValues, Outcomes
<1>5. CASE pc' \in {"head", "start", "wait"}
  BY <1>1, <1>2, <1>4, <1>5, MoveStep DEF InLoop
<1>6. CASE pc # "initial" /\ pc' = "done"
  BY <1>1, <1>4, <1>6, EndStep DEF planVars
<1> QED BY <1>3, <1>5, <1>6

---------------------------------------------------------------------------
(* The loop *)

(* The edge FindWork returns, the edge it drops, and the rest of the queue.*)
LEMMA FindWorkKeeps ==
  ASSUME TypeOK, NEW e \in Edge, FindWork(e), UNCHANGED delayed
  PROVE  /\ ready' \in Seq(Edge) /\ lost' \subseteq Edge /\ lost \subseteq lost'
         /\ Queued \subseteq Queued' \cup lost' \cup {e}
<1>1. /\ ready \in Seq(Edge) /\ ready # << >>
      /\ ready' = SubSeq(ready, 1, Len(ready) - 1)
      /\ lost' = lost \cup ({ready[Len(ready)]} \ {e})
  BY DEF FindWork, TypeOK
<1>2. /\ ready' \in Seq(Edge) /\ ready[Len(ready)] \in Edge
      /\ ToSet(ready) = ToSet(ready') \cup {ready[Len(ready)]}
  BY <1>1, ToSetFront
<1>3. Queued \subseteq Queued' \cup lost' \cup {e}
  BY <1>1, <1>2 DEF Queued
<1> QED BY <1>1, <1>2, <1>3 DEF TypeOK

(* The edge FindWork drops is remembered as lost, the one it returns       *)
(* runs.                                                                   *)
LEMMA StartCommandStep ==
  ASSUME IInv, NEW e \in Edge, NEW s \in Slot, StartCommand(e, s)
  PROVE  IInv'
<1>1. /\ pc = "start" /\ s \in FreeSlots
      /\ FindWork(e)
      /\ jobs' = [jobs EXCEPT ![s] = e]
      /\ fast' \in {fast, fast \cup {s}}
      /\ UNCHANGED <<dirty, outputs_ready, want, delayed, currentUse, wanted_edges,
                     command_edges, agenda, scanVars, pc, targets, unscheduled, pools,
                     echoes, finishing, failuresAllowed, logVars, failed, outcome>>
  BY DEF StartCommand, FreeSlots
<1>2. /\ ready' \in Seq(Edge) /\ lost' \subseteq Edge /\ lost \subseteq lost'
      /\ Queued \subseteq Queued' \cup lost' \cup {e}
  BY <1>1, FindWorkKeeps DEF IInv
<1>3. TypeOK'
  BY <1>1, <1>2 DEF IInv, TypeOK, scanVars, logVars
<1>4. WantedCount' /\ PoolsInOrder' /\ Phases' /\ Adding'
  BY <1>1 DEF IInv, WantedCount, Wanted, PoolsInOrder, WithinDepth, NoneWaitsInVain,
              Phases, Planned, Adding
<1>5. Running \cup {e} \subseteq Running'
  <2>1. e # NoEdge /\ jobs[s] = NoEdge /\ jobs'[s] = e
    BY <1>1, GraphTyped DEF FreeSlots, IInv, TypeOK
  <2>2. ASSUME NEW t \in Pending PROVE jobs[t] \in Running'
    <3>1. t # s /\ t \in Slot
      BY <2>1 DEF Pending
    <3>2. jobs'[t] = jobs[t]
      BY <1>1, <3>1
    <3> QED BY <3>1, <3>2 DEF Running, Pending
  <2>3. e \in Running'
    BY <2>1 DEF Running, Pending
  <2> QED BY <2>2, <2>3 DEF Running
<1>6. Held \subseteq Held'
  BY <1>1, <1>2, <1>5 DEF Held, Scheduled
<1>7. Remembered'
  BY <1>1, <1>6 DEF IInv, Remembered, Planned, InputsReady, AllInputsReady, InLoop
<1> QED BY <1>3, <1>4, <1>7 DEF IInv

(* A phony edge taken from the queue is the one being finished.            *)
LEMMA StartPhonyStep ==
  ASSUME IInv, NEW e \in Edge, StartPhony(e)
  PROVE  IInv'
<1>1. /\ pc = "start" /\ FindWork(e)
      /\ pc' = "phony" /\ finishing' = e
      /\ UNCHANGED <<dirty, outputs_ready, want, delayed, currentUse, wanted_edges,
                     command_edges, agenda, scanVars, targets, unscheduled, pools, jobs,
                     fast, echoes, failuresAllowed, logVars, failed, outcome>>
  BY DEF StartPhony
<1>2. /\ ready' \in Seq(Edge) /\ lost' \subseteq Edge /\ lost \subseteq lost'
      /\ Queued \subseteq Queued' \cup lost' \cup {e}
  BY <1>1, FindWorkKeeps DEF IInv
<1>3. TypeOK'
  BY <1>1, <1>2 DEF IInv, TypeOK, scanVars, logVars, PcValues
<1>4. WantedCount' /\ PoolsInOrder' /\ Phases' /\ Adding'
  BY <1>1 DEF IInv, WantedCount, Wanted, PoolsInOrder, WithinDepth, NoneWaitsInVain,
              Phases, Planned, Adding
<1>5. Held \ {NoEdge} \subseteq Held'
  <2>1. finishing = NoEdge /\ Running' = Running
    BY <1>1 DEF IInv, Phases, Running, Pending
  <2> QED BY <1>1, <1>2, <2>1 DEF Held, Scheduled
<1>6. Remembered'
  BY <1>1, <1>5, GraphTyped DEF IInv, Remembered, Planned, InputsReady, AllInputsReady, InLoop
<1> QED BY <1>3, <1>4, <1>6 DEF IInv

(* EdgeFinished of a success, whether the plan has the edge or not. *)
LEMMA FinishKeeps ==
  ASSUME IInv, NEW e \in Edge, EdgeSucceeded(e, << >>) \/ EdgeUnknown(e),
         agenda = << >>, pools' = pools
  PROVE  /\ PoolsTyped' /\ PoolsInOrder' /\ Queued \subseteq Queued'
         /\ wanted_edges' \in Nat /\ WantedCount'
         /\ want' \in [Edge -> Wants] /\ ~Planned(e)'
         /\ \A x \in Edge \ {e} : want'[x] = want[x]
         /\ outputs_ready' \in [Edge -> BOOLEAN] /\ agenda' \in Seq(Edge)
         /\ \A x \in Edge : InputsReady(x)' => InputsReady(x) \/ x \in ToSet(agenda')
<1>1. CASE EdgeSucceeded(e, << >>)
  <2>1. << >> \in Seq(Edge)
    BY EmptySeq
  <2> QED BY <1>1, <2>1, EdgeSucceededKeeps DEF IInv, Planned, TypeOK
<1>2. CASE EdgeUnknown(e)
  BY <1>2 DEF EdgeUnknown, IInv, TypeOK, PoolsTyped, PoolsInOrder, WithinDepth,
              NoneWaitsInVain, Queued, WantedCount, Wanted, Planned, InputsReady, AllInputsReady
<1> QED BY <1>1, <1>2

(* Finishing a phony edge keeps the invariant.                             *)
LEMMA FinishPhonyStep ==
  ASSUME IInv, FinishPhony
  PROVE  IInv'
<1>0. finishing \in Edge
  BY DEF FinishPhony, IInv, Phases
<1> PICK e \in Edge : e = finishing
  BY <1>0
<1>1. /\ pc = "phony" /\ agenda = << >>
      /\ EdgeSucceeded(e, << >>) \/ EdgeUnknown(e)
      /\ pc' = "cascade" /\ finishing' = NoEdge
      /\ UNCHANGED <<dirty, command_edges, lost, scanVars, targets, unscheduled, pools,
                     jobs, fast, echoes, failuresAllowed, logVars, failed, outcome>>
  BY DEF FinishPhony, IInv, Phases
<1>2. /\ PoolsTyped' /\ PoolsInOrder' /\ Queued \subseteq Queued'
      /\ wanted_edges' \in Nat /\ WantedCount'
      /\ want' \in [Edge -> Wants] /\ ~Planned(e)'
      /\ \A x \in Edge \ {e} : want'[x] = want[x]
      /\ outputs_ready' \in [Edge -> BOOLEAN] /\ agenda' \in Seq(Edge)
      /\ \A x \in Edge : InputsReady(x)' => InputsReady(x) \/ x \in ToSet(agenda')
  BY <1>1, FinishKeeps
<1>3. TypeOK'
  BY <1>1, <1>2 DEF IInv, TypeOK, PoolsTyped, scanVars, logVars, PcValues
<1>4. Phases' /\ Adding'
  BY <1>1 DEF IInv, Phases, Adding
<1>5. Remembered'
  <2>1. ASSUME NEW x \in Edge \ {e}, x \in Held PROVE x \in Held'
    BY <1>1, <1>2, <2>1 DEF Held, Scheduled, Running, Pending
  <2>2. unscheduled = {} /\ ToSet(agenda) = {}
    BY <1>1 DEF IInv, Phases, ToSet
  <2>3. ASSUME NEW x \in Edge \ {e}
        PROVE  /\ Planned(x)' /\ InputsReady(x)' => x \in Held' \cup ToSet(agenda')
               /\ want'[x] = ToFinish => x \in Held'
    BY <1>1, <1>2, <2>1, <2>2 DEF IInv, Remembered, InLoop, Planned
  <2>4. want'[e] # ToFinish
    BY <1>2 DEF Planned, Absent, ToFinish
  <2> QED BY <1>2, <2>3, <2>4 DEF Remembered
<1> QED BY <1>2, <1>3, <1>4, <1>5 DEF IInv

(* The next edge of the agenda is scheduled, finishes in turn, or stays as *)
(* it is: then it is not ready, or it was handed on before.                *)
LEMMA CascadeStep ==
  ASSUME IInv, Cascade
  PROVE  IInv'
<1>1. /\ pc = "cascade" /\ EdgeMaybeReady
      /\ UNCHANGED <<dirty, command_edges, lost, scanVars, pc, targets, unscheduled,
                     pools, jobs, fast, echoes, finishing, failuresAllowed, logVars,
                     failed, outcome>>
  BY DEF Cascade
<1>2. agenda # << >> /\ agenda \in Seq(Edge)
  BY <1>1 DEF EdgeMaybeReady, IInv, TypeOK
<1>3. /\ Head(agenda) \in Edge /\ Tail(agenda) \in Seq(Edge)
      /\ ToSet(agenda) = {Head(agenda)} \cup ToSet(Tail(agenda))
  BY <1>2, ToSetHeadTail
<1> PICK e \in Edge : e = Head(agenda)
  BY <1>3
<1> PICK rest \in Seq(Edge) : rest = Tail(agenda)
  BY <1>3
<1>4. PoolsTyped
  BY DEF IInv, TypeOK, PoolsTyped
<1>5. unscheduled = {}
  BY <1>1 DEF IInv, Phases
<1>6. CASE InputsReady(e) /\ want[e] = ToStart /\ ScheduleWork(e) /\ agenda' = rest
             /\ UNCHANGED <<wanted_edges, outputs_ready>>
  <2>1. /\ PoolsTyped' /\ PoolsInOrder' /\ Queued \cup {e} \subseteq Queued'
        /\ want' = [want EXCEPT ![e] = ToFinish]
    BY <1>1, <1>4, <1>6, ScheduleWorkKeeps DEF IInv
  <2>2. WantedCount'
    BY <1>6, <2>1, WantedStays DEF IInv, Wanted
  <2>3. TypeOK'
    BY <1>1, <1>6, <2>1 DEF IInv, TypeOK, PoolsTyped, scanVars, logVars, Wants
  <2>4. Phases' /\ Adding'
    BY <1>1, <1>5, <1>6, <2>1, GraphTyped
    DEF IInv, TypeOK, Phases, Adding, Planned, Absent, ToStart, ToFinish
  <2>5. Held \cup {e} \subseteq Held'
    BY <1>1, <2>1 DEF Held, Scheduled, Running, Pending
  <2>6. ASSUME NEW x \in Edge, x # e
        PROVE  want'[x] = want[x] /\ (InputsReady(x)' <=> InputsReady(x))
    BY <1>6, <2>1, <2>6 DEF InputsReady, AllInputsReady
  <2>7. Remembered'
    BY <1>1, <1>3, <1>5, <1>6, <2>5, <2>6 DEF IInv, Remembered, InLoop, Planned
  <2> QED BY <2>1, <2>2, <2>3, <2>4, <2>7 DEF IInv
<1>7. CASE InputsReady(e) /\ want[e] = Nothing /\ EdgeSucceeded(e, rest)
  <2>1. /\ PoolsTyped' /\ PoolsInOrder' /\ Queued \subseteq Queued'
        /\ wanted_edges' \in Nat /\ WantedCount'
        /\ want' = [want EXCEPT ![e] = Absent] /\ want' \in [Edge -> Wants]
        /\ outputs_ready' \in [Edge -> BOOLEAN]
        /\ agenda' \in Seq(Edge) /\ ToSet(rest) \subseteq ToSet(agenda')
        /\ \A x \in Edge : InputsReady(x)' => InputsReady(x) \/ x \in ToSet(agenda')
    BY <1>1, <1>7, EdgeSucceededKeeps DEF IInv
  <2>2. TypeOK'
    BY <1>1, <2>1 DEF IInv, TypeOK, PoolsTyped, scanVars, logVars
  <2>3. Phases' /\ Adding'
    BY <1>1, <1>5, <2>1, GraphTyped DEF IInv, TypeOK, Phases, Adding, Planned
  <2>4. Held \subseteq Held'
    BY <1>1, <2>1 DEF Held, Scheduled, Running, Pending
  <2>5. want'[e] = Absent /\ \A x \in Edge \ {e} : want'[x] = want[x]
    BY <2>1 DEF IInv, TypeOK
  <2>6. Remembered'
    <3>1. ASSUME NEW x \in Edge, x # e
          PROVE  /\ Planned(x)' /\ InputsReady(x)' => x \in Held' \cup ToSet(agenda')
                 /\ want'[x] = ToFinish => x \in Held'
      BY <1>1, <1>3, <1>5, <2>1, <2>4, <2>5, <3>1 DEF IInv, Remembered, InLoop, Planned
    <3> QED BY <2>5, <3>1 DEF Remembered, Planned, Absent, ToFinish
  <2> QED BY <2>1, <2>2, <2>3, <2>6 DEF IInv
<1>8. CASE /\ ~InputsReady(e) \/ want[e] \in {Absent, ToFinish}
           /\ agenda' = rest
           /\ UNCHANGED <<ready, delayed, currentUse, wanted_edges, want,
                          outputs_ready>>
  <2>1. TypeOK'
    BY <1>1, <1>8 DEF IInv, TypeOK, scanVars, logVars
  <2>2. WantedCount' /\ PoolsInOrder' /\ Phases' /\ Adding'
    BY <1>1, <1>8 DEF IInv, WantedCount, Wanted, PoolsInOrder, WithinDepth, NoneWaitsInVain,
                      Phases, Adding, Planned
  <2>3. Held' = Held
    BY <1>1, <1>8 DEF Held, Scheduled, Queued, Running, Pending
  <2>4. Planned(e) /\ InputsReady(e) => e \in Held
    BY <1>1, <1>8 DEF IInv, Remembered, InLoop, Planned
  <2>5. Remembered'
    BY <1>1, <1>3, <1>5, <1>8, <2>3, <2>4
    DEF IInv, Remembered, InLoop, Planned, InputsReady, AllInputsReady
  <2> QED BY <2>1, <2>2, <2>5 DEF IInv
<1> QED BY <1>1, <1>6, <1>7, <1>8 DEF EdgeMaybeReady

(* A successful command's edge leaves the plan, its slot is passed on.     *)
LEMMA CommandSucceedsStep ==
  ASSUME IInv, NEW s \in Slot, CommandSucceeds(s)
  PROVE  IInv'
<1>0. jobs[s] \in Edge
  BY DEF CommandSucceeds, Given, Pending, IInv, TypeOK
<1> PICK e \in Edge : e = jobs[s]
  BY <1>0
<1>1. /\ pc = "wait" /\ s \in Pending
      /\ EdgeSucceeded(e, << >>) \/ EdgeUnknown(e)
      /\ finishing' = e
      /\ jobs' = [jobs EXCEPT ![s] = NoEdge]
      /\ fast' = fast \ {s} /\ echoes' \in {echoes, echoes + 1}
      /\ pc' = "cascade"
      /\ UNCHANGED <<command_edges, lost, scanVars, targets, unscheduled, pools,
                     failuresAllowed, logVars, failed, outcome>>
  BY DEF CommandSucceeds, GiveBack, Given
<1>2. dirty' \in [Node -> BOOLEAN]
  BY DEF CommandSucceeds, CleanNodes, IInv, TypeOK
<1>3. agenda = << >> /\ finishing = NoEdge /\ unscheduled = {}
  BY <1>1 DEF IInv, Phases
<1>4. /\ PoolsTyped' /\ PoolsInOrder' /\ Queued \subseteq Queued'
      /\ wanted_edges' \in Nat /\ WantedCount'
      /\ want' \in [Edge -> Wants] /\ ~Planned(e)'
      /\ \A x \in Edge \ {e} : want'[x] = want[x]
      /\ outputs_ready' \in [Edge -> BOOLEAN] /\ agenda' \in Seq(Edge)
      /\ \A x \in Edge : InputsReady(x)' => InputsReady(x) \/ x \in ToSet(agenda')
  BY <1>1, <1>3, FinishKeeps
<1>5. TypeOK'
  BY <1>1, <1>2, <1>4 DEF IInv, TypeOK, PoolsTyped, scanVars, logVars, PcValues
<1>6. Phases' /\ Adding'
  BY <1>1, <1>3, <1>4 DEF IInv, Phases, Adding, Planned
<1>7. Running \subseteq Running' \cup {e}
  BY <1>1 DEF Running, Pending, IInv, TypeOK
<1>8. Held \ {NoEdge} \subseteq Held'
  BY <1>1, <1>3, <1>4, <1>7 DEF Held, Scheduled
<1>9. Remembered'
  <2>1. ToSet(agenda) = {}
    BY <1>3 DEF ToSet
  <2>2. ASSUME NEW x \in Edge \ {e}
        PROVE  /\ Planned(x)' /\ InputsReady(x)' => x \in Held' \cup ToSet(agenda')
               /\ want'[x] = ToFinish => x \in Held'
    BY <1>1, <1>3, <1>4, <1>8, <2>1, GraphTyped DEF IInv, Remembered, InLoop, Planned
  <2>3. want'[e] # ToFinish
    BY <1>4 DEF Planned, Absent, ToFinish
  <2> QED BY <1>4, <2>2, <2>3 DEF Remembered
<1> QED BY <1>4, <1>5, <1>6, <1>9 DEF IInv

(* A failed command's edge stays in the plan and is remembered as failed.  *)
LEMMA CommandFailsStep ==
  ASSUME IInv, NEW s \in Slot, CommandFails(s)
  PROVE  IInv'
<1>0. jobs[s] \in Edge
  BY DEF CommandFails, Given, Pending, IInv, TypeOK
<1> PICK e \in Edge : e = jobs[s]
  BY <1>0
<1>1. /\ pc = "wait"
      /\ EdgeFailed(e) \/ EdgeUnknown(e)
      /\ failed' = failed \cup {e}
      /\ failuresAllowed' = failuresAllowed - 1
      /\ jobs' = [jobs EXCEPT ![s] = NoEdge]
      /\ fast' = fast \ {s} /\ echoes' \in {echoes, echoes + 1}
      /\ pc' = "head"
      /\ UNCHANGED <<dirty, command_edges, lost, scanVars, targets, unscheduled, pools,
                     finishing, logVars, outcome>>
      /\ UNCHANGED <<wanted_edges, want, outputs_ready, agenda>>
  BY DEF CommandFails, GiveBack, EdgeFailed, EdgeUnknown
<1>2. PoolsTyped' /\ PoolsInOrder' /\ Queued \subseteq Queued'
  <2>1. CASE EdgeFailed(e)
    <3>1. PoolsTyped /\ ReleaseSlot(e)
      BY <2>1 DEF EdgeFailed, IInv, TypeOK, PoolsTyped
    <3> QED BY <1>1, <3>1, ReleaseSlotKeeps DEF IInv
  <2>2. CASE EdgeUnknown(e)
    BY <1>1, <2>2 DEF EdgeUnknown, IInv, TypeOK, PoolsTyped, PoolsInOrder, WithinDepth,
                      NoneWaitsInVain, Queued
  <2> QED BY <1>1, <2>1, <2>2
<1>3. TypeOK'
  BY <1>1, <1>2 DEF IInv, TypeOK, PoolsTyped, scanVars, logVars, PcValues
<1>4. WantedCount' /\ Phases' /\ Adding'
  BY <1>1 DEF IInv, WantedCount, Wanted, Phases, Adding, Planned
<1>5. Held \subseteq Held'
  <2>1. Running \subseteq Running' \cup {e}
    BY <1>1 DEF Running, Pending, IInv, TypeOK
  <2> QED BY <1>1, <1>2, <2>1 DEF Held, Scheduled
<1>6. Remembered'
  BY <1>1, <1>5 DEF IInv, Remembered, Planned, InputsReady, AllInputsReady, InLoop
<1> QED BY <1>2, <1>3, <1>4, <1>6 DEF IInv

(* Recording a finished command keeps the invariant.                       *)
LEMMA RecordCommandStep ==
  ASSUME IInv, RecordCommand
  PROVE  IInv'
<1>1. /\ pc = "cascade" /\ agenda = << >> /\ finishing # NoEdge
      /\ build_log' = build_log \cup {finishing}
      /\ deps_log' = deps_log \cup ({finishing} \cap HasDeps)
      /\ finishing' = NoEdge
      /\ pc' = "head"
      /\ UNCHANGED <<planVars, scanVars, targets, unscheduled, pools, jobs, fast,
                     echoes, failuresAllowed, failed, outcome>>
  BY DEF RecordCommand
<1>2. finishing \in Edge /\ ~Planned(finishing)
  BY <1>1 DEF IInv, TypeOK, Phases
<1>3. TypeOK'
  BY <1>1, <1>2 DEF IInv, TypeOK, planVars, scanVars, PcValues
<1>4. WantedCount' /\ PoolsInOrder' /\ Phases' /\ Adding'
  BY <1>1 DEF IInv, planVars, WantedCount, Wanted, PoolsInOrder, WithinDepth,
              NoneWaitsInVain, Phases, Adding
<1>5. Held \subseteq Held' \cup {finishing}
  BY <1>1 DEF Held, Scheduled, Queued, Running, Pending, planVars
<1>6. want[finishing] # ToFinish
  BY <1>2 DEF Planned, Absent, ToFinish
<1>7. Remembered'
  BY <1>1, <1>2, <1>5, <1>6
  DEF IInv, Remembered, InLoop, Planned, InputsReady, AllInputsReady, planVars
<1> QED BY <1>3, <1>4, <1>7 DEF IInv

(* The steps with which Build, or the AddTarget loop before it, returns. *)
Returns ==
  \/ \E n \in Node : AddTargetFails(n)
  \/ \E e \in Edge : StartCommandFails(e)
  \/ \E s \in Slot : RestatGivesUp(s) \/ StatFails(s)
  \/ SecondNotice \/ Interrupt \/ RecordFails \/ GiveUp

(* Every way Build returns keeps the invariant.                            *)
LEMMA ReturnStep ==
  ASSUME IInv, Returns
  PROVE  IInv'
<1>1. /\ pc # "initial" /\ pc' = "done" /\ outcome' \in Outcomes
      /\ jobs' = [s \in Slot |-> NoEdge] /\ fast' = {}
      /\ UNCHANGED <<scanVars, targets, unscheduled, pools, echoes, deps_log>>
      /\ UNCHANGED <<outputs_ready, want, delayed, currentUse, wanted_edges,
                     command_edges, agenda, finishing, failuresAllowed, failed>>
  BY DEF Returns, AddTargetFails, StartCommandFails, RestatGivesUp, StatFails,
         SecondNotice, Interrupt, RecordFails, GiveUp, Return, Outcomes, planVars, logVars
<1>2. /\ dirty' \in [Node -> BOOLEAN] /\ ready' \in Seq(Edge) /\ lost' \subseteq Edge
      /\ build_log' \subseteq Edge
  <2>1. CASE \E e \in Edge : StartCommandFails(e)
    <3>1. PICK e \in Edge : StartCommandFails(e)
      BY <2>1
    <3>2. FindWork(e) /\ UNCHANGED <<dirty, delayed, build_log>>
      BY <3>1 DEF StartCommandFails, Return, logVars
    <3> QED BY <3>2, FindWorkKeeps DEF IInv, TypeOK
  <2>2. CASE \E s \in Slot : RestatGivesUp(s) \/ StatFails(s)
    BY <2>2 DEF RestatGivesUp, StatFails, Return, CleanNodes, IInv, TypeOK, logVars
  <2>3. CASE RecordFails
    BY <2>3 DEF RecordFails, IInv, TypeOK, planVars
  <2>4. CASE (\E n \in Node : AddTargetFails(n)) \/ SecondNotice \/ Interrupt \/ GiveUp
    BY <2>4 DEF AddTargetFails, SecondNotice, Interrupt, GiveUp, Return, IInv, TypeOK,
       planVars, logVars
  <2> QED BY <2>1, <2>2, <2>3, <2>4 DEF Returns
<1>3. TypeOK'
  BY <1>1, <1>2 DEF IInv, TypeOK, scanVars, PcValues
<1> QED BY <1>1, <1>3, EndStep

---------------------------------------------------------------------------
(* The theorems *)

(* Every step of the builder keeps the invariant.                          *)
LEMMA IInvPreserved == IInv /\ [Next]_vars => IInv'
<1> SUFFICES ASSUME IInv, [Next]_vars PROVE IInv'
  OBVIOUS
<1>1. ASSUME NEW n \in Node, AddTarget(n) PROVE IInv'
  BY <1>1, AddTargetStep
<1>2. CASE BeginBuild
  BY <1>2, BeginBuildStep
<1>3. ASSUME NEW e \in Edge, ScheduleInitialEdge(e) PROVE IInv'
  BY <1>3, ScheduleInitialEdgeStep
<1>4. ASSUME NEW p \in Pool, RetrieveInitial(p) PROVE IInv'
  BY <1>4, RetrieveInitialStep
<1>5. CASE EnterLoop \/ LoopHead \/ PhonyDone \/ StopStarting
  BY <1>5, MovingSteps
<1>6. ASSUME NEW e \in Edge, NEW s \in Slot, StartCommand(e, s) PROVE IInv'
  BY <1>6, StartCommandStep
<1>7. ASSUME NEW e \in Edge, StartPhony(e) PROVE IInv'
  BY <1>7, StartPhonyStep
<1>8. CASE FinishPhony
  BY <1>8, FinishPhonyStep
<1>9. CASE Cascade
  BY <1>9, CascadeStep
<1>10. ASSUME NEW s \in Slot, CommandSucceeds(s) PROVE IInv'
  BY <1>10, CommandSucceedsStep
<1>11. ASSUME NEW s \in Slot, CommandFails(s) PROVE IInv'
  BY <1>11, CommandFailsStep
<1>12. CASE RecordCommand
  BY <1>12, RecordCommandStep
<1>13. CASE Returns
  BY <1>13, ReturnStep
<1>14. CASE UNCHANGED vars
  <2>1. UNCHANGED <<Queued, Running>>
    BY <1>14 DEF vars, planVars, Queued, Running, Pending
  <2> QED BY <1>14, <2>1
      DEF vars, planVars, scanVars, logVars, IInv, TypeOK, WantedCount, Wanted, Phases,
          PoolsInOrder, WithinDepth, NoneWaitsInVain, Adding, ScanContract, KeepsContract,
          EdgeDirty,
          Remembered, Held, Scheduled, InLoop, Planned, InputsReady, AllInputsReady
<1> QED BY <1>1, <1>2, <1>3, <1>4, <1>5, <1>6, <1>7, <1>8, <1>9, <1>10, <1>11, <1>12,
           <1>13, <1>14 DEF Next, Returns, Done

(* The inductive invariant holds in every reachable state of the build,    *)
(* for every graph, -j, -k, scan result and outcome of the commands.       *)
THEOREM Invariance == Spec => []IInv
BY InitIInv, IInvPreserved, PTL DEF Spec

(* Every variable keeps its type; above all wanted_edges_ never drops      *)
(* below zero, however often an edge is finished twice.                    *)
THEOREM TypeCorrect == Spec => []TypeOK
BY Invariance, IInvImplies, PTL

(* wanted_edges_ is the number of edges the plan still wants.  MoreToDo    *)
(* relies on it, and so does the end of the build loop.                    *)
THEOREM WantedCounted == Spec => []WantedCount
BY Invariance, IInvImplies, PTL

(* No pool grants more slots than its depth, and while the loop runs no    *)
(* edge is delayed by a pool that has a slot free.                         *)
THEOREM PoolsAreBusy == Spec => []PoolsBusy
BY Invariance, IInvImplies, PTL

(* No edge that could start is forgotten by the plan: it is queued,        *)
(* delayed, running, failed, about to be looked at, or among those that    *)
(* FindWork dropped.                                                       *)
THEOREM NothingForgotten == Spec => []NoForgottenWork
BY Invariance, IInvImplies, PTL

---------------------------------------------------------------------------
(* The build log is closed upwards.  An edge comes into hand from the      *)
(* queue, where its inputs are ready; ready edges have ready inputs, so    *)
(* all that is upstream is ready; and what is ready has its record, was    *)
(* clean, or is the edge FinishCommand is working on, while which nothing  *)
(* is started.                                                             *)

(* The edges whose turn to run came. *)
InHand == Running \cup build_log \cup ({finishing} \ {NoEdge})

(* The edges with all their records, and those for which nothing is left   *)
(* to do or to record.                                                     *)
Recorded   == {f \in build_log : f \in HasDeps => f \in deps_log}
Rebuilt(f) == f \in Phony \cup Recorded \/ \A o \in Outputs[f] : ~dirty[o]

HandedOnReady == \A e \in Queued \cup unscheduled : InputsReady(e)
HeldReady     == \A e \in InHand : e \in Edge /\ InputsReady(e)
ReadyUpwards  == \A f \in Edge : outputs_ready[f] => InputsReady(f)
ReadyRebuilt  == \A f \in Edge : outputs_ready[f] => Rebuilt(f) \/ f = finishing
UnwantedClean == \A f \in Edge : want[f] = Nothing => \A o \in Outputs[f] : ~dirty[o]
UsesRecorded  == \A e \in InHand : \A f \in Upstream[e] : Rebuilt(f)
PhonyInHand   == pc = "phony" => finishing \in Phony

LInv == /\ HandedOnReady /\ HeldReady /\ ReadyUpwards /\ ReadyRebuilt
        /\ UnwantedClean /\ UsesRecorded /\ PhonyInHand

(* The invariant gives the property the run checks.                        *)
LEMMA LInvImplies == TypeOK /\ LInv => RecordedBeforeUse
<1> SUFFICES ASSUME TypeOK, LInv, NEW e \in Running \cup build_log,
                    NEW f \in Upstream[e] \ Phony, \E o \in Outputs[f] : dirty[o]
             PROVE  f \in Recorded
  BY DEF RecordedBeforeUse, Recorded
<1>1. e \in InHand
  BY DEF InHand
<1>2. Rebuilt(f)
  BY <1>1 DEF LInv, UsesRecorded
<1> QED BY <1>2 DEF Rebuilt

(* The queue and the pools hold edges.                                     *)
LEMMA QueuedEdges == (TypeOK => Queued \subseteq Edge) /\ (TypeOK' => Queued' \subseteq Edge)
<1>1. ASSUME NEW s \in Seq(Edge) PROVE ToSet(s) \subseteq Edge
  BY <1>1 DEF ToSet
<1>2. TypeOK => ToSet(ready) \subseteq Edge /\ \A p \in Pool : ToSet(delayed[p]) \subseteq Edge
  BY <1>1 DEF TypeOK
<1>3. TypeOK' => ToSet(ready') \subseteq Edge /\ \A p \in Pool : ToSet(delayed'[p]) \subseteq Edge
  BY <1>1 DEF TypeOK
<1> QED BY <1>2, <1>3 DEF Queued

(* Everything upstream of an edge whose inputs are ready is ready.         *)
LEMMA UpstreamReady ==
  ASSUME ReadyUpwards, NEW e \in Edge, InputsReady(e)
  PROVE  \A f \in Upstream[e] : f \in Edge /\ outputs_ready[f]
<1> DEFINE S == {f \in Edge : outputs_ready[f]}
<1>1. \A x \in Edge : Producers[x] \subseteq Edge
  BY DEF Producers
<1>2. \A x \in Edge : InputsReady(x) => Producers[x] \subseteq S
  BY <1>1 DEF InputsReady, AllInputsReady
<1>3. Producers[e] \subseteq S /\ \A x \in S : Producers[x] \subseteq S
  BY <1>2 DEF ReadyUpwards
<1>4. Upstream[e] = Closure(Producers[e], Producers)
  BY DEF Upstream
<1>5. Closure(Producers[e], Producers) \subseteq S
  BY <1>3 DEF Closure
<1> QED BY <1>4, <1>5

(* What every step of the builder keeps to. *)
InOrder ==
  /\ \A f \in Edge : outputs_ready[f] => outputs_ready'[f]
  /\ \A f \in Edge : outputs_ready'[f] /\ ~outputs_ready[f] =>
       InputsReady(f) /\ (Rebuilt(f) \/ f = finishing')
  /\ \A n \in Node : dirty'[n] => dirty[n]
  /\ build_log \subseteq build_log' /\ deps_log \subseteq deps_log'
  /\ \A f \in Edge : f = finishing /\ f # finishing' => Rebuilt(f)'
  /\ \A e \in (Queued \cup unscheduled)' : e \in Queued \cup unscheduled \/ InputsReady(e)
  /\ \A e \in InHand' : e \in InHand \/ (e \in Edge \cap Queued /\ finishing = NoEdge)
  /\ pc' = "targets" \/ \A f \in Edge : want'[f] = Nothing => want[f] = Nothing
  /\ pc' = "phony" => finishing' \in Phony

(* Steps in order keep the log closed.                                     *)
LEMMA InOrderKeeps ==
  ASSUME IInv, IInv', LInv, InOrder
  PROVE  LInv'
<1>1. \A f \in Edge : Outputs[f] \subseteq Node
  BY GraphTyped
<1>2. ASSUME NEW f \in Edge, Rebuilt(f) PROVE Rebuilt(f)'
  BY <1>1, <1>2 DEF Rebuilt, Recorded, InOrder
<1>3. ASSUME NEW f \in Edge, InputsReady(f) PROVE InputsReady(f)'
  BY <1>3 DEF InputsReady, AllInputsReady, Producers, InOrder
<1>4. HandedOnReady'
  <2>1. Queued \cup unscheduled \cup (Queued \cup unscheduled)' \subseteq Edge
    BY QueuedEdges DEF IInv, TypeOK
  <2> QED BY <1>3, <2>1 DEF HandedOnReady, LInv, InOrder
<1>5. HeldReady'
  BY <1>3 DEF HeldReady, HandedOnReady, LInv, InOrder
<1>6. ReadyUpwards'
  BY <1>3 DEF ReadyUpwards, LInv, InOrder
<1>7. ReadyRebuilt'
  <2> SUFFICES ASSUME NEW f \in Edge, outputs_ready'[f], f # finishing' PROVE Rebuilt(f)'
    BY DEF ReadyRebuilt
  <2>1. CASE ~outputs_ready[f]
    BY <1>2, <2>1 DEF InOrder
  <2>2. CASE outputs_ready[f]
    <3>1. Rebuilt(f) \/ f = finishing
      BY <2>2 DEF LInv, ReadyRebuilt
    <3> QED BY <1>2, <3>1 DEF InOrder
  <2> QED BY <2>1, <2>2
<1>8. UnwantedClean'
  <2> SUFFICES ASSUME NEW f \in Edge, want'[f] = Nothing, NEW o \in Outputs[f] PROVE ~dirty'[o]
    BY DEF UnwantedClean
  <2>1. CASE pc' = "targets"
    BY <2>1 DEF IInv, Adding, Planned, Absent, Nothing, ToStart
  <2>2. CASE pc' # "targets"
    BY <1>1, <2>2 DEF InOrder, LInv, UnwantedClean
  <2> QED BY <2>1, <2>2
<1>9. UsesRecorded'
  <2> SUFFICES ASSUME NEW e \in InHand', NEW f \in Upstream[e] PROVE Rebuilt(f)'
    BY DEF UsesRecorded, Upstream, Closure
  <2>1. CASE e \in InHand
    <3>1. f \in Edge
      BY <2>1 DEF LInv, HeldReady, Upstream, Closure
    <3> QED BY <1>2, <2>1, <3>1 DEF LInv, UsesRecorded
  <2>2. CASE e \in Edge \cap Queued /\ finishing = NoEdge
    <3>1. f \in Edge /\ outputs_ready[f]
      BY <2>2, UpstreamReady DEF LInv, HandedOnReady
    <3>2. f # finishing
      BY <2>2, <3>1, GraphTyped
    <3> QED BY <1>2, <3>1, <3>2 DEF LInv, ReadyRebuilt
  <2> QED BY <2>1, <2>2 DEF InOrder
<1>10. PhonyInHand'
  BY DEF InOrder, PhonyInHand
<1> QED BY <1>4, <1>5, <1>6, <1>7, <1>8, <1>9, <1>10 DEF LInv

---------------------------------------------------------------------------
(* What the plan's helpers do to the queue: nothing comes into it but what *)
(* was waiting or is scheduled.                                            *)

(* RetrieveReadyEdges queues only edges that waited.                       *)
LEMMA RetrieveQueues ==
  ASSUME PoolsTyped, NEW p \in Pool, NEW use \in Int, NEW waiting \in Seq(Edge),
         RetrieveReadyEdges(p, use, waiting)
  PROVE  Queued' \subseteq Queued \cup ToSet(waiting)
<1> DEFINE k == Admitted(p, use, waiting)
           taken == SubSeq(waiting, 1, k)
           left == SubSeq(waiting, k + 1, Len(waiting))
<1>1. k \in 0 .. Len(waiting)
  BY AdmittedRange
<1>2. taken \in Seq(Edge) /\ ToSet(waiting) = ToSet(taken) \cup ToSet(left)
  BY <1>1, ToSetSplit
<1>3. /\ ready' = ready \o taken
      /\ delayed' = [delayed EXCEPT ![p] = left]
  BY DEF RetrieveReadyEdges
<1> HIDE DEF k, taken, left
<1>4. ToSet(ready') = ToSet(ready) \cup ToSet(taken)
  BY <1>2, <1>3, ToSetConcat DEF PoolsTyped
<1>5. ASSUME NEW q \in Pool PROVE ToSet(delayed'[q]) \subseteq ToSet(delayed[q]) \cup ToSet(left)
  BY <1>3 DEF PoolsTyped
<1> QED BY <1>2, <1>4, <1>5 DEF Queued

(* ScheduleWork queues its edge.                                           *)
LEMMA ScheduleWorkQueues ==
  ASSUME PoolsTyped, NEW e \in Edge, ScheduleWork(e)
  PROVE  Queued' \subseteq Queued \cup {e}
<1> DEFINE p == PoolOf[e]
<1>0. p \in Pool
  BY GraphTyped
<1>1. CASE Depth[p] = 0
  <2>1. ready' = Append(ready, e) /\ UNCHANGED <<delayed, currentUse>>
    BY <1>1 DEF ScheduleWork
  <2>2. ToSet(ready') = ToSet(ready) \cup {e}
    BY <2>1, ToSetAppend DEF PoolsTyped
  <2> QED BY <2>1, <2>2 DEF Queued
<1>2. CASE Depth[p] # 0
  <2> DEFINE waiting == Append(delayed[p], e)
  <2>1. waiting \in Seq(Edge) /\ ToSet(waiting) = ToSet(delayed[p]) \cup {e}
    BY <1>0, ToSetAppend DEF PoolsTyped
  <2>2. RetrieveReadyEdges(p, currentUse[p], waiting) /\ currentUse[p] \in Int
    BY <1>0, <1>2 DEF ScheduleWork, PoolsTyped
  <2> HIDE DEF p, waiting
  <2>3. ToSet(delayed[p]) \subseteq Queued
    BY <1>0 DEF Queued
  <2> QED BY <1>0, <2>1, <2>2, <2>3, RetrieveQueues
<1> QED BY <1>1, <1>2

(* A slot that is given back lets in only edges that waited.               *)
LEMMA ReleaseSlotQueues ==
  ASSUME PoolsTyped, NEW e \in Edge, ReleaseSlot(e)
  PROVE  Queued' \subseteq Queued
<1> DEFINE p == PoolOf[e]
           use == IF Wanted(e) /\ Depth[p] # 0 THEN currentUse[p] - 1 ELSE currentUse[p]
<1>1. p \in Pool /\ use \in Int /\ delayed[p] \in Seq(Edge)
  BY GraphTyped DEF PoolsTyped
<1>2. RetrieveReadyEdges(p, use, delayed[p])
  BY DEF ReleaseSlot
<1> HIDE DEF p, use
<1>3. ToSet(delayed[p]) \subseteq Queued
  BY <1>1 DEF Queued
<1> QED BY <1>1, <1>2, <1>3, RetrieveQueues

(* FindWork takes the edge it returns, and another, from the queue.        *)
LEMMA FindWorkQueues ==
  ASSUME TypeOK, NEW e \in Edge, FindWork(e), UNCHANGED delayed
  PROVE  e \in Queued /\ Queued' \subseteq Queued
<1>1. ready \in Seq(Edge) /\ ready # << >> /\ e = Head(ready)
  BY DEF FindWork, TypeOK
<1>2. e \in ToSet(ready)
  BY <1>1, ToSetHeadTail
<1>3. Len(ready) - 1 \in 0 .. Len(ready) /\ ready' = SubSeq(ready, 1, Len(ready) - 1)
  BY <1>1, EmptySeq DEF FindWork
<1>4. ToSet(ready') \subseteq ToSet(ready)
  BY <1>1, <1>3, ToSetSplit
<1> QED BY <1>2, <1>4 DEF Queued

---------------------------------------------------------------------------
(* The steps of the builder *)

(* No edge finishes, none is started.                                      *)
LEMMA StillInOrder ==
  ASSUME UNCHANGED <<outputs_ready, finishing>>,
         \A n \in Node : dirty'[n] => dirty[n],
         build_log \subseteq build_log', deps_log \subseteq deps_log',
         InHand' \subseteq InHand,
         \A e \in (Queued \cup unscheduled)' : e \in Queued \cup unscheduled \/ InputsReady(e),
         pc' = "targets" \/ \A f \in Edge : want'[f] = Nothing => want[f] = Nothing,
         pc' # "phony"
  PROVE  InOrder
BY DEF InOrder

(* AddTarget touches want_ only.                                           *)
LEMMA AddTargetInOrder ==
  ASSUME NEW n \in Node, AddTarget(n)
  PROVE  InOrder
<1>1. /\ pc' = "targets"
      /\ UNCHANGED <<dirty, outputs_ready, ready, delayed, jobs, finishing, unscheduled,
                     build_log, deps_log>>
  BY DEF AddTarget, logVars
<1>2. Queued' = Queued /\ InHand' = InHand
  BY <1>1 DEF Queued, InHand, Running, Pending
<1> QED BY <1>1, <1>2, StillInOrder

(* What ScheduleInitialEdges is to look at has its inputs ready.           *)
LEMMA BeginBuildInOrder ==
  ASSUME BeginBuild
  PROVE  InOrder
<1>1. /\ UNCHANGED <<planVars, jobs, finishing, logVars>>
      /\ pc' \in {"initial", "done"}
      /\ unscheduled' \in {unscheduled, {e \in Edge : want[e] = ToStart /\ InputsReady(e)}}
  BY DEF BeginBuild
<1>2. UNCHANGED <<dirty, outputs_ready, want, ready, delayed, jobs, finishing,
                  build_log, deps_log>>
  BY <1>1 DEF planVars, logVars
<1>3. Queued' = Queued /\ InHand' = InHand
  BY <1>2 DEF Queued, InHand, Running, Pending
<1>4. \A e \in unscheduled' : e \in unscheduled \/ InputsReady(e)
  BY <1>1
<1> QED BY <1>1, <1>2, <1>3, <1>4, StillInOrder

(* The loop over the startable edges queues what it was given.             *)
LEMMA ScheduleInitialEdgeInOrder ==
  ASSUME TypeOK, unscheduled \subseteq Edge, NEW e \in Edge, ScheduleInitialEdge(e)
  PROVE  InOrder
<1> DEFINE p == PoolOf[e]
<1>0. p \in Pool /\ PoolsTyped
  BY GraphTyped DEF TypeOK, PoolsTyped
<1>1. /\ pc = "initial" /\ pc' = pc /\ e \in unscheduled /\ ScheduleInitial(e)
      /\ unscheduled' = unscheduled \ {e}
      /\ UNCHANGED <<dirty, outputs_ready, jobs, finishing, build_log, deps_log>>
  BY DEF ScheduleInitialEdge, logVars
<1>2. InHand' = InHand
  BY <1>1 DEF InHand, Running, Pending
<1>3. /\ Queued' \subseteq Queued \cup {e}
      /\ \A f \in Edge : want'[f] = Nothing => want[f] = Nothing
  <2>1. CASE Depth[p] = 0
    <3>1. ScheduleWork(e)
      BY <1>1, <2>1 DEF ScheduleInitial
    <3>2. want' = [want EXCEPT ![e] = ToFinish]
      BY <3>1 DEF ScheduleWork
    <3> QED BY <1>0, <3>1, <3>2, ScheduleWorkQueues DEF TypeOK, ToFinish, Nothing
  <2>2. CASE Depth[p] # 0
    <3>1. /\ delayed' = [delayed EXCEPT ![p] = Append(@, e)]
          /\ UNCHANGED <<want, ready>>
      BY <1>1, <2>2 DEF ScheduleInitial
    <3>2. ToSet(Append(delayed[p], e)) = ToSet(delayed[p]) \cup {e}
      BY <1>0, ToSetAppend DEF PoolsTyped
    <3>3. ASSUME NEW q \in Pool PROVE ToSet(delayed'[q]) \subseteq ToSet(delayed[q]) \cup {e}
      BY <3>1, <3>2 DEF TypeOK
    <3> QED BY <3>1, <3>3 DEF Queued
  <2> QED BY <2>1, <2>2
<1> QED BY <1>1, <1>2, <1>3, StillInOrder

(* The second loop moves edges from a pool to the queue.                   *)
LEMMA RetrieveInitialInOrder ==
  ASSUME TypeOK, NEW p \in Pool, RetrieveInitial(p)
  PROVE  InOrder
<1>1. /\ pc = "initial" /\ pc' = pc
      /\ RetrieveReadyEdges(p, currentUse[p], delayed[p])
      /\ UNCHANGED <<dirty, outputs_ready, want, jobs, finishing, unscheduled,
                     build_log, deps_log>>
  BY DEF RetrieveInitial, logVars
<1>2. PoolsTyped /\ currentUse[p] \in Int /\ delayed[p] \in Seq(Edge)
  BY DEF TypeOK, PoolsTyped
<1>3. ToSet(delayed[p]) \subseteq Queued
  BY DEF Queued
<1>4. Queued' \subseteq Queued
  BY <1>1, <1>2, <1>3, RetrieveQueues
<1>5. InHand' = InHand
  BY <1>1 DEF InHand, Running, Pending
<1> QED BY <1>1, <1>4, <1>5, StillInOrder

(* The builder moves on in its loop.                                       *)
LEMMA MovingInOrder ==
  ASSUME EnterLoop \/ LoopHead \/ PhonyDone \/ StopStarting
  PROVE  InOrder
<1>1. /\ UNCHANGED <<planVars, jobs, finishing, logVars, unscheduled>>
      /\ pc' \in {"head", "start", "wait", "done"}
  BY DEF EnterLoop, LoopHead, PhonyDone, StopStarting
<1>2. UNCHANGED <<dirty, outputs_ready, want, ready, delayed, jobs, finishing,
                  build_log, deps_log>>
  BY <1>1 DEF planVars, logVars
<1>3. Queued' = Queued /\ InHand' = InHand
  BY <1>2 DEF Queued, InHand, Running, Pending
<1> QED BY <1>1, <1>2, <1>3, StillInOrder

(* The step that matters: an edge comes into hand from the queue, while    *)
(* nothing is being finished.                                              *)
LEMMA StartCommandInOrder ==
  ASSUME TypeOK, Phases, NEW e \in Edge, NEW s \in Slot, StartCommand(e, s)
  PROVE  InOrder
<1>1. /\ pc = "start" /\ pc' = pc /\ FindWork(e) /\ s \in FreeSlots
      /\ jobs' = [jobs EXCEPT ![s] = e]
      /\ UNCHANGED <<dirty, outputs_ready, want, delayed, finishing, unscheduled,
                     build_log, deps_log>>
  BY DEF StartCommand, logVars
<1>2. finishing = NoEdge
  BY <1>1 DEF Phases
<1>3. e \in Queued /\ Queued' \subseteq Queued
  BY <1>1, FindWorkQueues
<1>4. Running' \subseteq Running \cup {e}
  BY <1>1 DEF Running, Pending, TypeOK
<1>5. InHand' \subseteq InHand \cup {e}
  BY <1>1, <1>4 DEF InHand
<1> QED BY <1>1, <1>2, <1>3, <1>5 DEF InOrder

(* The same for a phony edge, which is finished at once.                   *)
LEMMA StartPhonyInOrder ==
  ASSUME TypeOK, Phases, NEW e \in Edge, StartPhony(e)
  PROVE  InOrder
<1>1. /\ pc = "start" /\ FindWork(e) /\ e \in Phony /\ finishing' = e
      /\ UNCHANGED <<dirty, outputs_ready, want, delayed, jobs, unscheduled, build_log, deps_log>>
  BY DEF StartPhony, logVars
<1>2. finishing = NoEdge /\ NoEdge \notin Edge
  BY <1>1, GraphTyped DEF Phases
<1>3. e \in Queued /\ Queued' \subseteq Queued
  BY <1>1, FindWorkQueues
<1>4. InHand' \subseteq InHand \cup {e}
  BY <1>1 DEF InHand, Running, Pending
<1> QED BY <1>1, <1>2, <1>3, <1>4 DEF InOrder

(* EdgeFinished on a success makes one edge ready and queues nothing new.  *)
LEMMA EdgeSucceededQueues ==
  ASSUME TypeOK, NEW e \in Edge, NEW rest, EdgeSucceeded(e, rest)
  PROVE  /\ Queued' \subseteq Queued
         /\ outputs_ready' = [outputs_ready EXCEPT ![e] = TRUE]
         /\ \A f \in Edge : want'[f] = Nothing => want[f] = Nothing
<1>1. PoolsTyped /\ ReleaseSlot(e)
  BY DEF TypeOK, PoolsTyped, EdgeSucceeded
<1> QED BY <1>1, ReleaseSlotQueues DEF EdgeSucceeded, TypeOK, Absent, Nothing

(* A phony edge needs no record.                                           *)
LEMMA FinishPhonyInOrder ==
  ASSUME TypeOK, Phases, LInv, FinishPhony
  PROVE  InOrder
<1>1. /\ pc = "phony" /\ pc' = "cascade" /\ finishing' = NoEdge
      /\ EdgeSucceeded(finishing, << >>) \/ EdgeUnknown(finishing)
      /\ UNCHANGED <<dirty, jobs, unscheduled, build_log, deps_log>>
  BY DEF FinishPhony, logVars
<1>2. finishing \in Edge /\ finishing \in Phony
  BY <1>1 DEF Phases, LInv, PhonyInHand
<1>3. InHand' \subseteq InHand
  BY <1>1 DEF InHand, Running, Pending
<1>4. InputsReady(finishing)
  BY <1>2, GraphTyped DEF LInv, HeldReady, InHand
<1>5. /\ Queued' \subseteq Queued
      /\ outputs_ready' \in {outputs_ready, [outputs_ready EXCEPT ![finishing] = TRUE]}
      /\ \A f \in Edge : want'[f] = Nothing => want[f] = Nothing
  <2>1. CASE EdgeSucceeded(finishing, << >>)
    BY <1>2, <2>1, EdgeSucceededQueues
  <2>2. CASE EdgeUnknown(finishing)
    BY <2>2 DEF EdgeUnknown, Queued
  <2> QED BY <1>1, <2>1, <2>2
<1>6. \A f \in Edge : outputs_ready'[f] => outputs_ready[f] \/ f = finishing
  BY <1>5 DEF TypeOK
<1>7. \A f \in Edge : outputs_ready[f] => outputs_ready'[f]
  BY <1>5 DEF TypeOK
<1>8. \A f \in Phony : Rebuilt(f) /\ Rebuilt(f)'
  BY DEF Rebuilt
<1> QED BY <1>1, <1>2, <1>3, <1>4, <1>5, <1>6, <1>7, <1>8 DEF InOrder

(* The calls that follow schedule edges whose inputs are ready, and pass   *)
(* through edges nobody wants, which were clean all along.                 *)
LEMMA CascadeInOrder ==
  ASSUME TypeOK, LInv, Cascade
  PROVE  InOrder
<1>1. /\ pc = "cascade" /\ pc' = pc /\ EdgeMaybeReady
      /\ UNCHANGED <<dirty, jobs, finishing, unscheduled, build_log, deps_log>>
  BY DEF Cascade, logVars
<1>2. InHand' = InHand
  BY <1>1 DEF InHand, Running, Pending
<1> DEFINE e == Head(agenda)
<1>3. e \in Edge
  BY <1>1, ToSetHeadTail DEF TypeOK, EdgeMaybeReady
<1>4. CASE InputsReady(e) /\ ScheduleWork(e) /\ UNCHANGED outputs_ready
  <2>1. Queued' \subseteq Queued \cup {e}
    BY <1>3, <1>4, ScheduleWorkQueues DEF TypeOK, PoolsTyped
  <2>2. \A f \in Edge : want'[f] = Nothing => want[f] = Nothing
    BY <1>4 DEF ScheduleWork, TypeOK, ToFinish, Nothing
  <2> HIDE DEF e
  <2> QED BY <1>1, <1>2, <1>4, <2>1, <2>2, StillInOrder
<1>5. CASE InputsReady(e) /\ want[e] = Nothing /\ EdgeSucceeded(e, Tail(agenda))
  <2>1. /\ Queued' \subseteq Queued
        /\ outputs_ready' = [outputs_ready EXCEPT ![e] = TRUE]
        /\ \A f \in Edge : want'[f] = Nothing => want[f] = Nothing
    BY <1>3, <1>5, EdgeSucceededQueues
  <2>2. Rebuilt(e)
    BY <1>3, <1>5 DEF LInv, UnwantedClean, Rebuilt
  <2> HIDE DEF e
  <2>3. \A f \in Edge : outputs_ready'[f] => outputs_ready[f] \/ f = e
    BY <2>1 DEF TypeOK
  <2>4. \A f \in Edge : outputs_ready[f] => outputs_ready'[f]
    BY <2>1 DEF TypeOK
  <2> QED BY <1>1, <1>2, <1>5, <2>1, <2>2, <2>3, <2>4 DEF InOrder
<1>6. CASE UNCHANGED <<ready, delayed, want, outputs_ready>>
  <2>1. Queued' = Queued
    BY <1>6 DEF Queued
  <2> QED BY <1>1, <1>2, <1>6, <2>1, StillInOrder
<1> QED BY <1>1, <1>4, <1>5, <1>6 DEF EdgeMaybeReady

(* A command that succeeded is ready at once and recorded later; until     *)
(* then it is the one being finished.                                      *)
LEMMA CommandSucceedsInOrder ==
  ASSUME TypeOK, Phases, LInv, NEW s \in Slot, CommandSucceeds(s)
  PROVE  InOrder
<1> DEFINE e == jobs[s]
<1>1. /\ pc = "wait" /\ pc' = "cascade" /\ s \in Pending /\ finishing' = e
      /\ EdgeSucceeded(e, << >>) \/ EdgeUnknown(e)
      /\ jobs' = [jobs EXCEPT ![s] = NoEdge]
      /\ UNCHANGED <<unscheduled, build_log, deps_log>>
      /\ \E ns : dirty' = CleanNodes(ns)
  BY DEF CommandSucceeds, GiveBack, Given, logVars
<1>2. e \in Edge /\ e \in Running /\ finishing = NoEdge /\ NoEdge \notin Edge
  BY <1>1, GraphTyped DEF TypeOK, Pending, Running, Phases
<1>3. \A n \in Node : dirty'[n] => dirty[n]
  BY <1>1 DEF CleanNodes
<1>4. Running' \subseteq Running
  BY <1>1 DEF Running, Pending, TypeOK
<1>5. InHand' \subseteq InHand
  BY <1>1, <1>2, <1>4 DEF InHand
<1>6. InputsReady(e)
  BY <1>2 DEF LInv, HeldReady, InHand
<1> HIDE DEF e
<1>7. /\ Queued' \subseteq Queued
      /\ outputs_ready' \in {outputs_ready, [outputs_ready EXCEPT ![e] = TRUE]}
      /\ \A f \in Edge : want'[f] = Nothing => want[f] = Nothing
  <2>1. CASE EdgeSucceeded(e, << >>)
    BY <1>2, <2>1, EdgeSucceededQueues
  <2>2. CASE EdgeUnknown(e)
    BY <2>2 DEF EdgeUnknown, Queued
  <2> QED BY <1>1, <2>1, <2>2
<1>8. \A f \in Edge : outputs_ready'[f] => outputs_ready[f] \/ f = e
  BY <1>7 DEF TypeOK
<1>9. \A f \in Edge : outputs_ready[f] => outputs_ready'[f]
  BY <1>7 DEF TypeOK
<1> QED BY <1>1, <1>2, <1>3, <1>5, <1>6, <1>7, <1>8, <1>9 DEF InOrder

(* A command that failed is not recorded.                                  *)
LEMMA CommandFailsInOrder ==
  ASSUME TypeOK, NEW s \in Slot, CommandFails(s)
  PROVE  InOrder
<1>1. /\ pc' = "head" /\ s \in Pending
      /\ EdgeFailed(jobs[s]) \/ EdgeUnknown(jobs[s])
      /\ jobs' = [jobs EXCEPT ![s] = NoEdge]
      /\ UNCHANGED <<dirty, finishing, unscheduled, build_log, deps_log>>
  BY DEF CommandFails, GiveBack, Given, logVars
<1>2. jobs[s] \in Edge
  BY <1>1 DEF TypeOK, Pending
<1>3. Running' \subseteq Running
  BY <1>1 DEF Running, Pending, TypeOK
<1>4. InHand' \subseteq InHand
  BY <1>1, <1>3 DEF InHand
<1>5. Queued' \subseteq Queued /\ UNCHANGED <<outputs_ready, want>>
  <2>1. CASE EdgeFailed(jobs[s])
    BY <1>2, <2>1, ReleaseSlotQueues DEF EdgeFailed, TypeOK, PoolsTyped
  <2>2. CASE EdgeUnknown(jobs[s])
    BY <2>2 DEF EdgeUnknown, Queued
  <2> QED BY <1>1, <2>1, <2>2
<1> QED BY <1>1, <1>4, <1>5, StillInOrder

(* The finished command gets its record.                                   *)
LEMMA RecordCommandInOrder ==
  ASSUME RecordCommand
  PROVE  InOrder
<1>1. /\ pc' = "head" /\ finishing # NoEdge /\ finishing' = NoEdge
      /\ build_log' = build_log \cup {finishing}
      /\ deps_log' = deps_log \cup ({finishing} \cap HasDeps)
      /\ UNCHANGED <<planVars, jobs, unscheduled>>
  BY DEF RecordCommand
<1>2. UNCHANGED <<dirty, outputs_ready, want, ready, delayed>>
  BY <1>1 DEF planVars
<1>3. Queued' = Queued /\ Running' = Running
  BY <1>1, <1>2 DEF Queued, Running, Pending
<1>4. InHand' \subseteq InHand
  BY <1>1, <1>3 DEF InHand
<1>5. \A f \in Edge : f = finishing => Rebuilt(f)'
  BY <1>1 DEF Rebuilt, Recorded
<1> QED BY <1>1, <1>2, <1>3, <1>4, <1>5 DEF InOrder

(* Whatever way Build returns, the log is left as it may be.               *)
LEMMA ReturnInOrder ==
  ASSUME TypeOK, Returns
  PROVE  InOrder
<1>1. /\ pc' = "done" /\ jobs' = [s \in Slot |-> NoEdge]
      /\ UNCHANGED <<outputs_ready, want, delayed, unscheduled, finishing>>
  BY DEF Returns, AddTargetFails, StartCommandFails, RestatGivesUp, StatFails, SecondNotice,
     Interrupt,
         RecordFails, GiveUp, Return, planVars
<1>2. /\ \A n \in Node : dirty'[n] => dirty[n]
      /\ Queued' \subseteq Queued
      /\ build_log \subseteq build_log' /\ deps_log \subseteq deps_log'
      /\ build_log' \subseteq build_log \cup ({finishing} \ {NoEdge})
  <2>1. CASE \E e \in Edge : StartCommandFails(e)
    <3>1. PICK e \in Edge : StartCommandFails(e)
      BY <2>1
    <3>2. FindWork(e) /\ UNCHANGED <<dirty, delayed, build_log, deps_log>>
      BY <3>1 DEF StartCommandFails, Return, logVars
    <3> QED BY <3>2, FindWorkQueues
  <2>2. CASE \E s \in Slot : RestatGivesUp(s) \/ StatFails(s)
    <3>1. UNCHANGED <<ready, delayed, build_log, deps_log>> /\ \E ns : dirty' = CleanNodes(ns)
      BY <2>2 DEF RestatGivesUp, StatFails, Return, logVars
    <3> QED BY <3>1 DEF CleanNodes, Queued
  <2>3. CASE RecordFails
    <3>1. UNCHANGED <<dirty, ready, delayed, deps_log>> /\ finishing # NoEdge
      BY <2>3 DEF RecordFails, planVars
    <3>2. build_log' \in {build_log, build_log \cup ({finishing} \cap HasDeps)}
      BY <2>3 DEF RecordFails
    <3> QED BY <3>1, <3>2 DEF Queued
  <2>4. CASE (\E n \in Node : AddTargetFails(n)) \/ SecondNotice \/ Interrupt \/ GiveUp
    BY <2>4 DEF AddTargetFails, SecondNotice, Interrupt, GiveUp, Return, planVars, logVars,
       Queued
  <2> QED BY <2>1, <2>2, <2>3, <2>4 DEF Returns
<1>3. Running' = {}
  BY <1>1 DEF Running, Pending
<1>4. InHand' \subseteq InHand
  BY <1>1, <1>2, <1>3 DEF InHand
<1> QED BY <1>1, <1>2, <1>4, StillInOrder

---------------------------------------------------------------------------
(* The theorem *)

(* After the scan, a ready edge is clean, or a phony one without inputs.   *)
LEMMA InitLInv == Init => LInv
<1> SUFFICES ASSUME Init PROVE LInv
  OBVIOUS
<1>1. ScanContract(dirty, outputs_ready, stale, deps_missing)
  BY DEF Init
<1>2. ToSet(<< >>) = {}
  BY DEF ToSet
<1>3. Queued = {} /\ InHand = {} /\ unscheduled = {}
  BY <1>2 DEF Init, Queued, InHand, Running, Pending
<1>4. ReadyUpwards
  BY <1>1 DEF ReadyUpwards, ScanContract, KeepsContract, InputsReady
<1>5. ReadyRebuilt
  <2> SUFFICES ASSUME NEW f \in Edge, outputs_ready[f], f \notin Phony PROVE \A o \in Outputs[f] : ~dirty[o]
    BY DEF ReadyRebuilt, Rebuilt
  <2>1. ~EdgeDirty(f, dirty, stale, deps_missing)
    BY <1>1 DEF ScanContract, KeepsContract
  <2> QED BY <1>1, <2>1 DEF ScanContract, KeepsContract
<1>6. UnwantedClean /\ PhonyInHand
  BY DEF Init, UnwantedClean, PhonyInHand, Absent, Nothing
<1> QED BY <1>3, <1>4, <1>5, <1>6 DEF LInv, HandedOnReady, HeldReady, UsesRecorded

(* Every step of the builder is in order.                                  *)
LEMMA StepsInOrder == IInv /\ LInv /\ [Next]_vars => InOrder
<1> SUFFICES ASSUME IInv, LInv, [Next]_vars PROVE InOrder
  OBVIOUS
<1>0. TypeOK /\ Phases
  BY DEF IInv
<1>1. ASSUME NEW n \in Node, AddTarget(n) PROVE InOrder
  BY <1>1, AddTargetInOrder
<1>2. CASE BeginBuild
  BY <1>2, BeginBuildInOrder
<1>3. ASSUME NEW e \in Edge, ScheduleInitialEdge(e) PROVE InOrder
  BY <1>0, <1>3, ScheduleInitialEdgeInOrder DEF TypeOK
<1>4. ASSUME NEW p \in Pool, RetrieveInitial(p) PROVE InOrder
  BY <1>0, <1>4, RetrieveInitialInOrder
<1>5. CASE EnterLoop \/ LoopHead \/ PhonyDone \/ StopStarting
  BY <1>5, MovingInOrder
<1>6. ASSUME NEW e \in Edge, NEW s \in Slot, StartCommand(e, s) PROVE InOrder
  BY <1>0, <1>6, StartCommandInOrder
<1>7. ASSUME NEW e \in Edge, StartPhony(e) PROVE InOrder
  BY <1>0, <1>7, StartPhonyInOrder
<1>8. CASE FinishPhony
  BY <1>0, <1>8, FinishPhonyInOrder
<1>9. CASE Cascade
  BY <1>0, <1>9, CascadeInOrder
<1>10. ASSUME NEW s \in Slot, CommandSucceeds(s) PROVE InOrder
  BY <1>0, <1>10, CommandSucceedsInOrder
<1>11. ASSUME NEW s \in Slot, CommandFails(s) PROVE InOrder
  BY <1>0, <1>11, CommandFailsInOrder
<1>12. CASE RecordCommand
  BY <1>12, RecordCommandInOrder
<1>13. CASE Returns
  BY <1>0, <1>13, ReturnInOrder
<1>14. CASE UNCHANGED vars
  <2>1. /\ UNCHANGED <<dirty, outputs_ready, want, finishing, unscheduled, build_log,
                       deps_log, pc>>
        /\ UNCHANGED <<Queued, Running>>
    BY <1>14 DEF vars, planVars, logVars, Queued, Running, Pending
  <2>2. InHand' = InHand
    BY <2>1 DEF InHand
  <2> QED BY <2>1, <2>2 DEF InOrder, LInv, PhonyInHand
<1> QED BY <1>1, <1>2, <1>3, <1>4, <1>5, <1>6, <1>7, <1>8, <1>9, <1>10, <1>11, <1>12,
           <1>13, <1>14 DEF Next, Returns, Done

(* Hence the log stays closed.                                             *)
LEMMA LInvPreserved == IInv /\ LInv /\ [Next]_vars => LInv'
BY IInvPreserved, StepsInOrder, InOrderKeeps

(* At every moment, hence also when the process dies there, the build log  *)
(* holds no command, and none runs, without the records of all commands    *)
(* upstream that had to run (builder.go:333): the next run rebuilds no     *)
(* less than it must, although FindWork drops edges and repeats others.    *)
THEOREM LogClosedUpwards == Spec => []RecordedBeforeUse
<1>1. Init => LInv
  BY InitLInv
<1>2. IInv /\ LInv /\ [Next]_vars => LInv'
  BY LInvPreserved
<1>3. IInv /\ LInv => RecordedBeforeUse
  BY LInvImplies DEF IInv
<1> QED BY <1>1, <1>2, <1>3, Invariance, PTL DEF Spec

---------------------------------------------------------------------------
(* The failure budget.  A command is started in the inner loop only, which *)
(* is entered with budget left.  Starting one leaves no more than -j in    *)
(* the list of the running ones: CanRunMore compares the pending ones with *)
(* -j, or sees that list empty.  Once the budget is used up every failure  *)
(* makes that list shorter or is that of a command whose notice is still   *)
(* to come.                                                                *)

(* The builder is in the inner loop, between two commands.                 *)
Starting == pc \in {"start", "phony"} \/ (pc = "cascade" /\ finishing = NoEdge)

FInv == FailureOverrun /\ (Starting => failuresAllowed >= 1)

(* The slots in use can be counted, before and after a step.               *)
LEMMA SlowFinite ==
  /\ IsFiniteSet(Pending) /\ Cardinality(Pending) \in Nat
  /\ IsFiniteSet(Slow) /\ Cardinality(Slow) \in Nat
  /\ IsFiniteSet(Slow') /\ Cardinality(Slow') \in Nat
<1>1. IsFiniteSet(Pending) /\ IsFiniteSet(Slow) /\ IsFiniteSet(Slow')
  BY BuilderConstants, FS_Subset DEF Pending, Slow
<1> QED BY <1>1, FS_CardinalityType

(* A command that is given back leaves the list of the running ones, or    *)
(* its notice is still to come.                                            *)
LEMMA SlotGivenBack ==
  ASSUME TypeOK, NEW s \in Pending, GiveBack(s)
  PROVE  \/ echoes' = echoes + 1 /\ Cardinality(Slow') = Cardinality(Slow)
         \/ echoes' = echoes /\ Cardinality(Slow') = Cardinality(Slow) - 1
<1>1. /\ jobs' = [jobs EXCEPT ![s] = NoEdge] /\ fast' = fast \ {s}
      /\ echoes' = IF s \in fast THEN echoes + 1 ELSE echoes
  BY DEF GiveBack
<1>2. Pending' = Pending \ {s}
  BY <1>1 DEF Pending, TypeOK
<1>3. CASE s \in fast
  BY <1>1, <1>2, <1>3 DEF Slow
<1>4. CASE s \notin fast
  <2>1. s \in Slow /\ Slow' = Slow \ {s}
    BY <1>1, <1>2, <1>4 DEF Slow
  <2> QED BY <1>1, <1>4, <2>1, SlowFinite, FS_RemoveElement
<1> QED BY <1>3, <1>4

(* CanRunMore lets no more than -j into the list of the running ones.      *)
LEMMA StartedWithinJobs ==
  ASSUME TypeOK, NEW e \in Edge, NEW s \in Slot, StartCommand(e, s)
  PROVE  Cardinality(Slow') <= Parallelism
<1>1. /\ CanRunMore /\ jobs' = [jobs EXCEPT ![s] = e]
      /\ fast' \in {fast, fast \cup {s}}
  BY DEF StartCommand
<1>2. Slow' \subseteq Slow \cup {s} /\ Slow' \subseteq Pending \cup {s}
  BY <1>1 DEF Slow, Pending, TypeOK
<1>3. ASSUME NEW S, IsFiniteSet(S), Cardinality(S) < Parallelism, Slow' \subseteq S \cup {s}
      PROVE  Cardinality(Slow') <= Parallelism
  <2>1. /\ IsFiniteSet(S \cup {s}) /\ Cardinality(S) \in Nat
        /\ Cardinality(S \cup {s}) = IF s \in S THEN Cardinality(S) ELSE Cardinality(S) + 1
    BY <1>3, FS_AddElement, FS_CardinalityType
  <2>2. Cardinality(Slow') <= Cardinality(S \cup {s})
    BY <1>3, <2>1, FS_Subset
  <2> QED BY <1>3, <2>1, <2>2, SlowFinite, BuilderConstants
<1>4. CASE Cardinality(Pending) < Parallelism
  BY <1>2, <1>3, <1>4, SlowFinite
<1>5. CASE Slow = {}
  <2>1. IsFiniteSet({}) /\ Cardinality({}) = 0
    BY FS_EmptySet
  <2> QED BY <1>2, <1>3, <1>5, <2>1, BuilderConstants
<1> QED BY <1>1, <1>4, <1>5 DEF CanRunMore

(* Nothing is started or given back and the budget stays: the overrun is   *)
(* no larger.                                                              *)
LEMMA BudgetStays ==
  ASSUME TypeOK, FInv, UNCHANGED <<failuresAllowed, echoes>>,
         UNCHANGED <<jobs, fast>> \/ jobs' = [s \in Slot |-> NoEdge]
  PROVE  FailureOverrun'
<1>1. Slow' \subseteq Slow
  BY DEF Slow, Pending
<1>2. Cardinality(Slow') <= Cardinality(Slow)
  BY <1>1, SlowFinite, FS_Subset
<1>3. failuresAllowed \in Int /\ echoes \in Nat /\ Parallelism \in Nat
  BY BuilderConstants DEF TypeOK
<1> QED BY <1>2, <1>3, SlowFinite DEF FInv, FailureOverrun

(* Every step of the builder keeps to the budget.                          *)
LEMMA FInvPreserved == IInv /\ FInv /\ [Next]_vars => FInv'
<1> SUFFICES ASSUME IInv, FInv, [Next]_vars PROVE FInv'
  OBVIOUS
<1>1. /\ TypeOK /\ Phases /\ failuresAllowed \in Int /\ echoes \in Nat
      /\ Parallelism \in Nat
  BY BuilderConstants DEF IInv, TypeOK
<1>2. CASE /\ UNCHANGED <<failuresAllowed, echoes, jobs, fast, finishing>>
           /\ pc' \in {"targets", "initial", "head", "wait", "done", pc}
  BY <1>1, <1>2, BudgetStays DEF FInv, Starting
<1>3. CASE BeginBuild \/ EnterLoop \/ StopStarting \/ Cascade
  BY <1>2, <1>3 DEF BeginBuild, EnterLoop, StopStarting, Cascade
<1>4. ASSUME NEW n \in Node, AddTarget(n) PROVE FInv'
  BY <1>2, <1>4 DEF AddTarget
<1>5. ASSUME NEW e \in Edge, ScheduleInitialEdge(e) PROVE FInv'
  BY <1>2, <1>5 DEF ScheduleInitialEdge
<1>6. ASSUME NEW p \in Pool, RetrieveInitial(p) PROVE FInv'
  BY <1>2, <1>6 DEF RetrieveInitial
<1>7. CASE LoopHead
  <2>1. /\ UNCHANGED <<failuresAllowed, echoes, jobs, fast>>
        /\ pc' \in {"start", "wait", "done"} /\ (pc' = "start" => failuresAllowed > 0)
    BY <1>7 DEF LoopHead
  <2> QED BY <1>1, <2>1, BudgetStays DEF FInv, Starting
<1>8. CASE PhonyDone
  <2>1. /\ UNCHANGED <<failuresAllowed, echoes, jobs, fast>> /\ Starting
    BY <1>8 DEF PhonyDone, Starting
  <2> QED BY <1>1, <2>1, BudgetStays DEF FInv
<1>9. ASSUME NEW e \in Edge, NEW s \in Slot, StartCommand(e, s) PROVE FInv'
  <2>1. Starting /\ UNCHANGED <<failuresAllowed, echoes>>
    BY <1>9 DEF StartCommand, Starting
  <2>2. Cardinality(Slow') <= Parallelism
    BY <1>1, <1>9, StartedWithinJobs
  <2> QED BY <1>1, <2>1, <2>2, SlowFinite DEF FInv, FailureOverrun
<1>10. ASSUME NEW e \in Edge, StartPhony(e) PROVE FInv'
  <2>1. /\ UNCHANGED <<failuresAllowed, echoes, jobs, fast>> /\ Starting
    BY <1>10 DEF StartPhony, Starting
  <2> QED BY <1>1, <2>1, BudgetStays DEF FInv
<1>11. CASE FinishPhony
  <2>1. /\ UNCHANGED <<failuresAllowed, echoes, jobs, fast>> /\ Starting
    BY <1>11 DEF FinishPhony, Starting
  <2> QED BY <1>1, <2>1, BudgetStays DEF FInv
<1>12. ASSUME NEW s \in Slot, CommandSucceeds(s) PROVE FInv'
  <2>1. /\ s \in Pending /\ GiveBack(s)
        /\ pc' = "cascade" /\ finishing' = jobs[s] /\ failuresAllowed' = failuresAllowed
    BY <1>12 DEF CommandSucceeds, Given
  <2>2. ~Starting'
    BY <2>1 DEF Starting, Pending
  <2>3. \/ echoes' = echoes + 1 /\ Cardinality(Slow') = Cardinality(Slow)
        \/ echoes' = echoes /\ Cardinality(Slow') = Cardinality(Slow) - 1
    BY <1>1, <2>1, SlotGivenBack
  <2> QED BY <1>1, <2>1, <2>2, <2>3, SlowFinite DEF FInv, FailureOverrun
<1>13. ASSUME NEW s \in Slot, CommandFails(s) PROVE FInv'
  <2>1. /\ s \in Pending /\ GiveBack(s)
        /\ pc' = "head" /\ failuresAllowed' = failuresAllowed - 1
    BY <1>13 DEF CommandFails, Given
  <2>2. ~Starting'
    BY <2>1 DEF Starting
  <2>3. \/ echoes' = echoes + 1 /\ Cardinality(Slow') = Cardinality(Slow)
        \/ echoes' = echoes /\ Cardinality(Slow') = Cardinality(Slow) - 1
    BY <1>1, <2>1, SlotGivenBack
  <2> QED BY <1>1, <2>1, <2>2, <2>3, SlowFinite DEF FInv, FailureOverrun
<1>14. CASE RecordCommand
  <2>1. UNCHANGED <<failuresAllowed, echoes, jobs, fast>> /\ pc' = "head"
    BY <1>14 DEF RecordCommand
  <2> QED BY <1>1, <2>1, BudgetStays DEF FInv, Starting
<1>15. CASE Returns
  <2>1. /\ pc' = "done" /\ jobs' = [s \in Slot |-> NoEdge]
        /\ UNCHANGED <<failuresAllowed, echoes>>
    BY <1>15 DEF Returns, AddTargetFails, StartCommandFails, RestatGivesUp, StatFails,
                SecondNotice, Interrupt, RecordFails, GiveUp, Return
  <2> QED BY <1>1, <2>1, BudgetStays DEF FInv, Starting
<1>16. CASE UNCHANGED vars
  BY <1>2, <1>16 DEF vars
<1> QED BY <1>3, <1>4, <1>5, <1>6, <1>7, <1>8, <1>9, <1>10, <1>11, <1>12, <1>13, <1>14,
           <1>15, <1>16 DEF Next, Returns, Done

(* -k bounds the damage: no command is started once failures_allowed       *)
(* commands have failed (builder.go:117), so those that fail beyond the    *)
(* budget were in the list of the running ones, which holds no more than   *)
(* -j commands, one of them the last the budget allowed; or they were over *)
(* when Add looked at them (real_command_runner.go:131-136, 296-298).      *)
THEOREM BudgetKept == Spec => []FailureOverrun
<1>1. Init => FInv
  <2> SUFFICES ASSUME Init PROVE FInv
    OBVIOUS
  <2>1. /\ failuresAllowed \in Nat \ {0} /\ Parallelism \in Nat
        /\ pc = "targets" /\ echoes = 0
    BY BuilderConstants DEF Init
  <2>2. Slow = {}
    BY DEF Init, Slow, Pending
  <2>3. Cardinality(Slow) = 0
    BY <2>2, FS_EmptySet
  <2> QED BY <2>1, <2>3 DEF FInv, FailureOverrun, Starting
<1>2. IInv /\ FInv /\ [Next]_vars => FInv'
  BY FInvPreserved
<1>3. FInv => FailureOverrun
  BY DEF FInv
<1> QED BY <1>1, <1>2, <1>3, Invariance, PTL DEF Spec

---------------------------------------------------------------------------
(* The slots *)

(* The edges FindWork returned, or dropped. *)
Taken == Running \cup {finishing} \cup failed \cup lost

(* The plan has only edges that are still to finish, and wants those it    *)
(* handed on.                                                              *)
PlannedUnready == \A e \in Edge : Planned(e) => ~outputs_ready[e]
HeldWanted     == \A e \in Held \cap Edge : want[e] # Nothing
LeftReady      == \A e \in failed \cup lost : InputsReady(e)

(* An edge that is to be looked at and can be scheduled was not handed on. *)
Startable == unscheduled \cup {e \in ToSet(agenda) : want[e] = ToStart}
Untouched == Startable \cap Held = {}

NothingHeld == pc = "targets" => Held \cap Edge = {}

(* A pool delays an edge of its own, once, and only before its turn comes. *)
DelayedOnce ==
  \A p \in Pool :
    /\ IsInjective(delayed[p])
    /\ \A e \in ToSet(delayed[p]) :
         /\ PoolOf[e] = p /\ Depth[p] > 0
         /\ e \notin ToSet(ready) \cup Taken
         /\ Wanted(e)

(* An edge that was started twice and fails gives its slot back twice: the *)
(* slots in use are then fewer than their holders, by no more than there   *)
(* were such completions.                                                  *)
Exact == lost = {} \/ failed = {}
SlotsHeld ==
  \A p \in Pool : Depth[p] > 0 =>
    /\ currentUse[p] <= Cardinality(SlotHolders(p))
    /\ Cardinality(SlotHolders(p)) - SlotsFreedAgain <= currentUse[p]
    /\ Exact => currentUse[p] = Cardinality(SlotHolders(p))

(* While no edge was dropped, each is in one place only. *)
HandedOnce ==
  lost = {} =>
    /\ IsInjective(ready)
    /\ \A s, t \in Pending : jobs[s] = jobs[t] => s = t
    /\ ToSet(ready) \cap (Running \cup {finishing} \cup failed) = {}
    /\ Running \cap ({finishing} \cup failed) = {}
    /\ pc = "phony" => finishing \notin failed
    /\ \A e \in ToSet(ready) \cup Running : Wanted(e)

Accounts == /\ PlannedUnready /\ HeldWanted /\ LeftReady /\ Untouched /\ NothingHeld
            /\ DelayedOnce /\ SlotsHeld /\ HandedOnce

(* All this until Build returns, when the plan is dropped. *)
SInv == pc # "done" => Accounts

(* The invariant gives the property the run checks.                        *)
LEMMA SInvImplies == SInv => SlotsAccounted
BY DEF SInv, Accounts, SlotsHeld, Exact, SlotsAccounted, InLoop

---------------------------------------------------------------------------
(* Slots that are freed again *)

(* The completions counted are those of edges that had failed before.      *)
LEMMA AgainTyped ==
  /\ failuresAllowed \in Int /\ failed \subseteq Edge => SlotsFreedAgain \in Int
  /\ failuresAllowed' \in Int /\ failed' \subseteq Edge => SlotsFreedAgain' \in Int
<1>1. ASSUME NEW F \in SUBSET Edge, NEW G \in SUBSET F, NEW k \in Int
      PROVE  FailuresAllowed - k - Cardinality(F) + Cardinality(G) \in Int
  <2>1. IsFiniteSet(F) /\ IsFiniteSet(G)
    BY GraphTyped, FS_Subset
  <2>2. Cardinality(F) \in Int /\ Cardinality(G) \in Int
    BY <2>1, FS_CardinalityType
  <2> QED BY <2>2, BuilderConstants
<1>2. /\ {e \in failed : ~Planned(e)} \subseteq failed
      /\ {e \in failed' : ~Planned(e)'} \subseteq failed'
  OBVIOUS
<1> QED BY <1>1, <1>2 DEF SlotsFreedAgain, Failures

(* No command fails, and no failed edge enters or leaves the plan.         *)
LEMMA AgainSame ==
  ASSUME UNCHANGED <<failuresAllowed, failed>>,
         \A x \in failed : Planned(x)' <=> Planned(x)
  PROVE  SlotsFreedAgain' = SlotsFreedAgain
<1>1. {x \in failed' : ~Planned(x)'} = {x \in failed : ~Planned(x)}
  OBVIOUS
<1> QED BY <1>1 DEF SlotsFreedAgain, Failures

(* An edge leaves the plan; if it had failed, its slot is freed again.     *)
LEMMA AgainLeaves ==
  ASSUME TypeOK, NEW e \in Edge, Planned(e), ~Planned(e)',
         UNCHANGED <<failuresAllowed, failed>>,
         \A x \in failed \ {e} : Planned(x)' <=> Planned(x)
  PROVE  /\ SlotsFreedAgain <= SlotsFreedAgain'
         /\ e \in failed => SlotsFreedAgain + 1 <= SlotsFreedAgain'
<1> DEFINE G == {x \in failed : ~Planned(x)}
<1>1. {x \in failed' : ~Planned(x)'} = IF e \in failed THEN G \cup {e} ELSE G
  OBVIOUS
<1>2. failuresAllowed \in Int /\ failed \subseteq Edge /\ FailuresAllowed \in Int
  BY BuilderConstants DEF TypeOK
<1>3. /\ IsFiniteSet(failed) /\ IsFiniteSet(G) /\ e \notin G
  BY <1>2, GraphTyped, FS_Subset
<1>4. /\ Cardinality(failed) \in Nat /\ Cardinality(G) \in Nat
      /\ Cardinality(G \cup {e}) = Cardinality(G) + 1
  BY <1>3, FS_CardinalityType, FS_AddElement
<1> HIDE DEF G
<1>5. SlotsFreedAgain = FailuresAllowed - failuresAllowed - Cardinality(failed) + Cardinality(G)
  BY DEF SlotsFreedAgain, Failures, G
<1>6. SlotsFreedAgain' = FailuresAllowed - failuresAllowed - Cardinality(failed)
                           + Cardinality(IF e \in failed THEN G \cup {e} ELSE G)
  BY <1>1 DEF SlotsFreedAgain, Failures
<1> QED BY <1>2, <1>4, <1>5, <1>6

(* A command fails; if its edge had failed before, its slot is freed again,*)
(* or there was none left to free.                                         *)
LEMMA AgainFails ==
  ASSUME TypeOK, NEW e \in Edge, UNCHANGED want,
         failed' = failed \cup {e}, failuresAllowed' = failuresAllowed - 1
  PROVE  /\ SlotsFreedAgain <= SlotsFreedAgain'
         /\ e \in failed => SlotsFreedAgain + 1 <= SlotsFreedAgain'
<1> DEFINE G == {x \in failed : ~Planned(x)}
<1>1. {x \in failed' : ~Planned(x)'} = IF Planned(e) THEN G ELSE G \cup {e}
  BY DEF Planned
<1>2. failuresAllowed \in Int /\ failed \subseteq Edge /\ FailuresAllowed \in Int
  BY BuilderConstants DEF TypeOK
<1>3. IsFiniteSet(failed) /\ IsFiniteSet(G)
  BY <1>2, GraphTyped, FS_Subset
<1>4. /\ Cardinality(failed) \in Nat /\ Cardinality(G) \in Nat
      /\ Cardinality(G \cup {e}) = IF e \in G THEN Cardinality(G) ELSE Cardinality(G) + 1
      /\ Cardinality(failed \cup {e}) =
           IF e \in failed THEN Cardinality(failed) ELSE Cardinality(failed) + 1
  BY <1>3, FS_CardinalityType, FS_AddElement
<1>5. e \in G <=> e \in failed /\ ~Planned(e)
  OBVIOUS
<1> HIDE DEF G
<1>6. SlotsFreedAgain = FailuresAllowed - failuresAllowed - Cardinality(failed) + Cardinality(G)
  BY DEF SlotsFreedAgain, Failures, G
<1>7. SlotsFreedAgain' = FailuresAllowed - (failuresAllowed - 1) - Cardinality(failed \cup {e})
                           + Cardinality(IF Planned(e) THEN G ELSE G \cup {e})
  BY <1>1 DEF SlotsFreedAgain, Failures
<1>8. CASE Planned(e)
  BY <1>2, <1>4, <1>6, <1>7, <1>8
<1>9. CASE ~Planned(e)
  BY <1>2, <1>4, <1>5, <1>6, <1>7, <1>9
<1> QED BY <1>8, <1>9

---------------------------------------------------------------------------
(* Handing slots on *)

(* RetrieveReadyEdges takes as many edges from the front of those that wait*)
(* as it counts slots.                                                     *)
LEMMA RetrieveGrants ==
  ASSUME PoolsTyped, NEW p \in Pool, NEW use \in Int, NEW waiting \in Seq(Edge),
         IsInjective(waiting), RetrieveReadyEdges(p, use, waiting)
  PROVE  \E granted \in SUBSET Edge :
           /\ IsFiniteSet(granted)
           /\ currentUse' = [currentUse EXCEPT ![p] = use + Cardinality(granted)]
           /\ ToSet(ready') = ToSet(ready) \cup granted
           /\ granted \cup ToSet(delayed'[p]) = ToSet(waiting)
           /\ granted \cap ToSet(delayed'[p]) = {}
           /\ IsInjective(delayed'[p])
           /\ \A q \in Pool \ {p} : delayed'[q] = delayed[q]
           /\ IsInjective(ready) /\ granted \cap ToSet(ready) = {} => IsInjective(ready')
<1> DEFINE k == Admitted(p, use, waiting)
           taken == SubSeq(waiting, 1, k)
           left == SubSeq(waiting, k + 1, Len(waiting))
<1>1. k \in 0 .. Len(waiting)
  BY AdmittedRange
<1>2. /\ taken \in Seq(Edge) /\ left \in Seq(Edge)
      /\ ToSet(waiting) = ToSet(taken) \cup ToSet(left)
  BY <1>1, ToSetSplit
<1>3. /\ IsInjective(taken) /\ IsInjective(left) /\ Len(taken) = k
      /\ ToSet(taken) \cap ToSet(left) = {}
  BY <1>1, DistinctSplit
<1>4. /\ ready' = ready \o taken
      /\ delayed' = [delayed EXCEPT ![p] = left]
      /\ currentUse' = [currentUse EXCEPT ![p] = use + k]
  BY DEF RetrieveReadyEdges
<1> HIDE DEF k, taken, left
<1>5. IsFiniteSet(ToSet(taken)) /\ Cardinality(ToSet(taken)) = k
  BY <1>2, <1>3, DistinctCardinality
<1>6. ToSet(ready') = ToSet(ready) \cup ToSet(taken)
  BY <1>2, <1>4, ToSetConcat DEF PoolsTyped
<1>7. IsInjective(ready) /\ ToSet(taken) \cap ToSet(ready) = {} => IsInjective(ready')
  BY <1>2, <1>3, <1>4, DistinctConcat DEF PoolsTyped
<1>8. delayed'[p] = left /\ \A q \in Pool \ {p} : delayed'[q] = delayed[q]
  BY <1>4 DEF PoolsTyped
<1>9. ToSet(taken) \in SUBSET Edge
  BY <1>2 DEF ToSet
<1> WITNESS ToSet(taken) \in SUBSET Edge
<1> QED BY <1>2, <1>3, <1>4, <1>5, <1>6, <1>7, <1>8

(* The holders of slots of a pool, before the edges that wait get theirs.  *)
Keepers(q) ==
  {e \in Edge : /\ PoolOf[e] = q /\ Wanted(e)' /\ e \notin failed'
                /\ e \in ToSet(ready) \cup (Running \cup {finishing} \cup lost)'}

(* Where only edges wait that have not had their turn, and the slots in use*)
(* are those of the keepers, RetrieveReadyEdges keeps the accounts.        *)
LEMMA RetrieveAccounts ==
  ASSUME PoolsTyped,
         NEW p \in Pool, NEW use \in Int, NEW waiting \in Seq(Edge),
         IsInjective(waiting), RetrieveReadyEdges(p, use, waiting),
         SlotsFreedAgain' \in Int,
         \A q \in Pool \ {p} : IsInjective(delayed[q]),
         \A q \in Pool : \A e \in ToSet(IF q = p THEN waiting ELSE delayed[q]) :
           /\ PoolOf[e] = q /\ Depth[q] > 0
           /\ e \notin ToSet(ready) \cup Taken'
           /\ Wanted(e)',
         \A q \in Pool : Depth[q] > 0 =>
           LET used == IF q = p THEN use ELSE currentUse[q] IN
           /\ used <= Cardinality(Keepers(q))
           /\ Cardinality(Keepers(q)) - SlotsFreedAgain' <= used
           /\ Exact' => used = Cardinality(Keepers(q))
  PROVE  /\ DelayedOnce' /\ SlotsHeld'
         /\ IsInjective(ready) => IsInjective(ready')
         /\ \A e \in ToSet(ready') : e \in ToSet(ready) \/ (e \notin Taken' /\ Wanted(e)')
<1>1. PICK granted \in SUBSET Edge :
           /\ IsFiniteSet(granted)
           /\ currentUse' = [currentUse EXCEPT ![p] = use + Cardinality(granted)]
           /\ ToSet(ready') = ToSet(ready) \cup granted
           /\ granted \cup ToSet(delayed'[p]) = ToSet(waiting)
           /\ granted \cap ToSet(delayed'[p]) = {}
           /\ IsInjective(delayed'[p])
           /\ \A q \in Pool \ {p} : delayed'[q] = delayed[q]
           /\ IsInjective(ready) /\ granted \cap ToSet(ready) = {} => IsInjective(ready')
  BY RetrieveGrants
<1>2. \A e \in ToSet(waiting) : /\ PoolOf[e] = p /\ Depth[p] > 0
                                /\ e \notin ToSet(ready) \cup Taken'
                                /\ Wanted(e)'
  OBVIOUS
<1>3. DelayedOnce'
  <2> SUFFICES ASSUME NEW q \in Pool
               PROVE  /\ IsInjective(delayed'[q])
                      /\ \A e \in ToSet(delayed'[q]) :
                           /\ PoolOf[e] = q /\ Depth[q] > 0
                           /\ e \notin ToSet(ready') \cup Taken'
                           /\ Wanted(e)'
    BY DEF DelayedOnce
  <2>1. CASE q = p
    BY <1>1, <1>2, <2>1
  <2>2. CASE q # p
    <3>1. delayed'[q] = delayed[q] /\ IsInjective(delayed[q])
      BY <1>1, <2>2
    <3>2. \A e \in ToSet(delayed[q]) : /\ PoolOf[e] = q /\ Depth[q] > 0
                                       /\ e \notin ToSet(ready) \cup Taken'
                                       /\ Wanted(e)'
      BY <2>2
    <3>3. \A e \in granted : PoolOf[e] = p
      BY <1>1, <1>2
    <3> QED BY <1>1, <2>2, <3>1, <3>2, <3>3
  <2> QED BY <2>1, <2>2
<1>4. SlotsHeld'
  <2> SUFFICES ASSUME NEW q \in Pool, Depth[q] > 0
               PROVE  /\ currentUse'[q] <= Cardinality(SlotHolders(q)')
                      /\ Cardinality(SlotHolders(q)') - SlotsFreedAgain' <= currentUse'[q]
                      /\ Exact' => currentUse'[q] = Cardinality(SlotHolders(q)')
    BY DEF SlotsHeld
  <2>1. IsFiniteSet(Keepers(q))
    <3>1. Keepers(q) \subseteq Edge
      BY DEF Keepers
    <3> QED BY <3>1, GraphTyped, FS_Subset
  <2>2. Cardinality(Keepers(q)) \in Nat /\ Cardinality(granted) \in Nat
    BY <1>1, <2>1, FS_CardinalityType
  <2>3. CASE q = p
    <3>1. \A e \in granted : PoolOf[e] = p /\ e \notin Keepers(p) /\ e \notin failed' /\ Wanted(e)'
      BY <1>1, <1>2 DEF Keepers, Taken
    <3>2. SlotHolders(p)' = Keepers(p) \cup granted
      BY <1>1, <3>1 DEF SlotHolders, Keepers
    <3>3. Keepers(p) \cap granted = {}
      BY <3>1
    <3>4. Cardinality(Keepers(p) \cup granted)
            = Cardinality(Keepers(p)) + Cardinality(granted) - Cardinality(Keepers(p) \cap granted)
      BY <1>1, <2>1, <2>3, FS_Union
    <3> HIDE DEF Keepers
    <3>5. Cardinality(SlotHolders(p)') = Cardinality(Keepers(p)) + Cardinality(granted)
      <4>1. Cardinality(Keepers(p) \cap granted) = 0
        BY <3>3, FS_EmptySet
      <4> QED BY <2>2, <2>3, <3>2, <3>4, <4>1
    <3>6. currentUse'[p] = use + Cardinality(granted)
      BY <1>1 DEF PoolsTyped
    <3>7. /\ use <= Cardinality(Keepers(p))
          /\ Cardinality(Keepers(p)) - SlotsFreedAgain' <= use
          /\ Exact' => use = Cardinality(Keepers(p))
      BY <2>3
    <3> QED BY <2>2, <2>3, <3>5, <3>6, <3>7
  <2>4. CASE q # p
    <3>1. \A e \in granted : PoolOf[e] # q
      BY <1>1, <1>2, <2>4
    <3>2. SlotHolders(q)' = Keepers(q)
      BY <1>1, <3>1 DEF SlotHolders, Keepers
    <3>3. currentUse'[q] = currentUse[q]
      BY <1>1, <2>4 DEF PoolsTyped
    <3> QED BY <2>4, <3>2, <3>3
  <2> QED BY <2>3, <2>4
<1>5. /\ IsInjective(ready) => IsInjective(ready')
      /\ \A e \in ToSet(ready') : e \in ToSet(ready) \/ (e \notin Taken' /\ Wanted(e)')
  BY <1>1, <1>2
<1> QED BY <1>3, <1>4, <1>5

(* The edges that are running, or being finished. *)
Working == Running \cup {finishing}

(* An edge that was taken, or that nobody wanted, is done with: the slot it*)
(* had is handed on.                                                       *)
LEMMA ReleaseAccounts ==
  ASSUME TypeOK, Accounts, NEW e \in Edge, ReleaseSlot(e),
         Planned(e), e \in Working \/ want[e] = Nothing,
         lost' = lost,
         \A x \in Edge \ {e} : /\ Wanted(x)' <=> Wanted(x)
                               /\ x \in failed' <=> x \in failed
                               /\ x \in Working' <=> x \in Working,
         ~Wanted(e)' \/ e \in failed',
         Exact' => Exact,
         Exact /\ Wanted(e) => e \notin failed,
         SlotsFreedAgain \in Int, SlotsFreedAgain' \in Int,
         SlotsFreedAgain <= SlotsFreedAgain',
         e \in failed => SlotsFreedAgain + 1 <= SlotsFreedAgain'
  PROVE  /\ DelayedOnce' /\ SlotsHeld'
         /\ IsInjective(ready) => IsInjective(ready')
         /\ \A x \in ToSet(ready') : x \in ToSet(ready) \/ (x \notin Taken' /\ Wanted(x)')
<1> DEFINE p == PoolOf[e]
           use == IF Wanted(e) /\ Depth[p] # 0 THEN currentUse[p] - 1 ELSE currentUse[p]
<1>1. /\ PoolsTyped /\ p \in Pool /\ use \in Int /\ delayed[p] \in Seq(Edge)
      /\ \A q \in Pool : delayed[q] \in Seq(Edge)
      /\ \A q \in Pool : currentUse[q] \in Int
  BY GraphTyped DEF TypeOK, PoolsTyped
<1>2. RetrieveReadyEdges(p, use, delayed[p])
  BY DEF ReleaseSlot
<1>3. DelayedOnce /\ SlotsHeld
  BY DEF Accounts
<1>4. ASSUME NEW q \in Pool, NEW x \in ToSet(delayed[q])
      PROVE  /\ PoolOf[x] = q /\ Depth[q] > 0
             /\ x \notin ToSet(ready) \cup Taken'
             /\ Wanted(x)'
  <2>1. /\ PoolOf[x] = q /\ Depth[q] > 0
        /\ x \notin ToSet(ready) \cup Taken /\ Wanted(x)
    BY <1>3 DEF DelayedOnce
  <2>2. x \in Edge
    BY <1>1 DEF ToSet
  <2>3. x # e
    BY <2>1 DEF Taken, Working, Wanted, Nothing, ToStart, ToFinish
  <2> QED BY <2>1, <2>2, <2>3 DEF Taken, Working
<1>5. ASSUME NEW q \in Pool, Depth[q] > 0
      PROVE  LET used == IF q = p THEN use ELSE currentUse[q] IN
             /\ used <= Cardinality(Keepers(q))
             /\ Cardinality(Keepers(q)) - SlotsFreedAgain' <= used
             /\ Exact' => used = Cardinality(Keepers(q))
  <2>1. /\ currentUse[q] <= Cardinality(SlotHolders(q))
        /\ Cardinality(SlotHolders(q)) - SlotsFreedAgain <= currentUse[q]
        /\ Exact => currentUse[q] = Cardinality(SlotHolders(q))
    BY <1>3, <1>5 DEF SlotsHeld
  <2>2. Keepers(q) = SlotHolders(q) \ {e}
    BY DEF Keepers, SlotHolders, Working
  <2>3. IsFiniteSet(SlotHolders(q))
    <3>1. SlotHolders(q) \subseteq Edge
      BY DEF SlotHolders
    <3> QED BY <3>1, GraphTyped, FS_Subset
  <2>4. /\ Cardinality(SlotHolders(q)) \in Nat
        /\ Cardinality(Keepers(q)) =
             IF e \in SlotHolders(q) THEN Cardinality(SlotHolders(q)) - 1
                                     ELSE Cardinality(SlotHolders(q))
    BY <2>2, <2>3, FS_CardinalityType, FS_RemoveElement
  <2>5. CASE q = p /\ Wanted(e)
    <3>1. q = p => use = currentUse[q] - 1
      BY <1>1, <1>5, <2>5
    <3>2. e \in SlotHolders(q) \/ e \in failed
      BY <2>5 DEF SlotHolders, Working, Wanted, Nothing, ToStart, ToFinish
    <3>3. Exact' => e \in SlotHolders(q)
      BY <2>5, <3>2
    <3> HIDE DEF use, p
    <3> QED BY <1>1, <2>1, <2>4, <2>5, <3>1, <3>2, <3>3
  <2>6. CASE ~(q = p /\ Wanted(e))
    <3>1. q = p => use = currentUse[q]
      BY <2>6
    <3>2. e \notin SlotHolders(q)
      BY <2>6 DEF SlotHolders
    <3> HIDE DEF use, p
    <3> QED BY <1>1, <2>1, <2>4, <3>1, <3>2
  <2> QED BY <2>5, <2>6
<1>6. \A q \in Pool : IsInjective(delayed[q])
  BY <1>3 DEF DelayedOnce
<1> HIDE DEF p, use
<1>7. \A q \in Pool : \A x \in ToSet(IF q = p THEN delayed[p] ELSE delayed[q]) :
           /\ PoolOf[x] = q /\ Depth[q] > 0
           /\ x \notin ToSet(ready) \cup Taken'
           /\ Wanted(x)'
  BY <1>4
<1>8. \A q \in Pool : Depth[q] > 0 =>
           LET used == IF q = p THEN use ELSE currentUse[q] IN
           /\ used <= Cardinality(Keepers(q))
           /\ Cardinality(Keepers(q)) - SlotsFreedAgain' <= used
           /\ Exact' => used = Cardinality(Keepers(q))
  BY <1>5
<1> QED BY <1>1, <1>2, <1>6, <1>7, <1>8, RetrieveAccounts

(* Scheduling an edge that was not handed on before.                       *)
LEMMA ScheduleAccounts ==
  ASSUME TypeOK, Accounts, NEW e \in Edge, ScheduleWork(e),
         Wanted(e), e \notin Held,
         UNCHANGED <<jobs, finishing, failed, lost, failuresAllowed>>
  PROVE  /\ DelayedOnce' /\ SlotsHeld'
         /\ IsInjective(ready) => IsInjective(ready')
         /\ \A x \in ToSet(ready') : x \in ToSet(ready) \/ (x \notin Taken' /\ Wanted(x)')
<1> DEFINE p == PoolOf[e]
<1>1. /\ PoolsTyped /\ p \in Pool /\ Depth[p] \in Nat
      /\ \A q \in Pool : delayed[q] \in Seq(Edge)
      /\ \A q \in Pool : currentUse[q] \in Int
  BY GraphTyped DEF TypeOK, PoolsTyped
<1>2. DelayedOnce /\ SlotsHeld
  BY DEF Accounts
<1>3. Taken' = Taken /\ Running' = Running /\ (Exact' <=> Exact)
  BY DEF Taken, Running, Pending, Exact
<1>4. \A x \in Edge : Wanted(x)' <=> Wanted(x)
  BY DEF ScheduleWork, TypeOK, Wanted
<1>10. SlotsFreedAgain' = SlotsFreedAgain /\ SlotsFreedAgain' \in Int
  <2>1. failed \subseteq Edge /\ failuresAllowed \in Int
    BY DEF TypeOK
  <2>2. \A x \in Edge : Planned(x)' <=> Planned(x)
    BY DEF ScheduleWork, TypeOK, Wanted, Planned, Absent, ToStart, ToFinish
  <2> QED BY <2>1, <2>2, AgainSame, AgainTyped
<1>5. e \notin ToSet(ready) \cup Taken /\ \A q \in Pool : e \notin ToSet(delayed[q])
  BY DEF Held, Scheduled, Queued, Taken
<1>6. \A q \in Pool : IsInjective(delayed[q])
  BY <1>2 DEF DelayedOnce
<1>7. ASSUME NEW q \in Pool, NEW x \in ToSet(delayed[q])
      PROVE  /\ PoolOf[x] = q /\ Depth[q] > 0
             /\ x \notin ToSet(ready) \cup Taken'
             /\ Wanted(x)'
  <2>1. x \in Edge
    BY <1>1 DEF ToSet
  <2> QED BY <1>2, <1>3, <1>4, <2>1 DEF DelayedOnce
<1>8. CASE Depth[p] = 0
  <2>1. ready' = Append(ready, e) /\ UNCHANGED <<delayed, currentUse>>
    BY <1>8 DEF ScheduleWork
  <2>2. ToSet(ready') = ToSet(ready) \cup {e} /\ (IsInjective(ready) => IsInjective(ready'))
    BY <1>5, <2>1, ToSetAppend, DistinctAppend DEF TypeOK
  <2>3. DelayedOnce'
    BY <1>5, <1>6, <1>7, <2>1, <2>2 DEF DelayedOnce
  <2>4. \A q \in Pool : Depth[q] > 0 => SlotHolders(q)' = SlotHolders(q)
    BY <1>3, <1>4, <1>8, <2>2 DEF SlotHolders
  <2>5. SlotsHeld'
    BY <1>2, <1>3, <1>10, <2>1, <2>4 DEF SlotsHeld
  <2> QED BY <1>3, <1>4, <1>5, <2>2, <2>3, <2>5
<1>9. CASE Depth[p] # 0
  <2> DEFINE waiting == Append(delayed[p], e)
             use == currentUse[p]
  <2>1. /\ waiting \in Seq(Edge) /\ ToSet(waiting) = ToSet(delayed[p]) \cup {e}
        /\ IsInjective(waiting)
    BY <1>1, <1>5, <1>6, ToSetAppend, DistinctAppend
  <2>2. RetrieveReadyEdges(p, use, waiting)
    BY <1>9 DEF ScheduleWork
  <2> HIDE DEF waiting
  <2>3. ASSUME NEW q \in Pool, NEW x \in ToSet(IF q = p THEN waiting ELSE delayed[q])
        PROVE  /\ PoolOf[x] = q /\ Depth[q] > 0
               /\ x \notin ToSet(ready) \cup Taken'
               /\ Wanted(x)'
    <3>1. CASE q = p /\ x = e
      BY <1>1, <1>3, <1>4, <1>5, <1>9, <3>1
    <3>2. CASE ~(q = p /\ x = e)
      <4>1. x \in ToSet(delayed[q])
        BY <2>1, <3>2
      <4> QED BY <1>7, <4>1
    <3> QED BY <3>1, <3>2
  <2>4. ASSUME NEW q \in Pool, Depth[q] > 0
        PROVE  LET used == IF q = p THEN use ELSE currentUse[q] IN
               /\ used <= Cardinality(Keepers(q))
               /\ Cardinality(Keepers(q)) - SlotsFreedAgain' <= used
               /\ Exact' => used = Cardinality(Keepers(q))
    <3>1. Keepers(q) = SlotHolders(q)
      BY <1>3, <1>4 DEF Keepers, SlotHolders
    <3> QED BY <1>2, <1>3, <1>10, <2>4, <3>1 DEF SlotsHeld
  <2>5. /\ \A q \in Pool \ {p} : IsInjective(delayed[q])
        /\ p \in Pool /\ use \in Int
    BY <1>1, <1>6
  <2>6. \A q \in Pool : \A x \in ToSet(IF q = p THEN waiting ELSE delayed[q]) :
           /\ PoolOf[x] = q /\ Depth[q] > 0
           /\ x \notin ToSet(ready) \cup Taken'
           /\ Wanted(x)'
    BY <2>3
  <2>7. \A q \in Pool : Depth[q] > 0 =>
           LET used == IF q = p THEN use ELSE currentUse[q] IN
           /\ used <= Cardinality(Keepers(q))
           /\ Cardinality(Keepers(q)) - SlotsFreedAgain' <= used
           /\ Exact' => used = Cardinality(Keepers(q))
    BY <2>4
  <2> HIDE DEF p, use
  <2> QED BY <1>1, <1>10, <2>1, <2>2, <2>5, <2>6, <2>7, RetrieveAccounts
<1> QED BY <1>8, <1>9

(* FindWork passes the slot of an edge on to the command, and leaves the   *)
(* slot of the edge it drops with that one.                                *)
LEMMA FindWorkAccounts ==
  ASSUME TypeOK, Accounts, NEW e \in Edge, FindWork(e),
         UNCHANGED <<want, delayed, currentUse, failed, failuresAllowed>>,
         \A x \in Edge : x \in Working' <=> x \in Working \cup {e}
  PROVE  /\ DelayedOnce' /\ SlotsHeld'
         /\ e \in ToSet(ready)
         /\ lost' = {} => lost = {} /\ (IsInjective(ready) => ready' = << >>)
<1>1. /\ ready \in Seq(Edge) /\ ready # << >> /\ e = Head(ready)
      /\ ready' = SubSeq(ready, 1, Len(ready) - 1)
      /\ lost' = lost \cup ({ready[Len(ready)]} \ {e})
  BY DEF FindWork, TypeOK
<1>2. /\ ready' \in Seq(Edge) /\ ready[Len(ready)] \in Edge
      /\ ToSet(ready) = ToSet(ready') \cup {ready[Len(ready)]}
  BY <1>1, ToSetFront
<1>3. e \in ToSet(ready)
  BY <1>1, ToSetHeadTail
<1>4. DelayedOnce /\ SlotsHeld
  BY DEF Accounts
<1>5. Taken' \cap Edge \subseteq Taken \cup ToSet(ready)
  BY <1>1, <1>2, <1>3 DEF Taken, Working
<1>6. DelayedOnce'
  <2>1. \A p \in Pool : ToSet(delayed[p]) \subseteq Edge
    BY DEF TypeOK, ToSet
  <2> QED BY <1>2, <1>4, <1>5, <2>1 DEF DelayedOnce, Wanted
<1>7. ASSUME NEW p \in Pool PROVE SlotHolders(p)' = SlotHolders(p)
  <2> SUFFICES ASSUME NEW x \in Edge
               PROVE  x \in (ToSet(ready) \cup Working \cup lost)'
                        <=> x \in ToSet(ready) \cup Working \cup lost
    BY DEF SlotHolders, Working, Wanted
  <2> QED BY <1>1, <1>2, <1>3
<1>8. Exact' => Exact
  BY <1>1 DEF Exact
<1>9. SlotsHeld'
  <2>1. SlotsFreedAgain' = SlotsFreedAgain
    BY AgainSame DEF Planned
  <2> QED BY <1>4, <1>7, <1>8, <2>1 DEF SlotsHeld
<1>10. lost' = {} /\ IsInjective(ready) => ready' = << >>
  <2> SUFFICES ASSUME lost' = {}, IsInjective(ready) PROVE ready' = << >>
    OBVIOUS
  <2>1. Len(ready) \in Nat \ {0} /\ ready[1] = e
    BY <1>1, EmptySeq
  <2>2. ready[Len(ready)] = e
    BY <1>1
  <2>3. 1 \in DOMAIN ready /\ Len(ready) \in DOMAIN ready
    BY <1>1, <2>1
  <2>4. Len(ready) = 1
    BY <2>1, <2>2, <2>3 DEF IsInjective
  <2>5. ready' = SubSeq(ready, 1, 0)
    BY <1>1, <2>4
  <2> QED BY <1>1, <2>5
<1> QED BY <1>1, <1>3, <1>6, <1>9, <1>10

---------------------------------------------------------------------------
(* The steps of the builder *)

(* What was handed on has its inputs ready.                                *)
LEMMA HeldInputsReady ==
  ASSUME LInv, LeftReady, NEW e \in Held \cap Edge
  PROVE  InputsReady(e)
<1>1. NoEdge \notin Edge
  BY GraphTyped
<1> QED BY <1>1 DEF LInv, HandedOnReady, HeldReady, LeftReady, Held, Scheduled, InHand

(* Outside of the two lists nothing is to be looked at.                    *)
LEMMA NothingStartable ==
  /\ IInv /\ pc \notin {"initial", "cascade", "done"} => Startable = {}
  /\ (IInv /\ pc \notin {"initial", "cascade", "done"})' => Startable' = {}
BY DEF IInv, Phases, Startable, ToSet

(* The queue may grow by edges that were not taken, and commands may end.  *)
LEMMA HandedOnceKept ==
  ASSUME HandedOnce, lost' = lost, pc' # "phony",
         IsInjective(ready) => IsInjective(ready'),
         \A x \in ToSet(ready') : x \in ToSet(ready) \/ (x \notin Taken' /\ Wanted(x)'),
         \A s \in Slot : jobs'[s] \in {jobs[s], NoEdge},
         lost = {} =>
           /\ \A x \in ToSet(ready) : x \notin {finishing'} \cup failed' /\ Wanted(x)'
           /\ \A x \in Running' : x \notin {finishing'} \cup failed' /\ Wanted(x)'
  PROVE  HandedOnce'
<1> SUFFICES ASSUME lost = {}
             PROVE  /\ IsInjective(ready')
                    /\ \A s, t \in Pending' : jobs'[s] = jobs'[t] => s = t
                    /\ ToSet(ready') \cap (Running \cup {finishing} \cup failed)' = {}
                    /\ Running' \cap ({finishing} \cup failed)' = {}
                    /\ \A e \in ToSet(ready') \cup Running' : Wanted(e)'
  BY DEF HandedOnce
<1>1. /\ IsInjective(ready)
      /\ \A s, t \in Pending : jobs[s] = jobs[t] => s = t
      /\ ToSet(ready) \cap (Running \cup {finishing} \cup failed) = {}
  BY DEF HandedOnce
<1>2. \A s \in Pending' : s \in Pending /\ jobs'[s] = jobs[s]
  BY DEF Pending
<1>3. Running' \subseteq Running
  BY <1>2 DEF Running
<1> QED BY <1>1, <1>2, <1>3 DEF Taken

(* The builder moves on without touching the plan or a command.            *)
LEMMA QuietStep ==
  ASSUME TypeOK, Accounts, Untouched',
         UNCHANGED <<want, ready, delayed, currentUse, lost, outputs_ready, jobs,
                     finishing, failed, failuresAllowed>>,
         pc' = pc \/ pc' \notin {"targets", "phony"}
  PROVE  Accounts'
<1>1. /\ UNCHANGED <<Running, Pending, Queued, Taken, Held, Exact>>
      /\ \A e \in Edge : Wanted(e)' <=> Wanted(e)
  BY DEF Running, Pending, Queued, Taken, Held, Scheduled, Exact, Wanted
<1>2. \A p \in Pool : SlotHolders(p)' = SlotHolders(p)
  BY <1>1 DEF SlotHolders
<1>3. PlannedUnready' /\ HeldWanted' /\ LeftReady' /\ NothingHeld'
  BY <1>1 DEF Accounts, PlannedUnready, Planned, HeldWanted, LeftReady, InputsReady,
     AllInputsReady,
              NothingHeld
<1>4. DelayedOnce'
  BY <1>1 DEF Accounts, DelayedOnce, Wanted
<1>5. SlotsHeld'
  <2>1. SlotsFreedAgain' = SlotsFreedAgain
    BY AgainSame DEF Planned
  <2> QED BY <1>1, <1>2, <2>1 DEF Accounts, SlotsHeld
<1>6. HandedOnce'
  BY <1>1 DEF Accounts, HandedOnce, Wanted
<1> QED BY <1>3, <1>4, <1>5, <1>6 DEF Accounts

(* What ScheduleInitialEdges is to look at was not handed on: nothing was. *)
LEMMA MovingAccounts ==
  ASSUME IInv, IInv', Accounts, pc' # "done",
         BeginBuild \/ EnterLoop \/ LoopHead \/ PhonyDone \/ StopStarting
  PROVE  Accounts'
<1>1. /\ UNCHANGED <<want, ready, delayed, currentUse, lost, outputs_ready, jobs,
                     finishing, failed, failuresAllowed>>
      /\ pc' \notin {"targets", "phony", "cascade"}
      /\ pc' = "initial" => pc = "targets" /\ agenda' = agenda /\ unscheduled' \subseteq Edge
  BY DEF BeginBuild, EnterLoop, LoopHead, PhonyDone, StopStarting, planVars
<1>2. Untouched'
  <2>1. CASE pc' = "initial"
    <3>1. Startable' \subseteq Edge
      <4>1. agenda' = << >>
        BY <2>1 DEF IInv, Phases
      <4> QED BY <1>1, <2>1, <4>1 DEF Startable, ToSet
    <3>2. Held' = Held
      BY <1>1 DEF Held, Scheduled, Queued, Running, Pending
    <3> QED BY <1>1, <2>1, <3>1, <3>2 DEF Untouched, Accounts, NothingHeld
  <2>2. CASE pc' # "initial"
    <3>1. Startable' = {}
      BY <1>1, <2>2, NothingStartable
    <3> QED BY <3>1 DEF Untouched
  <2> QED BY <2>1, <2>2
<1> QED BY <1>1, <1>2, QuietStep DEF IInv

(* Targets are added before anything is handed on.                         *)
LEMMA AddTargetAccounts ==
  ASSUME IInv, IInv', Accounts, NEW n \in Node, AddTarget(n)
  PROVE  Accounts'
<1>1. /\ pc = "targets" /\ pc' = pc
      /\ UNCHANGED <<outputs_ready, ready, delayed, currentUse, lost, jobs, finishing,
                     failed, failuresAllowed>>
  BY DEF AddTarget
<1>2. UNCHANGED <<Running, Pending, Queued, Taken, Held, Exact>>
  BY <1>1 DEF Running, Pending, Queued, Taken, Held, Scheduled, Exact
<1>3. Held \cap Edge = {}
  BY <1>1 DEF Accounts, NothingHeld
<1>4. /\ \A p \in Pool : ToSet(delayed[p]) = {}
      /\ ToSet(ready) = {} /\ Running = {} /\ failed = {} /\ lost = {} /\ finishing \notin Edge
  <2>1. /\ \A p \in Pool : ToSet(delayed[p]) \subseteq Held \cap Edge
        /\ ToSet(ready) \subseteq Held \cap Edge
    BY DEF IInv, TypeOK, ToSet, Held, Scheduled, Queued
  <2>2. Running \subseteq Held \cap Edge
    BY DEF IInv, TypeOK, Running, Pending, Held, Scheduled
  <2>3. failed \subseteq Held \cap Edge /\ lost \subseteq Held \cap Edge /\ finishing \in Held
    BY DEF IInv, TypeOK, Held, Scheduled
  <2> QED BY <1>3, <2>1, <2>2, <2>3
<1>5. PlannedUnready'
  BY <1>1 DEF IInv, Adding, PlannedUnready
<1>6. HeldWanted' /\ LeftReady' /\ NothingHeld'
  BY <1>1, <1>2, <1>3, <1>4 DEF HeldWanted, LeftReady, NothingHeld
<1>7. Untouched'
  BY <1>1, NothingStartable DEF Untouched
<1>8. DelayedOnce'
  BY <1>1, <1>4 DEF Accounts, DelayedOnce
<1>9. \A p \in Pool : SlotHolders(p) = {} /\ SlotHolders(p)' = {}
  BY <1>1, <1>2, <1>4 DEF SlotHolders
<1>10. SlotsHeld'
  <2>1. SlotsFreedAgain' = SlotsFreedAgain
    BY <1>1, <1>4, AgainSame
  <2> QED BY <1>1, <1>2, <1>9, <2>1 DEF Accounts, SlotsHeld
<1>11. HandedOnce'
  BY <1>1, <1>2, <1>4 DEF Accounts, HandedOnce
<1> QED BY <1>5, <1>6, <1>7, <1>8, <1>10, <1>11 DEF Accounts

(* The queue grows, and nothing is taken: those of the plan's facts that   *)
(* the pools have no part in.                                              *)
LEMMA SchedulingKeeps ==
  ASSUME TypeOK, Accounts, pc' = pc, pc \in {"initial", "cascade"},
         UNCHANGED <<jobs, finishing, failed, lost, outputs_ready>>,
         \A x \in Edge : want'[x] # want[x] => want[x] = ToStart /\ want'[x] = ToFinish,
         \A x \in Held' : x \in Held \/ want[x] = ToStart,
         \A x \in Startable' : x \in Startable /\ (x \in Held' => x \in Held),
         IsInjective(ready) => IsInjective(ready'),
         \A x \in ToSet(ready') : x \in ToSet(ready) \/ (x \notin Taken' /\ Wanted(x)')
  PROVE  /\ PlannedUnready' /\ HeldWanted' /\ LeftReady' /\ Untouched' /\ NothingHeld'
         /\ HandedOnce'
<1>1. PlannedUnready' /\ LeftReady' /\ NothingHeld'
  <2>1. \A x \in Edge : Planned(x)' => Planned(x)
    BY DEF Planned, Absent, ToStart, ToFinish
  <2>2. PlannedUnready'
    BY <2>1 DEF Accounts, PlannedUnready
  <2>3. LeftReady'
    BY DEF Accounts, LeftReady, InputsReady, AllInputsReady
  <2> QED BY <2>2, <2>3 DEF NothingHeld
<1>2. HeldWanted'
  BY DEF Accounts, HeldWanted, Nothing, ToStart, ToFinish
<1>3. Untouched'
  BY DEF Accounts, Untouched
<1>4. Running' = Running /\ pc' # "phony"
  BY DEF Running, Pending
<1>5. \A x \in Edge : Wanted(x) => Wanted(x)'
  BY DEF Wanted
<1>6. ToSet(ready) \subseteq Edge /\ Running \subseteq Edge
  BY DEF TypeOK, ToSet, Running, Pending
<1>7. HandedOnce'
  BY <1>4, <1>5, <1>6, HandedOnceKept DEF Accounts, HandedOnce
<1> QED BY <1>1, <1>2, <1>3, <1>7

(* ScheduleInitialEdges queues an edge, or delays it.                      *)
LEMMA ScheduleInitialEdgeAccounts ==
  ASSUME IInv, Accounts, NEW e \in Edge, ScheduleInitialEdge(e)
  PROVE  Accounts'
<1> DEFINE p == PoolOf[e]
<1>1. /\ pc = "initial" /\ pc' = pc /\ e \in unscheduled
      /\ ScheduleInitial(e)
      /\ unscheduled' = unscheduled \ {e}
      /\ UNCHANGED <<outputs_ready, agenda, lost, jobs, finishing, failed, failuresAllowed>>
  BY DEF ScheduleInitialEdge
<1>2. p \in Pool /\ want[e] = ToStart /\ PoolsTyped /\ TypeOK /\ Wanted(e)
  BY <1>1, GraphTyped DEF IInv, Phases, TypeOK, PoolsTyped, Wanted
<1>3. e \notin Held
  BY <1>1 DEF Accounts, Untouched, Startable
<1>4. ToSet(agenda) = {}
  BY <1>1 DEF IInv, Phases, ToSet
<1>5. UNCHANGED <<Running, Taken, Exact>>
  BY <1>1 DEF Running, Pending, Taken, Exact
<1>6. /\ DelayedOnce' /\ SlotsHeld'
      /\ IsInjective(ready) => IsInjective(ready')
      /\ \A x \in ToSet(ready') : x \in ToSet(ready) \/ (x \notin Taken' /\ Wanted(x)')
      /\ Queued' \subseteq Queued \cup {e}
      /\ want' \in {want, [want EXCEPT ![e] = ToFinish]}
  <2>1. CASE Depth[p] = 0
    <3>1. ScheduleWork(e)
      BY <1>1, <2>1 DEF ScheduleInitial
    <3>2. want' = [want EXCEPT ![e] = ToFinish]
      BY <3>1 DEF ScheduleWork
    <3>3. Queued' \subseteq Queued \cup {e}
      BY <1>2, <3>1, ScheduleWorkQueues
    <3> QED BY <1>1, <1>2, <1>3, <3>1, <3>2, <3>3, ScheduleAccounts
  <2>2. CASE Depth[p] # 0
    <3>1. /\ delayed' = [delayed EXCEPT ![p] = Append(@, e)]
          /\ UNCHANGED <<want, ready, currentUse>>
      BY <1>1, <2>2 DEF ScheduleInitial
    <3>2. e \notin ToSet(ready) \cup Taken /\ \A q \in Pool : e \notin ToSet(delayed[q])
      BY <1>3 DEF Held, Scheduled, Queued, Taken
    <3>3. /\ ToSet(Append(delayed[p], e)) = ToSet(delayed[p]) \cup {e}
          /\ IsInjective(delayed[p]) => IsInjective(Append(delayed[p], e))
      BY <1>2, <3>2, ToSetAppend, DistinctAppend DEF PoolsTyped
    <3>4. \A q \in Pool : delayed'[q] = IF q = p THEN Append(delayed[p], e) ELSE delayed[q]
      BY <3>1 DEF TypeOK, IInv
    <3>5. Depth[p] > 0
      BY <1>2, <2>2, GraphTyped
    <3> HIDE DEF p
    <3>6. DelayedOnce'
      <4> SUFFICES ASSUME NEW q \in Pool
                   PROVE  /\ IsInjective(delayed'[q])
                          /\ \A x \in ToSet(delayed'[q]) :
                               /\ PoolOf[x] = q /\ Depth[q] > 0
                               /\ x \notin ToSet(ready') \cup Taken'
                               /\ Wanted(x)'
        BY DEF DelayedOnce
      <4>1. /\ IsInjective(delayed[q])
            /\ \A x \in ToSet(delayed[q]) :
                 /\ PoolOf[x] = q /\ Depth[q] > 0
                 /\ x \notin ToSet(ready') \cup Taken'
                 /\ Wanted(x)'
        BY <1>5, <3>1 DEF Accounts, DelayedOnce, Wanted
      <4>2. /\ PoolOf[e] = p /\ e \notin ToSet(ready') \cup Taken' /\ Wanted(e)'
        BY <1>2, <1>5, <3>1, <3>2 DEF Wanted, p
      <4> QED BY <3>3, <3>4, <3>5, <4>1, <4>2
    <3>7. SlotsHeld'
      <4>1. \A q \in Pool : SlotHolders(q)' = SlotHolders(q)
        BY <1>1, <1>5, <3>1 DEF SlotHolders, Wanted
      <4>2. SlotsFreedAgain' = SlotsFreedAgain
        BY <1>1, <3>1, AgainSame DEF Planned
      <4> QED BY <1>5, <3>1, <4>1, <4>2 DEF Accounts, SlotsHeld
    <3>8. Queued' \subseteq Queued \cup {e}
      BY <3>1, <3>3, <3>4 DEF Queued
    <3> QED BY <3>1, <3>6, <3>7, <3>8
  <2> QED BY <2>1, <2>2
<1> HIDE DEF p
<1>7. Held' \subseteq Held \cup {e}
  BY <1>1, <1>5, <1>6 DEF Held, Scheduled
<1>8. \A x \in Startable' : x \in Startable /\ x # e
  BY <1>1, <1>4 DEF Startable
<1>9. /\ PlannedUnready' /\ HeldWanted' /\ LeftReady' /\ Untouched' /\ NothingHeld'
      /\ HandedOnce'
  <2>0. /\ pc' = pc /\ pc \in {"initial", "cascade"}
        /\ UNCHANGED <<jobs, finishing, failed, lost, outputs_ready>>
    BY <1>1
  <2>1. /\ \A x \in Edge : want'[x] # want[x] => want[x] = ToStart /\ want'[x] = ToFinish
        /\ \A x \in Held' : x \in Held \/ want[x] = ToStart
    BY <1>2, <1>6, <1>7 DEF TypeOK
  <2>2. \A x \in Startable' : x \in Startable /\ (x \in Held' => x \in Held)
    BY <1>7, <1>8
  <2> QED BY <1>2, <1>6, <2>0, <2>1, <2>2, SchedulingKeeps
<1> QED BY <1>6, <1>9 DEF Accounts

(* Its second loop hands out the slots of a pool.                          *)
LEMMA RetrieveInitialAccounts ==
  ASSUME IInv, Accounts, NEW p \in Pool, RetrieveInitial(p)
  PROVE  Accounts'
<1> DEFINE use == currentUse[p]
<1>1. /\ pc = "initial" /\ pc' = pc
      /\ RetrieveReadyEdges(p, use, delayed[p])
      /\ UNCHANGED <<want, unscheduled, outputs_ready, agenda, lost, jobs, finishing,
                     failed, failuresAllowed>>
  BY DEF RetrieveInitial
<1>2. TypeOK /\ PoolsTyped /\ use \in Int /\ delayed[p] \in Seq(Edge)
  BY DEF IInv, TypeOK, PoolsTyped
<1>3. /\ UNCHANGED <<Running, Taken, Exact, Startable>>
      /\ \A x \in Edge : Wanted(x)' <=> Wanted(x)
  BY <1>1 DEF Running, Pending, Taken, Exact, Startable, Wanted
<1>4. \A q \in Pool : ToSet(delayed[q]) \subseteq Edge
  BY <1>2 DEF TypeOK, ToSet
<1>11. SlotsFreedAgain' = SlotsFreedAgain /\ SlotsFreedAgain' \in Int
  <2>1. failed \subseteq Edge /\ failuresAllowed \in Int
    BY <1>2 DEF TypeOK
  <2> QED BY <1>1, <2>1, AgainSame, AgainTyped DEF Planned
<1>5. /\ \A q \in Pool : IsInjective(delayed[q])
      /\ \A q \in Pool : \A x \in ToSet(IF q = p THEN delayed[p] ELSE delayed[q]) :
           /\ PoolOf[x] = q /\ Depth[q] > 0
           /\ x \notin ToSet(ready) \cup Taken'
           /\ Wanted(x)'
  BY <1>3, <1>4 DEF Accounts, DelayedOnce
<1>6. \A q \in Pool : Depth[q] > 0 =>
           LET used == IF q = p THEN use ELSE currentUse[q] IN
           /\ used <= Cardinality(Keepers(q))
           /\ Cardinality(Keepers(q)) - SlotsFreedAgain' <= used
           /\ Exact' => used = Cardinality(Keepers(q))
  <2>1. \A q \in Pool : Keepers(q) = SlotHolders(q)
    BY <1>1, <1>3 DEF Keepers, SlotHolders
  <2> QED BY <1>3, <1>11, <2>1 DEF Accounts, SlotsHeld
<1> HIDE DEF use
<1>7. /\ DelayedOnce' /\ SlotsHeld'
      /\ IsInjective(ready) => IsInjective(ready')
      /\ \A x \in ToSet(ready') : x \in ToSet(ready) \/ (x \notin Taken' /\ Wanted(x)')
  BY <1>1, <1>2, <1>5, <1>6, <1>11, RetrieveAccounts
<1>8. Queued' \subseteq Queued
  <2>1. ToSet(delayed[p]) \subseteq Queued
    BY DEF Queued
  <2> QED BY <1>1, <1>2, <2>1, RetrieveQueues
<1>9. Held' \subseteq Held
  BY <1>1, <1>3, <1>8 DEF Held, Scheduled
<1>10. /\ PlannedUnready' /\ HeldWanted' /\ LeftReady' /\ Untouched' /\ NothingHeld'
       /\ HandedOnce'
  <2>1. /\ pc' = pc /\ pc \in {"initial", "cascade"}
        /\ UNCHANGED <<jobs, finishing, failed, lost, outputs_ready>>
    BY <1>1
  <2>2. /\ \A x \in Edge : want'[x] # want[x] => want[x] = ToStart /\ want'[x] = ToFinish
        /\ \A x \in Held' : x \in Held \/ want[x] = ToStart
    BY <1>1, <1>9
  <2>3. \A x \in Startable' : x \in Startable /\ (x \in Held' => x \in Held)
    BY <1>3, <1>9
  <2> QED BY <1>2, <1>7, <2>1, <2>2, <2>3, SchedulingKeeps
<1> QED BY <1>7, <1>10 DEF Accounts

(* An edge is taken from the queue, to run or to be finished at once.      *)
LEMMA TakeAccounts ==
  ASSUME IInv, IInv', LInv, Accounts, NEW e \in Edge,
         (\E s \in Slot : StartCommand(e, s)) \/ StartPhony(e)
  PROVE  Accounts'
<1>1. /\ pc = "start" /\ FindWork(e)
      /\ UNCHANGED <<want, delayed, currentUse, outputs_ready, agenda, unscheduled,
                     failed, failuresAllowed>>
      /\ pc' \in {"start", "phony"}
  BY DEF StartCommand, StartPhony
<1>2. TypeOK /\ finishing = NoEdge /\ NoEdge \notin Edge
  BY <1>1, GraphTyped DEF IInv, Phases
<1>3. /\ \A x \in Edge : x \in Working' <=> x \in Working \cup {e}
      /\ Running' \subseteq Running \cup {e} /\ finishing' \in {NoEdge, e}
      /\ lost = {} /\ e \notin Running /\ (\A s, t \in Pending : jobs[s] = jobs[t] => s = t) =>
           /\ \A s, t \in Pending' : jobs'[s] = jobs'[t] => s = t
           /\ Running' \cap {finishing'} = {}
  <2>1. CASE StartPhony(e)
    <3>1. jobs' = jobs /\ finishing' = e
      BY <2>1 DEF StartPhony
    <3> QED BY <1>2, <3>1 DEF Working, Running, Pending
  <2>2. CASE \E s \in Slot : StartCommand(e, s)
    <3>1. PICK s \in Slot : StartCommand(e, s)
      BY <2>2
    <3>2. s \in FreeSlots /\ jobs' = [jobs EXCEPT ![s] = e] /\ finishing' = finishing
      BY <3>1 DEF StartCommand, FreeSlots
    <3>3. Pending' = Pending \cup {s} /\ s \notin Pending
      BY <1>2, <3>2 DEF Pending, FreeSlots, TypeOK
    <3>4. jobs'[s] = e /\ \A t \in Pending : jobs'[t] = jobs[t]
      BY <1>2, <3>2, <3>3 DEF TypeOK, Pending
    <3>5. Running' = Running \cup {e}
      BY <3>3, <3>4 DEF Running
    <3>6. e \notin Running => \A t \in Pending : jobs[t] # e
      BY DEF Running
    <3>7. NoEdge \notin Running
      BY <1>2 DEF Running, Pending
    <3> QED BY <1>2, <3>2, <3>3, <3>4, <3>5, <3>6, <3>7 DEF Working
  <2> QED BY <2>1, <2>2
<1>4. /\ DelayedOnce' /\ SlotsHeld'
      /\ e \in ToSet(ready)
      /\ lost' = {} => lost = {} /\ (IsInjective(ready) => ready' = << >>)
  BY <1>1, <1>2, <1>3, FindWorkAccounts
<1>5. Queued' \subseteq Queued /\ lost' \subseteq lost \cup ToSet(ready)
  <2>1. Queued' \subseteq Queued
    BY <1>1, <1>2, FindWorkQueues
  <2>2. lost' \subseteq lost \cup {ready[Len(ready)]}
    BY <1>1 DEF FindWork
  <2>3. ready \in Seq(Edge) /\ ready # << >>
    BY <1>1 DEF FindWork, IInv, TypeOK
  <2>4. ready[Len(ready)] \in ToSet(ready)
    BY <2>3, ToSetFront
  <2> QED BY <2>1, <2>2, <2>4
<1>6. ToSet(ready) \subseteq Queued
  BY DEF Queued
<1>7. Held' \subseteq Held
  BY <1>1, <1>2, <1>3, <1>4, <1>5, <1>6 DEF Held, Scheduled, Working
<1>8. PlannedUnready' /\ HeldWanted' /\ NothingHeld'
  BY <1>1, <1>7 DEF Accounts, PlannedUnready, Planned, HeldWanted, NothingHeld
<1>9. LeftReady'
  BY <1>1, <1>5, <1>6 DEF Accounts, LeftReady, LInv, HandedOnReady, InputsReady, AllInputsReady
<1>10. Untouched'
  BY <1>1, NothingStartable DEF Untouched
<1>11. HandedOnce'
  <2> SUFFICES ASSUME lost' = {} PROVE HandedOnce'
    BY DEF HandedOnce
  <2>1. /\ lost = {} /\ ready' = << >>
        /\ e \notin Running \cup failed /\ Wanted(e)
        /\ Running \cap failed = {}
        /\ \A s, t \in Pending : jobs[s] = jobs[t] => s = t
        /\ \A x \in Running : Wanted(x)
    BY <1>4 DEF Accounts, HandedOnce
  <2>2. ToSet(ready') = {} /\ IsInjective(ready')
    BY <2>1 DEF ToSet, IsInjective
  <2>3. Running' \cap failed' = {} /\ finishing' \notin failed'
    BY <1>1, <1>2, <1>3, <2>1 DEF TypeOK
  <2>4. \A x \in Running' : Wanted(x)'
    BY <1>1, <1>3, <2>1 DEF Wanted
  <2> QED BY <1>3, <2>1, <2>2, <2>3, <2>4 DEF HandedOnce
<1> QED BY <1>4, <1>8, <1>9, <1>10, <1>11 DEF Accounts

(* A result for an edge that left the plan before changes no account.      *)
LEMMA UnknownAccounts ==
  ASSUME TypeOK, Accounts, NEW e \in Edge, EdgeUnknown(e),
         lost' = lost, Exact' => Exact,
         SlotsFreedAgain \in Int, SlotsFreedAgain' \in Int,
         SlotsFreedAgain <= SlotsFreedAgain',
         \A x \in Edge \ {e} : /\ x \in failed' <=> x \in failed
                               /\ x \in Working' <=> x \in Working
  PROVE  DelayedOnce' /\ SlotsHeld'
<1>1. /\ ~Planned(e)
      /\ UNCHANGED <<ready, delayed, currentUse, want>>
  BY DEF EdgeUnknown
<1>2. ~Wanted(e)
  BY <1>1 DEF Planned, Wanted, Absent, ToStart, ToFinish
<1>3. DelayedOnce'
  <2> SUFFICES ASSUME NEW p \in Pool, NEW x \in ToSet(delayed[p])
               PROVE  x \notin Taken'
    BY <1>1 DEF Accounts, DelayedOnce, Wanted
  <2>1. x \in Edge
    BY DEF TypeOK, ToSet
  <2>2. Wanted(x) /\ x \notin Taken
    BY DEF Accounts, DelayedOnce
  <2> QED BY <1>2, <2>1, <2>2 DEF Taken, Working
<1>4. SlotsHeld'
  <2>1. \A p \in Pool : SlotHolders(p)' = SlotHolders(p)
    BY <1>1, <1>2 DEF SlotHolders, Wanted, Working
  <2>2. \A p \in Pool : currentUse[p] \in Int /\ Cardinality(SlotHolders(p)) \in Nat
    <3>1. \A p \in Pool : SlotHolders(p) \subseteq Edge
      BY DEF SlotHolders
    <3>2. \A p \in Pool : IsFiniteSet(SlotHolders(p))
      BY <3>1, GraphTyped, FS_Subset
    <3> QED BY <3>2, FS_CardinalityType DEF TypeOK
  <2> QED BY <1>1, <2>1, <2>2 DEF Accounts, SlotsHeld
<1> QED BY <1>3, <1>4

(* The queue, when an edge is finished with, has the edges it had, and such*)
(* as no other place has.                                                  *)
QueueGrows ==
  /\ IsInjective(ready) => IsInjective(ready')
  /\ \A x \in ToSet(ready') : x \in ToSet(ready) \/ (x \notin Taken' /\ Wanted(x)')

(* EdgeFinished on a success: the edges whose last input was ready are to  *)
(* be looked at, and none of them was handed on.                           *)
LEMMA SucceededAccounts ==
  ASSUME TypeOK, LInv, Accounts, NEW e \in Edge, NEW rest \in Seq(Edge),
         ToSet(rest) \subseteq ToSet(agenda), unscheduled' = {},
         EdgeSucceeded(e, rest), e \in Working \/ want[e] = Nothing,
         UNCHANGED <<lost, failed, failuresAllowed>>, pc' # "targets",
         \A x \in Edge \ {e} : x \in Working' <=> x \in Working,
         e \in Working' => e \in Working,
         Exact /\ Wanted(e) => e \notin failed
  PROVE  /\ PlannedUnready' /\ HeldWanted' /\ LeftReady' /\ Untouched' /\ NothingHeld'
         /\ DelayedOnce' /\ SlotsHeld' /\ QueueGrows
<1>1. /\ Planned(e) /\ ReleaseSlot(e)
      /\ want' = [want EXCEPT ![e] = Absent]
      /\ outputs_ready' = [outputs_ready EXCEPT ![e] = TRUE]
      /\ agenda' = Dependents[e] \o rest
  BY DEF EdgeSucceeded
<1>2. want'[e] = Absent /\ \A x \in Edge \ {e} : want'[x] = want[x]
  BY <1>1 DEF TypeOK
<1>3. ~Wanted(e)' /\ \A x \in Edge \ {e} : Wanted(x)' <=> Wanted(x)
  BY <1>2 DEF Wanted, Absent, ToStart, ToFinish
<1>4. Exact' <=> Exact
  BY DEF Exact
<1>5. DelayedOnce' /\ SlotsHeld' /\ QueueGrows
  <2>1. /\ ~Planned(e)' /\ \A x \in Edge \ {e} : Planned(x)' <=> Planned(x)
    BY <1>2 DEF Planned
  <2>2. failed \subseteq Edge /\ failuresAllowed \in Int
    BY DEF TypeOK
  <2>3. /\ SlotsFreedAgain \in Int /\ SlotsFreedAgain' \in Int
        /\ SlotsFreedAgain <= SlotsFreedAgain'
        /\ e \in failed => SlotsFreedAgain + 1 <= SlotsFreedAgain'
    BY <1>1, <2>1, <2>2, AgainLeaves, AgainTyped
  <2> QED BY <1>1, <1>3, <1>4, <2>3, ReleaseAccounts DEF QueueGrows
<1>6. \A x \in Edge : outputs_ready[x] => outputs_ready'[x]
  BY <1>1 DEF TypeOK
<1>7. \A x \in Edge \ {e} : outputs_ready'[x] = outputs_ready[x]
  BY <1>1 DEF TypeOK
<1>8. Held' \cap Edge \subseteq Held
  <2>1. Queued' \subseteq Queued
    BY <1>1, ReleaseSlotQueues DEF TypeOK, PoolsTyped
  <2> QED BY <2>1 DEF Held, Scheduled, Working
<1>9. PlannedUnready'
  BY <1>2, <1>7 DEF Accounts, PlannedUnready, Planned
<1>10. HeldWanted'
  BY <1>2, <1>8 DEF Accounts, HeldWanted, Absent, Nothing
<1>11. LeftReady'
  <2>1. \A x \in Edge : InputsReady(x) => InputsReady(x)'
    BY <1>6 DEF InputsReady, AllInputsReady, Producers
  <2> QED BY <2>1 DEF Accounts, LeftReady, TypeOK
<1>12. Untouched'
  <2> SUFFICES ASSUME NEW x \in ToSet(agenda'), want'[x] = ToStart, x \in Held'
               PROVE  FALSE
    BY DEF Untouched, Startable
  <2>1. /\ Dependents[e] \in Seq(Edge)
        /\ ToSet(agenda') = ToSet(Dependents[e]) \cup ToSet(rest)
    BY <1>1, GraphTyped, ToSetConcat
  <2>2. x \in Edge
    BY <2>1 DEF ToSet
  <2>3. x \in Edge \cap Held /\ x # e /\ want[x] = ToStart
    BY <1>2, <1>8, <2>2 DEF Absent, ToStart
  <2>4. CASE x \in ToSet(rest)
    BY <2>3, <2>4 DEF Accounts, Untouched, Startable
  <2>5. CASE x \in ToSet(Dependents[e])
    <3>1. e \in Producers[x] /\ ~outputs_ready[e]
      BY <1>1, <2>2, <2>5, DependentsAreConsumers DEF Accounts, PlannedUnready
    <3>2. ~InputsReady(x)
      BY <3>1 DEF InputsReady, AllInputsReady
    <3>3. LeftReady
      BY DEF Accounts
    <3> QED BY <2>3, <3>2, <3>3, HeldInputsReady
  <2> QED BY <2>1, <2>4, <2>5
<1>13. NothingHeld'
  BY DEF NothingHeld
<1> QED BY <1>5, <1>9, <1>10, <1>11, <1>12, <1>13

(* A result that leaves the plan as it is.                                 *)
LEMMA UnchangedPlan ==
  ASSUME IInv, IInv', LInv, Accounts, UNCHANGED <<want, outputs_ready, lost>>,
         Queued' \subseteq Queued, Working' \cap Edge \subseteq Working,
         failed' \subseteq failed \cup (Running \cap Edge),
         pc' \notin {"targets", "initial", "done"}, pc' = "cascade" => ToSet(agenda') = {}
  PROVE  PlannedUnready' /\ HeldWanted' /\ LeftReady' /\ Untouched' /\ NothingHeld'
<1>1. Held' \cap Edge \subseteq Held
  BY DEF Held, Scheduled, Working
<1>2. PlannedUnready' /\ HeldWanted' /\ NothingHeld'
  BY <1>1 DEF Accounts, PlannedUnready, Planned, HeldWanted, NothingHeld
<1>3. LeftReady'
  BY DEF Accounts, LeftReady, LInv, HeldReady, InHand, InputsReady, AllInputsReady
<1>4. Startable' = {}
  <2>1. CASE pc' = "cascade"
    BY <2>1 DEF IInv, Phases, Startable
  <2>2. CASE pc' # "cascade"
    BY <2>2, NothingStartable
  <2> QED BY <2>1, <2>2
<1> QED BY <1>2, <1>3, <1>4 DEF Untouched

(* A phony edge finishes in the iteration that took it.                    *)
LEMMA FinishPhonyAccounts ==
  ASSUME IInv, IInv', LInv, Accounts, FinishPhony
  PROVE  Accounts'
<1>1. /\ pc = "phony" /\ pc' = "cascade" /\ finishing' = NoEdge
      /\ EdgeSucceeded(finishing, << >>) \/ EdgeUnknown(finishing)
      /\ UNCHANGED <<lost, unscheduled, jobs, failed, failuresAllowed>>
  BY DEF FinishPhony
<1>2. /\ TypeOK /\ agenda = << >> /\ unscheduled = {} /\ NoEdge \notin Edge
      /\ finishing \in Edge
  BY <1>1, GraphTyped DEF IInv, Phases
<1>3. PICK e \in Edge : e = finishing
  BY <1>2
<1>4. /\ Running' = Running /\ e \in Working
      /\ \A x \in Edge \ {e} : x \in Working' <=> x \in Working
  BY <1>1, <1>2, <1>3 DEF Running, Pending, Working
<1>5. /\ Exact' => Exact
      /\ Exact => e \notin failed
  BY <1>1, <1>3 DEF Exact, Accounts, HandedOnce
<1>6. ToSet(ready) \subseteq Edge /\ Running \subseteq Edge
  BY <1>2 DEF TypeOK, ToSet, Running, Pending
<1>7. lost = {} =>
        /\ \A x \in ToSet(ready) : x \notin {e} \cup failed /\ Wanted(x)
        /\ \A x \in Running : x \notin {e} \cup failed /\ Wanted(x)
  BY <1>3 DEF Accounts, HandedOnce
<1>8. /\ HandedOnce /\ \A s \in Slot : jobs'[s] \in {jobs[s], NoEdge}
      /\ lost' = lost /\ pc' # "phony"
  BY <1>1 DEF Accounts
<1>9. CASE EdgeSucceeded(e, << >>)
  <2>1. /\ << >> \in Seq(Edge) /\ ToSet(<< >>) \subseteq ToSet(agenda)
        /\ unscheduled' = {} /\ pc' # "targets"
        /\ UNCHANGED <<lost, failed, failuresAllowed>>
    BY <1>1, <1>2
  <2>2. /\ PlannedUnready' /\ HeldWanted' /\ LeftReady' /\ Untouched' /\ NothingHeld'
        /\ DelayedOnce' /\ SlotsHeld' /\ QueueGrows
    BY <1>2, <1>4, <1>5, <1>9, <2>1, SucceededAccounts
  <2>3. \A x \in Edge \ {e} : Wanted(x)' <=> Wanted(x)
    BY <1>2, <1>9 DEF EdgeSucceeded, TypeOK, Wanted
  <2>4. lost = {} =>
          /\ \A x \in ToSet(ready) : x \notin {finishing'} \cup failed' /\ Wanted(x)'
          /\ \A x \in Running' : x \notin {finishing'} \cup failed' /\ Wanted(x)'
    BY <1>1, <1>2, <1>4, <1>6, <1>7, <2>3
  <2>5. HandedOnce'
    BY <1>8, <2>2, <2>4, HandedOnceKept DEF QueueGrows
  <2> QED BY <2>2, <2>5 DEF Accounts
<1>10. CASE EdgeUnknown(e)
  <2>0. /\ SlotsFreedAgain \in Int /\ SlotsFreedAgain' \in Int
        /\ SlotsFreedAgain <= SlotsFreedAgain'
    <3>1. failed \subseteq Edge /\ failuresAllowed \in Int
      BY <1>2 DEF TypeOK
    <3>2. SlotsFreedAgain' = SlotsFreedAgain
      BY <1>1, <1>10, AgainSame DEF EdgeUnknown, Planned
    <3> QED BY <1>1, <3>1, <3>2, AgainTyped
  <2>1. /\ UNCHANGED <<ready, delayed, currentUse, want, outputs_ready, agenda, Queued>>
    BY <1>10 DEF EdgeUnknown, Queued
  <2>2. DelayedOnce' /\ SlotsHeld'
    BY <1>1, <1>2, <1>4, <1>5, <1>10, <2>0, UnknownAccounts
  <2>3. /\ Working' \cap Edge \subseteq Working /\ failed' \subseteq failed \cup (Running \cap Edge)
        /\ ToSet(agenda') = {}
    BY <1>1, <1>2, <1>4, <2>1 DEF ToSet
  <2>4. PlannedUnready' /\ HeldWanted' /\ LeftReady' /\ Untouched' /\ NothingHeld'
    BY <1>1, <2>1, <2>3, UnchangedPlan
  <2>5. lost = {} =>
          /\ \A x \in ToSet(ready) : x \notin {finishing'} \cup failed' /\ Wanted(x)'
          /\ \A x \in Running' : x \notin {finishing'} \cup failed' /\ Wanted(x)'
    BY <1>1, <1>2, <1>4, <1>6, <1>7, <2>1 DEF Wanted
  <2>6. HandedOnce'
    BY <1>8, <2>1, <2>5, HandedOnceKept
  <2> QED BY <2>2, <2>4, <2>6 DEF Accounts
<1> QED BY <1>1, <1>3, <1>9, <1>10

(* A command that succeeded leaves its slot, and the pool's.               *)
LEMMA CommandSucceedsAccounts ==
  ASSUME IInv, IInv', LInv, Accounts, NEW s \in Slot, CommandSucceeds(s)
  PROVE  Accounts'
<1>1. /\ pc = "wait" /\ pc' = "cascade" /\ s \in Pending /\ finishing' = jobs[s]
      /\ EdgeSucceeded(jobs[s], << >>) \/ EdgeUnknown(jobs[s])
      /\ jobs' = [jobs EXCEPT ![s] = NoEdge]
      /\ UNCHANGED <<lost, unscheduled, failed, failuresAllowed>>
  BY DEF CommandSucceeds, GiveBack, Given
<1>2. /\ TypeOK /\ agenda = << >> /\ unscheduled = {} /\ NoEdge \notin Edge
      /\ finishing = NoEdge /\ jobs[s] \in Edge
  BY <1>1, GraphTyped DEF IInv, Phases, TypeOK, Pending
<1>3. PICK e \in Edge : e = jobs[s]
  BY <1>2
<1>4. /\ \A t \in Slot : jobs'[t] = IF t = s THEN NoEdge ELSE jobs[t]
      /\ Pending' = Pending \ {s}
  BY <1>1, <1>2 DEF TypeOK, Pending
<1>5. Running' \subseteq Running /\ Running \subseteq Running' \cup {e} /\ e \in Running
  BY <1>1, <1>3, <1>4 DEF Running, Pending
<1>6. /\ e \in Working
      /\ \A x \in Edge \ {e} : x \in Working' <=> x \in Working
  BY <1>1, <1>2, <1>3, <1>5 DEF Working
<1>7. /\ Exact' => Exact
      /\ Exact => e \notin failed
  BY <1>1, <1>5 DEF Exact, Accounts, HandedOnce
<1>8. ToSet(ready) \subseteq Edge /\ Running \subseteq Edge
  BY <1>2 DEF TypeOK, ToSet, Running, Pending
<1>9. lost = {} => e \notin Running'
  BY <1>1, <1>3, <1>4 DEF Accounts, HandedOnce, Running
<1>10. lost = {} =>
        /\ \A x \in ToSet(ready) : x \notin {e} \cup failed /\ Wanted(x)
        /\ \A x \in Running' : x \notin {e} \cup failed /\ Wanted(x)
  BY <1>5, <1>9 DEF Accounts, HandedOnce
<1>11. /\ HandedOnce /\ \A t \in Slot : jobs'[t] \in {jobs[t], NoEdge}
       /\ lost' = lost /\ pc' # "phony"
  BY <1>1, <1>4 DEF Accounts
<1>12. CASE EdgeSucceeded(e, << >>)
  <2>1. /\ << >> \in Seq(Edge) /\ ToSet(<< >>) \subseteq ToSet(agenda)
        /\ unscheduled' = {} /\ pc' # "targets"
        /\ UNCHANGED <<lost, failed, failuresAllowed>>
    BY <1>1, <1>2
  <2>2. /\ PlannedUnready' /\ HeldWanted' /\ LeftReady' /\ Untouched' /\ NothingHeld'
        /\ DelayedOnce' /\ SlotsHeld' /\ QueueGrows
    BY <1>2, <1>6, <1>7, <1>12, <2>1, SucceededAccounts
  <2>3. \A x \in Edge \ {e} : Wanted(x)' <=> Wanted(x)
    BY <1>2, <1>12 DEF EdgeSucceeded, TypeOK, Wanted
  <2>4. lost = {} =>
          /\ \A x \in ToSet(ready) : x \notin {finishing'} \cup failed' /\ Wanted(x)'
          /\ \A x \in Running' : x \notin {finishing'} \cup failed' /\ Wanted(x)'
    BY <1>1, <1>3, <1>5, <1>8, <1>10, <2>3
  <2>5. HandedOnce'
    BY <1>11, <2>2, <2>4, HandedOnceKept DEF QueueGrows
  <2> QED BY <2>2, <2>5 DEF Accounts
<1>13. CASE EdgeUnknown(e)
  <2>0. /\ SlotsFreedAgain \in Int /\ SlotsFreedAgain' \in Int
        /\ SlotsFreedAgain <= SlotsFreedAgain'
    <3>1. failed \subseteq Edge /\ failuresAllowed \in Int
      BY <1>2 DEF TypeOK
    <3>2. SlotsFreedAgain' = SlotsFreedAgain
      BY <1>1, <1>13, AgainSame DEF EdgeUnknown, Planned
    <3> QED BY <1>1, <3>1, <3>2, AgainTyped
  <2>1. /\ UNCHANGED <<ready, delayed, currentUse, want, outputs_ready, agenda, Queued>>
    BY <1>13 DEF EdgeUnknown, Queued
  <2>2. DelayedOnce' /\ SlotsHeld'
    BY <1>1, <1>2, <1>6, <1>7, <1>13, <2>0, UnknownAccounts
  <2>3. /\ Working' \cap Edge \subseteq Working /\ failed' \subseteq failed \cup (Running \cap Edge)
        /\ ToSet(agenda') = {}
    BY <1>1, <1>2, <1>6, <2>1 DEF ToSet
  <2>4. PlannedUnready' /\ HeldWanted' /\ LeftReady' /\ Untouched' /\ NothingHeld'
    BY <1>1, <2>1, <2>3, UnchangedPlan
  <2>5. lost = {} =>
          /\ \A x \in ToSet(ready) : x \notin {finishing'} \cup failed' /\ Wanted(x)'
          /\ \A x \in Running' : x \notin {finishing'} \cup failed' /\ Wanted(x)'
    BY <1>1, <1>3, <1>10, <2>1 DEF Wanted
  <2>6. HandedOnce'
    BY <1>11, <2>1, <2>5, HandedOnceKept
  <2> QED BY <2>2, <2>4, <2>6 DEF Accounts
<1> QED BY <1>1, <1>3, <1>12, <1>13

(* A command that failed does too, but the plan keeps it.                  *)
LEMMA CommandFailsAccounts ==
  ASSUME IInv, IInv', LInv, Accounts, NEW s \in Slot, CommandFails(s)
  PROVE  Accounts'
<1>1. /\ pc = "wait" /\ pc' = "head" /\ s \in Pending
      /\ EdgeFailed(jobs[s]) \/ EdgeUnknown(jobs[s])
      /\ failed' = failed \cup {jobs[s]} /\ failuresAllowed' = failuresAllowed - 1
      /\ jobs' = [jobs EXCEPT ![s] = NoEdge]
      /\ UNCHANGED <<lost, unscheduled, finishing>>
  BY DEF CommandFails, GiveBack, Given
<1>2. /\ TypeOK /\ NoEdge \notin Edge /\ finishing = NoEdge /\ jobs[s] \in Edge
  BY <1>1, GraphTyped DEF IInv, Phases, TypeOK, Pending
<1>3. PICK e \in Edge : e = jobs[s]
  BY <1>2
<1>4. /\ \A t \in Slot : jobs'[t] = IF t = s THEN NoEdge ELSE jobs[t]
      /\ Pending' = Pending \ {s}
  BY <1>1, <1>2 DEF TypeOK, Pending
<1>5. Running' \subseteq Running /\ Running \subseteq Running' \cup {e} /\ e \in Running
  BY <1>1, <1>3, <1>4 DEF Running, Pending
<1>6. /\ e \in Working /\ Working' \subseteq Working
      /\ \A x \in Edge \ {e} : /\ x \in Working' <=> x \in Working
                               /\ x \in failed' <=> x \in failed
  BY <1>1, <1>3, <1>5 DEF Working
<1>7. /\ Exact' => Exact
      /\ Exact => e \notin failed
      /\ e \in failed'
  BY <1>1, <1>3, <1>5 DEF Exact, Accounts, HandedOnce
<1>8. ToSet(ready) \subseteq Edge /\ Running \subseteq Edge
  BY <1>2 DEF TypeOK, ToSet, Running, Pending
<1>9. lost = {} => e \notin Running'
  BY <1>1, <1>3, <1>4 DEF Accounts, HandedOnce, Running
<1>10. lost = {} =>
        /\ \A x \in ToSet(ready) : x \notin {NoEdge, e} \cup failed /\ Wanted(x)
        /\ \A x \in Running' : x \notin {NoEdge, e} \cup failed /\ Wanted(x)
  BY <1>2, <1>5, <1>8, <1>9 DEF Accounts, HandedOnce
<1>11. UNCHANGED <<want, outputs_ready>> /\ \A x \in Edge : Wanted(x)' <=> Wanted(x)
  BY <1>1 DEF EdgeFailed, EdgeUnknown, Wanted
<1>15. /\ SlotsFreedAgain \in Int /\ SlotsFreedAgain' \in Int
       /\ SlotsFreedAgain <= SlotsFreedAgain'
       /\ e \in failed => SlotsFreedAgain + 1 <= SlotsFreedAgain'
  <2>1. failed \subseteq Edge /\ failuresAllowed \in Int
    BY <1>2 DEF TypeOK
  <2>2. failed' \subseteq Edge /\ failuresAllowed' \in Int
    BY <1>1, <1>2, <2>1
  <2>3. /\ SlotsFreedAgain <= SlotsFreedAgain'
        /\ e \in failed => SlotsFreedAgain + 1 <= SlotsFreedAgain'
    BY <1>1, <1>2, <1>3, <1>11, AgainFails
  <2> QED BY <2>1, <2>2, <2>3, AgainTyped
<1>12. /\ Queued' \subseteq Queued /\ DelayedOnce' /\ SlotsHeld' /\ QueueGrows
  <2>1. CASE EdgeFailed(e)
    <3>1. Planned(e) /\ ReleaseSlot(e)
      BY <2>1 DEF EdgeFailed
    <3>2. Queued' \subseteq Queued
      BY <1>2, <3>1, ReleaseSlotQueues DEF TypeOK, PoolsTyped
    <3>3. DelayedOnce' /\ SlotsHeld' /\ QueueGrows
      BY <1>1, <1>2, <1>6, <1>7, <1>11, <1>15, <3>1, ReleaseAccounts DEF QueueGrows
    <3> QED BY <3>2, <3>3
  <2>2. CASE EdgeUnknown(e)
    <3>1. UNCHANGED <<ready, delayed>>
      BY <2>2 DEF EdgeUnknown
    <3>2. Queued' \subseteq Queued /\ QueueGrows
      BY <3>1 DEF Queued, QueueGrows
    <3>3. DelayedOnce' /\ SlotsHeld'
      BY <1>1, <1>2, <1>6, <1>7, <1>15, <2>2, UnknownAccounts
    <3> QED BY <3>2, <3>3
  <2> QED BY <1>1, <1>3, <2>1, <2>2
<1>13. PlannedUnready' /\ HeldWanted' /\ LeftReady' /\ Untouched' /\ NothingHeld'
  <2>1. /\ Working' \cap Edge \subseteq Working /\ failed' \subseteq failed \cup (Running \cap Edge)
        /\ pc' \notin {"targets", "initial", "done", "cascade"}
    BY <1>1, <1>3, <1>5, <1>6
  <2> QED BY <1>1, <1>11, <1>12, <2>1, UnchangedPlan
<1>14. HandedOnce'
  <2>1. lost = {} =>
          /\ \A x \in ToSet(ready) : x \notin {finishing'} \cup failed' /\ Wanted(x)'
          /\ \A x \in Running' : x \notin {finishing'} \cup failed' /\ Wanted(x)'
    BY <1>1, <1>2, <1>3, <1>5, <1>8, <1>10, <1>11
  <2>2. /\ HandedOnce /\ \A t \in Slot : jobs'[t] \in {jobs[t], NoEdge}
        /\ lost' = lost /\ pc' # "phony"
    BY <1>1, <1>4 DEF Accounts
  <2> QED BY <1>12, <2>1, <2>2, HandedOnceKept DEF QueueGrows
<1> QED BY <1>12, <1>13, <1>14 DEF Accounts

(* The calls that follow look at one edge after the other.                 *)
LEMMA CascadeAccounts ==
  ASSUME IInv, IInv', LInv, Accounts, Cascade
  PROVE  Accounts'
<1>1. /\ pc = "cascade" /\ pc' = pc /\ EdgeMaybeReady
      /\ UNCHANGED <<lost, unscheduled, jobs, finishing, failed, failuresAllowed>>
  BY DEF Cascade
<1>2. /\ TypeOK /\ unscheduled = {} /\ unscheduled' = {} /\ agenda \in Seq(Edge)
  BY <1>1 DEF IInv, Phases, TypeOK
<1>3. /\ agenda # << >> /\ Tail(agenda) \in Seq(Edge) /\ Head(agenda) \in Edge
      /\ Head(agenda) \in ToSet(agenda) /\ ToSet(Tail(agenda)) \subseteq ToSet(agenda)
  BY <1>1, <1>2, ToSetHeadTail DEF EdgeMaybeReady
<1>4. PICK e \in Edge : e = Head(agenda)
  BY <1>3
<1>5. UNCHANGED <<Running, Pending, Working>>
  BY <1>1 DEF Running, Pending, Working
<1>6. CASE InputsReady(e) /\ want[e] = ToStart /\ ScheduleWork(e)
           /\ agenda' = Tail(agenda) /\ UNCHANGED outputs_ready
  <2>1. Wanted(e) /\ e \notin Held
    BY <1>3, <1>4, <1>6 DEF Wanted, Accounts, Untouched, Startable
  <2>2. /\ DelayedOnce' /\ SlotsHeld'
        /\ IsInjective(ready) => IsInjective(ready')
        /\ \A x \in ToSet(ready') : x \in ToSet(ready) \/ (x \notin Taken' /\ Wanted(x)')
    BY <1>1, <1>2, <1>6, <2>1, ScheduleAccounts
  <2>3. want' = [want EXCEPT ![e] = ToFinish]
    BY <1>6 DEF ScheduleWork
  <2>4. Queued' \subseteq Queued \cup {e}
    BY <1>2, <1>6, ScheduleWorkQueues DEF TypeOK, PoolsTyped
  <2>5. Held' \subseteq Held \cup {e}
    BY <1>1, <1>5, <2>4 DEF Held, Scheduled
  <2>6. /\ \A x \in Edge : want'[x] # want[x] => want[x] = ToStart /\ want'[x] = ToFinish
        /\ \A x \in Held' : x \in Held \/ want[x] = ToStart
    BY <1>2, <1>6, <2>3, <2>5 DEF TypeOK
  <2>7. \A x \in Startable' : x \in Startable /\ (x \in Held' => x \in Held)
    <3>1. \A x \in Edge : x # e => want'[x] = want[x]
      BY <1>2, <2>3 DEF TypeOK
    <3>2. want'[e] # ToStart
      BY <1>2, <2>3 DEF TypeOK, ToStart, ToFinish
    <3>3. ToSet(agenda') \subseteq ToSet(agenda) \cap Edge
      BY <1>3, <1>6 DEF ToSet
    <3> QED BY <1>2, <2>5, <3>1, <3>2, <3>3 DEF Startable
  <2>8. /\ PlannedUnready' /\ HeldWanted' /\ LeftReady' /\ Untouched' /\ NothingHeld'
        /\ HandedOnce'
    <3>1. /\ pc' = pc /\ pc \in {"initial", "cascade"}
          /\ UNCHANGED <<jobs, finishing, failed, lost, outputs_ready>>
      BY <1>1, <1>6
    <3> QED BY <1>2, <2>2, <2>6, <2>7, <3>1, SchedulingKeeps
  <2> QED BY <2>2, <2>8 DEF Accounts
<1>7. CASE want[e] = Nothing /\ EdgeSucceeded(e, Tail(agenda))
  <2>1. ~Wanted(e)
    BY <1>7 DEF Wanted, Nothing, ToStart, ToFinish
  <2>2. /\ \A x \in Edge \ {e} : x \in Working' <=> x \in Working
        /\ e \in Working' => e \in Working
        /\ UNCHANGED <<lost, failed, failuresAllowed>> /\ pc' # "targets"
    BY <1>1, <1>5
  <2>3. /\ PlannedUnready' /\ HeldWanted' /\ LeftReady' /\ Untouched' /\ NothingHeld'
        /\ DelayedOnce' /\ SlotsHeld' /\ QueueGrows
    BY <1>2, <1>3, <1>7, <2>1, <2>2, SucceededAccounts
  <2>4. \A x \in Edge \ {e} : Wanted(x)' <=> Wanted(x)
    BY <1>2, <1>7 DEF EdgeSucceeded, TypeOK, Wanted
  <2>5. ToSet(ready) \subseteq Edge /\ Running \subseteq Edge
    BY <1>2 DEF TypeOK, ToSet, Running, Pending
  <2>6. lost = {} =>
          /\ \A x \in ToSet(ready) : x \notin {finishing'} \cup failed' /\ Wanted(x)'
          /\ \A x \in Running' : x \notin {finishing'} \cup failed' /\ Wanted(x)'
    BY <1>1, <1>5, <2>1, <2>4, <2>5 DEF Accounts, HandedOnce
  <2>7. HandedOnce /\ \A t \in Slot : jobs'[t] \in {jobs[t], NoEdge}
    BY <1>1 DEF Accounts
  <2>8. HandedOnce'
    BY <1>1, <2>3, <2>6, <2>7, HandedOnceKept DEF QueueGrows
  <2> QED BY <2>3, <2>8 DEF Accounts
<1>8. CASE agenda' = Tail(agenda) /\ UNCHANGED <<ready, delayed, currentUse, want,
                                                 outputs_ready>>
  <2>1. Held' = Held
    BY <1>1, <1>5, <1>8 DEF Held, Scheduled, Queued
  <2>2. Startable' \subseteq Startable
    BY <1>1, <1>3, <1>8 DEF Startable
  <2>3. Untouched'
    BY <2>1, <2>2 DEF Accounts, Untouched
  <2> QED BY <1>1, <1>2, <1>8, <2>3, QuietStep
<1> QED BY <1>1, <1>4, <1>6, <1>7, <1>8 DEF EdgeMaybeReady

(* The finished command left the plan before it is recorded.               *)
LEMMA RecordCommandAccounts ==
  ASSUME IInv, IInv', LInv, Accounts, RecordCommand
  PROVE  Accounts'
<1>1. /\ pc = "cascade" /\ pc' = "head" /\ finishing # NoEdge /\ finishing' = NoEdge
      /\ UNCHANGED <<dirty, outputs_ready, want, ready, delayed, currentUse,
                     wanted_edges, command_edges, agenda, lost, jobs, failed,
                     failuresAllowed>>
  BY DEF RecordCommand, planVars
<1>2. TypeOK /\ NoEdge \notin Edge /\ finishing \in Edge /\ ~Planned(finishing)
  BY <1>1, GraphTyped DEF IInv, TypeOK, Phases
<1>3. PICK e \in Edge : e = finishing
  BY <1>2
<1>4. EdgeUnknown(e)
  BY <1>1, <1>2, <1>3 DEF EdgeUnknown
<1>5. UNCHANGED <<Running, Pending, Queued, Exact>> /\ \A x \in Edge : Wanted(x)' <=> Wanted(x)
  BY <1>1 DEF Running, Pending, Queued, Exact, Wanted
<1>6. /\ Working' \cap Edge \subseteq Working
      /\ \A x \in Edge \ {e} : x \in Working' <=> x \in Working
  BY <1>1, <1>2, <1>3, <1>5 DEF Working
<1>7. DelayedOnce' /\ SlotsHeld'
  <2>1. failed \subseteq Edge /\ failuresAllowed \in Int
    BY <1>2 DEF TypeOK
  <2>2. /\ SlotsFreedAgain \in Int /\ SlotsFreedAgain' = SlotsFreedAgain
        /\ SlotsFreedAgain <= SlotsFreedAgain'
    <3>1. SlotsFreedAgain' = SlotsFreedAgain
      BY <1>1, AgainSame DEF Planned
    <3> QED BY <2>1, <3>1, AgainTyped
  <2> QED BY <1>1, <1>2, <1>4, <1>5, <1>6, <2>2, UnknownAccounts
<1>8. PlannedUnready' /\ HeldWanted' /\ LeftReady' /\ Untouched' /\ NothingHeld'
  <2>1. /\ pc' \notin {"targets", "initial", "done", "cascade"}
        /\ failed' \subseteq failed \cup (Running \cap Edge)
    BY <1>1
  <2> QED BY <1>1, <1>5, <1>6, <2>1, UnchangedPlan
<1>9. HandedOnce'
  <2>1. ToSet(ready) \subseteq Edge /\ Running \subseteq Edge
    BY <1>2 DEF TypeOK, ToSet, Running, Pending
  <2>2. lost = {} =>
          /\ \A x \in ToSet(ready) : x \notin {finishing'} \cup failed' /\ Wanted(x)'
          /\ \A x \in Running' : x \notin {finishing'} \cup failed' /\ Wanted(x)'
    BY <1>1, <1>2, <1>5, <2>1 DEF Accounts, HandedOnce
  <2>3. /\ HandedOnce /\ \A t \in Slot : jobs'[t] \in {jobs[t], NoEdge}
        /\ lost' = lost /\ pc' # "phony"
        /\ IsInjective(ready) => IsInjective(ready')
        /\ \A x \in ToSet(ready') : x \in ToSet(ready) \/ (x \notin Taken' /\ Wanted(x)')
    BY <1>1 DEF Accounts
  <2> QED BY <2>2, <2>3, HandedOnceKept
<1> QED BY <1>7, <1>8, <1>9 DEF Accounts

---------------------------------------------------------------------------
(* The theorems *)

(* Before the first target nothing is planned, queued or running.          *)
LEMMA InitSInv == Init => SInv
<1> SUFFICES ASSUME Init PROVE Accounts
  BY DEF SInv
<1>1. /\ want = [e \in Edge |-> Absent] /\ ready = << >>
      /\ delayed = [p \in Pool |-> << >>] /\ currentUse = [p \in Pool |-> 0]
      /\ agenda = << >> /\ lost = {} /\ unscheduled = {}
      /\ jobs = [s \in Slot |-> NoEdge] /\ finishing = NoEdge /\ failed = {}
      /\ pc = "targets" /\ NoEdge \notin Edge
  BY GraphTyped DEF Init
<1>2. ToSet(<< >>) = {} /\ IsInjective(<< >>)
  BY DEF ToSet, IsInjective
<1>3. Pending = {} /\ Running = {}
  BY <1>1 DEF Pending, Running
<1>4. Queued = {}
  BY <1>1, <1>2 DEF Queued
<1>5. Held \cap Edge = {}
  BY <1>1, <1>3, <1>4 DEF Held, Scheduled
<1>6. PlannedUnready /\ HeldWanted /\ LeftReady /\ NothingHeld
  BY <1>1, <1>5 DEF PlannedUnready, Planned, HeldWanted, LeftReady, NothingHeld
<1>7. Untouched
  BY <1>1, <1>2 DEF Untouched, Startable
<1>8. DelayedOnce
  BY <1>1, <1>2 DEF DelayedOnce
<1>9. SlotsHeld
  <2>1. \A p \in Pool : SlotHolders(p) = {}
    BY <1>1, <1>2, <1>3 DEF SlotHolders
  <2>2. SlotsFreedAgain = 0
    <3>1. {x \in failed : ~Planned(x)} = {} /\ failed = {}
      BY <1>1
    <3>2. failuresAllowed = FailuresAllowed /\ FailuresAllowed \in Int
      BY BuilderConstants DEF Init
    <3> QED BY <3>1, <3>2, FS_EmptySet DEF SlotsFreedAgain, Failures
  <2>3. \A p \in Pool : currentUse[p] = 0 /\ Cardinality(SlotHolders(p)) = 0
    BY <1>1, <2>1, FS_EmptySet
  <2> QED BY <2>2, <2>3 DEF SlotsHeld
<1>10. HandedOnce
  BY <1>1, <1>2, <1>3 DEF HandedOnce
<1> QED BY <1>6, <1>7, <1>8, <1>9, <1>10 DEF Accounts

(* Every step keeps the accounts. *)
LEMMA SInvPreserved == IInv /\ LInv /\ SInv /\ [Next]_vars => SInv'
<1> SUFFICES ASSUME IInv, LInv, SInv, [Next]_vars, pc' # "done" PROVE Accounts'
  BY DEF SInv
<1>1. IInv'
  BY IInvPreserved
<1>2. CASE UNCHANGED vars
  <2>1. /\ UNCHANGED <<want, ready, delayed, currentUse, lost, outputs_ready, jobs,
                       finishing, failed, failuresAllowed, pc, agenda, unscheduled>>
    BY <1>2 DEF vars, planVars
  <2>2. TypeOK /\ Accounts
    BY <2>1 DEF IInv, SInv
  <2>3. Untouched'
    BY <2>1, <2>2 DEF Accounts, Untouched, Startable, Held, Scheduled, Queued, Running, Pending
  <2> QED BY <2>1, <2>2, <2>3, QuietStep
<1>3. ASSUME Next PROVE Accounts'
  <2>1. CASE pc = "done"
    <3>1. pc' = "done"
      BY <1>3, <2>1 DEF Next, AddTarget, AddTargetFails, BeginBuild, ScheduleInitialEdge,
         RetrieveInitial, EnterLoop, LoopHead, StartCommand, StartCommandFails, StartPhony,
         FinishPhony, Cascade, PhonyDone, StopStarting, CommandSucceeds, RestatGivesUp,
         StatFails,
         CommandFails, GiveBack, SecondNotice, Interrupt, RecordCommand, RecordFails, GiveUp,
         Done, vars
    <3> QED BY <3>1
  <2>2. CASE pc # "done"
    <3>0. Accounts
      BY <2>2 DEF SInv
    <3>1. ASSUME NEW n \in Node, AddTarget(n) PROVE Accounts'
      BY <1>1, <3>0, <3>1, AddTargetAccounts
    <3>2. CASE BeginBuild \/ EnterLoop \/ LoopHead \/ PhonyDone \/ StopStarting
      BY <1>1, <3>0, <3>2, MovingAccounts
    <3>3. ASSUME NEW e \in Edge, ScheduleInitialEdge(e) PROVE Accounts'
      BY <3>0, <3>3, ScheduleInitialEdgeAccounts
    <3>4. ASSUME NEW p \in Pool, RetrieveInitial(p) PROVE Accounts'
      BY <3>0, <3>4, RetrieveInitialAccounts
    <3>5. ASSUME NEW e \in Edge, NEW s \in Slot, StartCommand(e, s) PROVE Accounts'
      BY <1>1, <3>0, <3>5, TakeAccounts
    <3>6. ASSUME NEW e \in Edge, StartPhony(e) PROVE Accounts'
      BY <1>1, <3>0, <3>6, TakeAccounts
    <3>7. CASE FinishPhony
      BY <1>1, <3>0, <3>7, FinishPhonyAccounts
    <3>8. CASE Cascade
      BY <1>1, <3>0, <3>8, CascadeAccounts
    <3>9. ASSUME NEW s \in Slot, CommandSucceeds(s) PROVE Accounts'
      BY <1>1, <3>0, <3>9, CommandSucceedsAccounts
    <3>10. ASSUME NEW s \in Slot, CommandFails(s) PROVE Accounts'
      BY <1>1, <3>0, <3>10, CommandFailsAccounts
    <3>11. CASE RecordCommand
      BY <1>1, <3>0, <3>11, RecordCommandAccounts
    <3>12. CASE Returns
      <4>1. pc' = "done"
        BY <3>12 DEF Returns, AddTargetFails, StartCommandFails, RestatGivesUp, StatFails,
                     SecondNotice, Interrupt, RecordFails, GiveUp, Return
      <4> QED BY <4>1
    <3> QED BY <1>3, <2>2, <3>1, <3>2, <3>3, <3>4, <3>5, <3>6, <3>7, <3>8, <3>9, <3>10, <3>11,
               <3>12 DEF Next, Returns, Done
  <2> QED BY <2>1, <2>2
<1> QED BY <1>2, <1>3

(* The three invariants together hold in every state.                      *)
LEMMA SlotInvariance == Spec => [](IInv /\ LInv /\ SInv)
<1>1. Init => IInv /\ LInv /\ SInv
  BY InitIInv, InitLInv, InitSInv
<1>2. IInv /\ LInv /\ SInv /\ [Next]_vars => (IInv /\ LInv /\ SInv)'
  BY IInvPreserved, LInvPreserved, SInvPreserved
<1> QED BY <1>1, <1>2, PTL DEF Spec

(* No slot of a pool leaks, and only a completion of an edge that had      *)
(* failed before frees one again: through duplicate results, failures and  *)
(* dropped edges the slots in use are those of the queued, running and     *)
(* lost edges of the pool, less at most one for each such completion       *)
(* (Pool.EdgeScheduled and EdgeFinished, plan.go).                         *)
THEOREM NoSlotLeaks == Spec => []SlotsAccounted
BY SlotInvariance, SInvImplies, PTL

(* FindWork hands an edge out a second time only when Pop has dropped      *)
(* another one (plan.go FindWork, the queue of one edge being the one that *)
(* is not disturbed).                                                      *)
THEOREM NoSecondStart == Spec => OnceUnlessLost
<1>1. IInv /\ SInv /\ [Next]_vars =>
        [\A e \in Edge, s \in Slot : Starts(e, s) /\ StartedBefore(e) => lost' # {}]_vars
  <2> SUFFICES ASSUME IInv, SInv, Next, NEW e \in Edge, NEW s \in Slot,
                      Starts(e, s), StartedBefore(e), lost' = {}
               PROVE  FALSE
    OBVIOUS
  <2>1. jobs[s] = NoEdge /\ jobs'[s] = e /\ NoEdge \notin Edge
    BY GraphTyped DEF Starts
  <2>2. jobs \in [Slot -> Edge \cup {NoEdge}]
    BY DEF IInv, TypeOK
  <2>3. ~\E t \in Slot : jobs' = [jobs EXCEPT ![t] = NoEdge]
    BY <2>1, <2>2
  <2>4. jobs' # jobs /\ jobs' # [t \in Slot |-> NoEdge]
    BY <2>1
  <2>5. \E x \in Edge, t \in Slot : StartCommand(x, t)
    BY <2>3, <2>4 DEF Next, AddTarget, AddTargetFails, BeginBuild, ScheduleInitialEdge,
       RetrieveInitial, EnterLoop, LoopHead, StartCommandFails, StartPhony,
       FinishPhony, Cascade, PhonyDone, StopStarting, CommandSucceeds, RestatGivesUp, StatFails,
       CommandFails, GiveBack, SecondNotice, Interrupt, RecordCommand, RecordFails, GiveUp,
       Return, Done, vars
  <2>6. PICK x \in Edge, t \in Slot : StartCommand(x, t)
    BY <2>5
  <2>7. /\ pc = "start" /\ FindWork(x) /\ jobs' = [jobs EXCEPT ![t] = x]
    BY <2>6 DEF StartCommand
  <2>8. x = e
    BY <2>1, <2>2, <2>7
  <2>9. e \in ToSet(ready) /\ lost = {}
    <3>1. ready \in Seq(Edge) /\ ready # << >> /\ x = Head(ready) /\ lost \subseteq lost'
      BY <2>7 DEF FindWork, IInv, TypeOK
    <3> QED BY <2>8, <3>1, ToSetHeadTail
  <2>10. e \notin Running \cup failed /\ Wanted(e)
    BY <2>7, <2>9 DEF SInv, Accounts, HandedOnce
  <2> QED BY <2>10 DEF StartedBefore, Planned, Wanted, Absent, ToStart, ToFinish
<1> QED BY <1>1, SlotInvariance, PTL DEF OnceUnlessLost, Spec

---------------------------------------------------------------------------
(* The graph *)

(* A set of edges has one that takes no input from the others.             *)
LEMMA LowestEdge ==
  ASSUME NEW T \in SUBSET Edge, T # {}
  PROVE  \E m \in T : Producers[m] \cap T = {}
<1>1. PICK rank \in [Edge -> 0 .. Cardinality(Edge)] :
        \A e \in Edge : \A f \in Producers[e] : rank[f] < rank[e]
  BY Acyclic
<1> DEFINE ranks == {rank[x] : x \in T}
           R == OpToRel(<, Nat)
<1>2. IsWellFoundedOn(R, Nat)
  BY NatLessThanWellFounded
<1>3. Cardinality(Edge) \in Nat
  BY GraphTyped, FS_CardinalityType
<1>4. \A x \in Edge : rank[x] \in Nat
  BY <1>1, <1>3
<1>5. ranks \subseteq Nat /\ ranks # {}
  BY <1>4
<1>6. \A i, j \in Nat : <<i, j>> \in R <=> i < j
  BY DEF OpToRel
<1> HIDE DEF R
<1>7. \E r \in ranks : \A q \in ranks : ~ (<<q, r>> \in R)
  <2> HIDE DEF ranks
  <2> QED BY <1>2, <1>5, WFMin
<1>8. PICK m \in T : \A x \in T : ~ (<<rank[x], rank[m]>> \in R)
  BY <1>7
<1>9. ASSUME NEW f \in Producers[m] \cap T PROVE FALSE
  <2>1. rank[f] < rank[m] /\ rank[f] \in Nat /\ rank[m] \in Nat
    BY <1>1, <1>4
  <2> QED BY <1>6, <1>8, <2>1
<1> QED BY <1>9

(* A closure holds its roots and what follows on its edges.                *)
LEMMA ClosureCloses ==
  ASSUME NEW roots \in SUBSET Edge, NEW next \in [Edge -> SUBSET Edge]
  PROVE  /\ roots \subseteq Closure(roots, next)
         /\ \A x \in Closure(roots, next) : x \in Edge /\ next[x] \subseteq Closure(roots, next)
BY DEF Closure

(* The edges upstream of one are closed upwards.                           *)
LEMMA UpstreamCloses ==
  ASSUME NEW e \in Edge
  PROVE  /\ Upstream[e] \subseteq Edge
         /\ \A x \in {e} \cup Upstream[e] : Producers[x] \subseteq Upstream[e]
<1>1. Producers \in [Edge -> SUBSET Edge] /\ Producers[e] \in SUBSET Edge
  BY DEF Producers
<1>2. Upstream[e] = Closure(Producers[e], Producers)
  BY DEF Upstream
<1> QED BY <1>1, <1>2, ClosureCloses

(* A planned node is made by an edge.                                      *)
LEMMA InEdgeIsEdge ==
  ASSUME NEW n \in Node, InEdge[n] # NoEdge
  PROVE  InEdge[n] \in Edge
BY DEF InEdge

---------------------------------------------------------------------------
(* The invariant *)

(* What an edge of the plan needs is in the plan as well, or ready, and so *)
(* is every target that was added.                                         *)
PlanClosed ==
  \A e \in Edge : Planned(e) => \A f \in Producers[e] : Planned(f) \/ outputs_ready[f]
TargetsPlanned ==
  \A n \in Targets \ targets :
    InEdge[n] # NoEdge => Planned(InEdge[n]) \/ outputs_ready[InEdge[n]]

(* There was something to do when the loop was entered, and the count of   *)
(* commands is not lowered.                                                *)
CommandsLeft == pc = "initial" \/ InLoop => command_edges > 0

(* The loop waits for nothing only when nothing can be started.            *)
WaitsWithReason ==
  pc = "wait" /\ Pending = {} /\ failuresAllowed > 0 => ready = << >> \/ ~MoreToDo

OutcomeAtEnd == /\ pc # "done" => outcome = "running"
                /\ pc \notin {"targets", "done"} => targets = {}

EInv == /\ PlanClosed /\ TargetsPlanned /\ CommandsLeft /\ WaitsWithReason /\ OutcomeAtEnd
        /\ BuiltIsBuilt /\ KeepGoing

---------------------------------------------------------------------------
(* The ends of the loop *)

(* When no more is to do no edge of the plan is left.                      *)
LEMMA NothingLeft ==
  ASSUME IInv, SInv, PlanClosed, CommandsLeft, pc = "head", ~MoreToDo
  PROVE  \A e \in Edge : ~Planned(e)
<1> DEFINE T == {e \in Edge : Planned(e)}
<1> SUFFICES ASSUME T # {} PROVE FALSE
  OBVIOUS
<1>1. PICK m \in T : Producers[m] \cap T = {}
  BY LowestEdge
<1>2. Producers[m] \subseteq Edge
  BY DEF Producers
<1>3. InputsReady(m)
  BY <1>1, <1>2 DEF PlanClosed, InputsReady, AllInputsReady
<1>4. m \in Held
  BY <1>1, <1>3 DEF IInv, Phases, Remembered, InLoop, ToSet
<1>5. want[m] # Nothing
  BY <1>4 DEF SInv, Accounts, HeldWanted
<1>6. Wanted(m)
  BY <1>5 DEF IInv, TypeOK, Wants, Wanted, Planned
<1>7. m \in WantedEdges
  BY <1>6 DEF WantedEdges
<1>8. Cardinality(WantedEdges) # 0
  BY <1>7, WantedFinite, FS_EmptySet
<1>9. wanted_edges = Cardinality(WantedEdges) /\ wanted_edges \in Nat /\ command_edges > 0
  BY DEF IInv, TypeOK, WantedCount, WantedEdges, CommandsLeft, InLoop
<1> QED BY <1>8, <1>9 DEF MoreToDo

(* When nothing runs, a wanted edge has something that is blocked upstream.*)
LEMMA SomethingBlocks ==
  ASSUME IInv, SInv, EInv, pc = "wait", Pending = {}, failuresAllowed > 0,
         NEW e \in Edge, Wanted(e)
  PROVE  ({e} \cup Upstream[e]) \cap Blocked # {}
<1> DEFINE T == {x \in {e} \cup Upstream[e] : Planned(x)}
<1>1. T \in SUBSET Edge /\ e \in T
  BY UpstreamCloses DEF Wanted, Planned, Absent, ToStart, ToFinish
<1>2. PICK m \in T : Producers[m] \cap T = {}
  BY <1>1, LowestEdge
<1>3. m \in Edge /\ Planned(m) /\ m \in {e} \cup Upstream[e]
  BY <1>1
<1>4. Producers[m] \subseteq Upstream[e]
  BY <1>3, UpstreamCloses
<1>5. InputsReady(m)
  BY <1>2, <1>3, <1>4 DEF EInv, PlanClosed, InputsReady, AllInputsReady
<1>6. ready = << >>
  <2>1. e \in WantedEdges
    BY DEF WantedEdges
  <2>2. Cardinality(WantedEdges) # 0
    BY <2>1, WantedFinite, FS_EmptySet
  <2>3. wanted_edges = Cardinality(WantedEdges) /\ wanted_edges \in Nat /\ command_edges > 0
    BY DEF IInv, TypeOK, WantedCount, WantedEdges, EInv, CommandsLeft, InLoop
  <2> QED BY <2>2, <2>3 DEF MoreToDo, EInv, WaitsWithReason
<1>7. Running = {} /\ finishing = NoEdge /\ NoEdge \notin Edge /\ ToSet(ready) = {}
  BY <1>6, GraphTyped DEF Running, IInv, Phases, ToSet
<1>8. m \in Held
  BY <1>3, <1>5 DEF IInv, Phases, Remembered, InLoop, ToSet
<1>9. CASE m \in failed \cup lost
  BY <1>3, <1>9 DEF Blocked
<1>10. ASSUME NEW p \in Pool, m \in ToSet(delayed[p]) PROVE m \in Blocked
  <2>1. PoolOf[m] = p /\ Depth[p] > 0 /\ Depth[p] \in Nat
    BY <1>10, GraphTyped DEF SInv, Accounts, DelayedOnce
  <2>2. delayed[p] # << >>
    BY <1>10 DEF ToSet
  <2>3. currentUse[p] = Depth[p]
    BY <2>1, <2>2, IInvImplies DEF PoolsBusy, InLoop
  <2>4. currentUse[p] <= Cardinality(SlotHolders(p))
    BY <2>1 DEF SInv, Accounts, SlotsHeld
  <2>5. SlotHolders(p) # {}
    <3>1. Cardinality(SlotHolders(p)) # 0
      <4>1. SlotHolders(p) \subseteq Edge
        BY DEF SlotHolders
      <4>2. Cardinality(SlotHolders(p)) \in Nat
        BY <4>1, GraphTyped, FS_Subset, FS_CardinalityType
      <4> QED BY <2>1, <2>3, <2>4, <4>2
    <3> QED BY <3>1, FS_EmptySet
  <2>6. \E x \in lost : PoolOf[x] = p
    BY <1>7, <2>5 DEF SlotHolders
  <2> QED BY <1>3, <1>10, <2>1, <2>6 DEF Blocked
<1> QED BY <1>3, <1>7, <1>8, <1>9, <1>10 DEF Held, Scheduled, Queued, Blocked

---------------------------------------------------------------------------
(* The steps of the builder *)

(* addSubTarget plans all that is unready from the target on up.           *)
LEMMA AddTargetPlans ==
  ASSUME IInv, PlanClosed, TargetsPlanned, NEW n \in Node, AddTarget(n)
  PROVE  PlanClosed' /\ TargetsPlanned'
<1> DEFINE roots == {n} \cup {v \in ValidationNodes[n] : InEdge[v] # NoEdge}
           Unready == {e \in Edge : ~outputs_ready[e]}
           first == {InEdge[x] : x \in roots} \cap Unready
           next == [e \in Edge |-> Producers[e] \cap Unready]
           reached == Closure(first, next)
           new == NewlyPlanned(roots)
           toStart == {e \in new : \E o \in Outputs[e] : dirty[o]}
<1>1. /\ want' = [e \in Edge |-> CASE e \in toStart -> ToStart
                                    [] e \in new \ toStart -> Nothing
                                    [] OTHER -> want[e]]
      /\ targets' = targets \ {n} /\ outputs_ready' = outputs_ready
  BY DEF AddTarget, AddSubTargets
<1>2. toStart \subseteq new
  OBVIOUS
<1>3. new = reached \cap {e \in Unready : ~Planned(e)}
  BY DEF NewlyPlanned
<1>4. /\ first \in SUBSET Edge /\ next \in [Edge -> SUBSET Edge]
      /\ \A e \in Edge : next[e] = Producers[e] \cap Unready
  OBVIOUS
<1>5. InEdge[n] \in Edge => outputs_ready[InEdge[n]] \/ InEdge[n] \in first
  OBVIOUS
<1> HIDE DEF first, next
<1>6. first \subseteq reached /\ \A e \in reached : e \in Edge /\ next[e] \subseteq reached
  BY <1>4, ClosureCloses
<1> HIDE DEF roots, reached, new, toStart
<1>7. \A e \in Edge : Planned(e)' <=> Planned(e) \/ e \in new
  BY <1>1, <1>2 DEF Planned, Absent, Nothing, ToStart
<1>8. \A e \in reached : outputs_ready[e] \/ Planned(e)'
  BY <1>3, <1>6, <1>7
<1>9. PlanClosed'
  <2> SUFFICES ASSUME NEW e \in Edge, Planned(e)', NEW f \in Producers[e]
               PROVE  Planned(f)' \/ outputs_ready'[f]
    BY DEF PlanClosed
  <2>1. f \in Edge
    BY DEF Producers
  <2>2. CASE Planned(e)
    BY <1>1, <1>7, <2>1, <2>2 DEF PlanClosed
  <2>3. CASE e \in new
    <3>1. f \in reached \/ outputs_ready[f]
      BY <1>3, <1>4, <1>6, <2>1, <2>3
    <3> QED BY <1>1, <1>8, <3>1
  <2> QED BY <1>7, <2>2, <2>3
<1>10. TargetsPlanned'
  <2> SUFFICES ASSUME NEW t \in Targets \ targets', InEdge[t] # NoEdge
               PROVE  Planned(InEdge[t])' \/ outputs_ready'[InEdge[t]]
    BY DEF TargetsPlanned
  <2>1. InEdge[t] \in Edge
    BY BuilderConstants, InEdgeIsEdge
  <2>2. CASE t = n
    BY <1>1, <1>5, <1>6, <1>8, <2>1, <2>2
  <2>3. CASE t # n
    BY <1>1, <1>7, <2>1, <2>3 DEF TargetsPlanned
  <2> QED BY <2>2, <2>3
<1> QED BY <1>9, <1>10

(* After that an edge leaves the plan only when it is ready.               *)
PlanShrinks ==
  \A e \in Edge : /\ Planned(e)' => Planned(e)
                  /\ Planned(e) => Planned(e)' \/ outputs_ready'[e]

LEMMA FinishShrinks ==
  ASSUME TypeOK, NEW e \in Edge, NEW rest,
         EdgeSucceeded(e, rest) \/ EdgeUnknown(e)
  PROVE  PlanShrinks
BY DEF TypeOK, EdgeSucceeded, EdgeUnknown, PlanShrinks, Planned, Absent

LEMMA StepsShrink ==
  ASSUME IInv, [Next]_vars, \A n \in Node : ~AddTarget(n)
  PROVE  PlanShrinks
<1>0. TypeOK
  BY DEF IInv
<1>1. CASE UNCHANGED want
  BY <1>1 DEF PlanShrinks, Planned
<1>2. ASSUME NEW e \in Edge, ScheduleInitialEdge(e) PROVE PlanShrinks
  <2>1. want[e] = ToStart
    BY <1>2 DEF ScheduleInitialEdge, IInv, Phases
  <2>2. want' \in {want, [want EXCEPT ![e] = ToFinish]}
    BY <1>2 DEF ScheduleInitialEdge, ScheduleInitial, ScheduleWork
  <2> QED BY <1>0, <2>1, <2>2 DEF TypeOK, PlanShrinks, Planned, Absent, ToStart, ToFinish
<1>3. CASE FinishPhony
  <2>1. finishing \in Edge /\ (EdgeSucceeded(finishing, << >>) \/ EdgeUnknown(finishing))
    BY <1>3 DEF FinishPhony, IInv, Phases
  <2> QED BY <1>0, <2>1, FinishShrinks
<1>4. ASSUME NEW s \in Slot, CommandSucceeds(s) PROVE PlanShrinks
  <2>1. jobs[s] \in Edge /\ (EdgeSucceeded(jobs[s], << >>) \/ EdgeUnknown(jobs[s]))
    BY <1>0, <1>4 DEF CommandSucceeds, GiveBack, Given, TypeOK, Pending
  <2> QED BY <1>0, <2>1, FinishShrinks
<1>5. CASE Cascade
  <2>1. EdgeMaybeReady /\ agenda # << >> /\ agenda \in Seq(Edge)
    BY <1>0, <1>5 DEF Cascade, EdgeMaybeReady, TypeOK
  <2>2. PICK e \in Edge : e = Head(agenda)
    BY <2>1, ToSetHeadTail
  <2>3. CASE EdgeSucceeded(e, Tail(agenda))
    BY <1>0, <2>3, FinishShrinks
  <2>4. CASE want[e] = ToStart /\ ScheduleWork(e)
    BY <1>0, <2>4 DEF ScheduleWork, TypeOK, PlanShrinks, Planned, Absent, ToStart, ToFinish
  <2> QED BY <1>1, <2>1, <2>2, <2>3, <2>4 DEF EdgeMaybeReady
<1>6. CASE Returns
  <2>1. UNCHANGED want
    BY <1>6 DEF Returns, AddTargetFails, StartCommandFails, RestatGivesUp, StatFails,
       SecondNotice, Interrupt,
                RecordFails, GiveUp, planVars
  <2> QED BY <1>1, <2>1
<1>7. CASE BeginBuild \/ EnterLoop \/ LoopHead \/ PhonyDone \/ StopStarting \/ RecordCommand
           \/ UNCHANGED vars
  <2>1. UNCHANGED want
    BY <1>7 DEF BeginBuild, EnterLoop, LoopHead, PhonyDone, StopStarting, RecordCommand, vars,
                planVars
  <2> QED BY <1>1, <2>1
<1>8. ASSUME NEW e \in Edge,
             StartPhony(e) \/ (\E s \in Slot : StartCommand(e, s))
      PROVE  PlanShrinks
  BY <1>1, <1>8 DEF StartPhony, StartCommand
<1>9. ASSUME NEW s \in Slot, CommandFails(s) PROVE PlanShrinks
  BY <1>1, <1>9 DEF CommandFails, EdgeFailed, EdgeUnknown
<1>10. ASSUME NEW p \in Pool, RetrieveInitial(p) PROVE PlanShrinks
  BY <1>1, <1>10 DEF RetrieveInitial
<1> QED BY <1>2, <1>3, <1>4, <1>5, <1>6, <1>7, <1>8, <1>9, <1>10 DEF Next, Returns, Done

(* The plan stays closed.                                                  *)
LEMMA PlanStaysClosed ==
  ASSUME IInv, LInv, PlanClosed, TargetsPlanned, [Next]_vars
  PROVE  PlanClosed' /\ TargetsPlanned'
<1>1. ASSUME NEW n \in Node, AddTarget(n) PROVE PlanClosed' /\ TargetsPlanned'
  BY <1>1, AddTargetPlans
<1>2. CASE \A n \in Node : ~AddTarget(n)
  <2>1. PlanShrinks
    BY <1>2, StepsShrink
  <2>2. \A f \in Edge : outputs_ready[f] => outputs_ready'[f]
    BY StepsInOrder DEF InOrder
  <2>3. targets' = targets
    BY <1>2 DEF Next, AddTargetFails, BeginBuild, ScheduleInitialEdge,
       RetrieveInitial, EnterLoop, LoopHead, StartCommand, StartCommandFails, StartPhony,
       FinishPhony, Cascade, PhonyDone, StopStarting, CommandSucceeds, RestatGivesUp, StatFails,
       CommandFails, GiveBack, SecondNotice, Interrupt, RecordCommand, RecordFails, GiveUp,
       Return, Done, vars
  <2>4. PlanClosed'
    <3>1. \A e \in Edge : Producers[e] \subseteq Edge
      BY DEF Producers
    <3> QED BY <2>1, <2>2, <3>1 DEF PlanShrinks, PlanClosed
  <2>5. TargetsPlanned'
    <3>1. \A n \in Targets : InEdge[n] # NoEdge => InEdge[n] \in Edge
      BY BuilderConstants, InEdgeIsEdge
    <3> QED BY <2>1, <2>2, <2>3, <3>1 DEF PlanShrinks, TargetsPlanned
  <2> QED BY <2>4, <2>5
<1> QED BY <1>1, <1>2

(* The loop is entered with something to do.                               *)
LEMMA CommandsStayLeft ==
  ASSUME CommandsLeft, [Next]_vars
  PROVE  CommandsLeft'
<1> SUFFICES ASSUME (pc = "initial" \/ InLoop)' PROVE command_edges' > 0
  BY DEF CommandsLeft
<1>1. CASE BeginBuild
  BY <1>1 DEF BeginBuild, MoreToDo, planVars, InLoop
<1>2. CASE ~BeginBuild
  <2>1. command_edges' = command_edges /\ (pc = "initial" \/ InLoop)
    BY <1>2 DEF Next, AddTarget, AddTargetFails, ScheduleInitialEdge,
       RetrieveInitial, EnterLoop, LoopHead, StartCommand, StartCommandFails, StartPhony,
       FinishPhony, Cascade, PhonyDone, StopStarting, CommandSucceeds, RestatGivesUp, StatFails,
       CommandFails, GiveBack, SecondNotice, Interrupt, RecordCommand, RecordFails, GiveUp,
       Return, Done, vars, planVars,
       InLoop
  <2> QED BY <2>1 DEF CommandsLeft
<1> QED BY <1>1, <1>2

(* It goes on to wait when it has no slot left, when the queue is empty,   *)
(* when there is no more to do, or when the budget is spent.               *)
LEMMA WaitsStayReasoned ==
  ASSUME IInv, WaitsWithReason, [Next]_vars
  PROVE  WaitsWithReason'
<1> SUFFICES ASSUME pc' = "wait", Pending' = {}, failuresAllowed' > 0
             PROVE  ready' = << >> \/ ~MoreToDo'
  BY DEF WaitsWithReason
<1>1. CASE LoopHead
  BY <1>1 DEF LoopHead, IInv, TypeOK
<1>2. CASE PhonyDone
  <2>1. UNCHANGED <<jobs, wanted_edges, command_edges>>
    BY <1>2 DEF PhonyDone, planVars
  <2>2. Pending' = Pending /\ (MoreToDo' <=> MoreToDo)
    BY <2>1 DEF Pending, MoreToDo
  <2> QED BY <1>2, <2>2 DEF PhonyDone
<1>3. CASE StopStarting
  <2>1. UNCHANGED <<jobs, ready>> /\ (~CanRunMore \/ ready = << >>)
    BY <1>3 DEF StopStarting, planVars
  <2>2. CanRunMore
    BY <2>1 DEF Pending, Slow, CanRunMore
  <2> QED BY <2>1, <2>2
<1>4. CASE UNCHANGED vars
  <2>1. UNCHANGED <<pc, jobs, failuresAllowed, ready, wanted_edges, command_edges>>
    BY <1>4 DEF vars, planVars
  <2>2. Pending' = Pending /\ (MoreToDo' <=> MoreToDo)
    BY <2>1 DEF Pending, MoreToDo
  <2> QED BY <2>1, <2>2 DEF WaitsWithReason
<1> QED BY <1>1, <1>2, <1>3, <1>4 DEF Next, AddTarget, AddTargetFails, BeginBuild,
       ScheduleInitialEdge, RetrieveInitial, EnterLoop, StartCommand, StartCommandFails,
       StartPhony, FinishPhony, Cascade, CommandSucceeds, RestatGivesUp, StatFails,
       CommandFails, GiveBack, SecondNotice, Interrupt, RecordCommand, RecordFails, GiveUp,
       Return, Done

(* The outcome is set when Build returns.                                  *)
LEMMA OutcomeStays ==
  ASSUME OutcomeAtEnd, [Next]_vars
  PROVE  OutcomeAtEnd'
BY DEF OutcomeAtEnd, Next, AddTarget, AddTargetFails, BeginBuild, ScheduleInitialEdge,
       RetrieveInitial, EnterLoop, LoopHead, StartCommand, StartCommandFails, StartPhony,
       FinishPhony, Cascade, PhonyDone, StopStarting, CommandSucceeds, RestatGivesUp, StatFails,
       CommandFails, GiveBack, SecondNotice, Interrupt, RecordCommand, RecordFails, GiveUp,
       Return, Done, vars

(* The only steps that end the build as the two properties speak of it.    *)
LEMMA Endings ==
  ASSUME OutcomeAtEnd, pc # "done", Next
  PROVE  /\ outcome' = "built" => LoopHead /\ ~MoreToDo
         /\ outcome' \in {"failed", "stuck"} => GiveUp
BY DEF OutcomeAtEnd, Next, AddTarget, AddTargetFails, BeginBuild, ScheduleInitialEdge,
       RetrieveInitial, EnterLoop, LoopHead, StartCommand, StartCommandFails, StartPhony,
       FinishPhony, Cascade, PhonyDone, StopStarting, CommandSucceeds, RestatGivesUp, StatFails,
       CommandFails, GiveBack, SecondNotice, Interrupt, RecordCommand, RecordFails, GiveUp,
       Return, Done, vars

(* Nothing changes once Build has returned.                                *)
LEMMA DoneForGood == pc = "done" /\ [Next]_vars => UNCHANGED vars
BY DEF Next, AddTarget, AddTargetFails, BeginBuild, ScheduleInitialEdge,
       RetrieveInitial, EnterLoop, LoopHead, StartCommand, StartCommandFails, StartPhony,
       FinishPhony, Cascade, PhonyDone, StopStarting, CommandSucceeds, RestatGivesUp, StatFails,
       CommandFails, GiveBack, SecondNotice, Interrupt, RecordCommand, RecordFails, GiveUp, Done

(* Both properties say something of the end only.                          *)
LEMMA EndKeeps ==
  ASSUME BuiltIsBuilt, KeepGoing, UNCHANGED vars
  PROVE  BuiltIsBuilt' /\ KeepGoing'
<1>1. UNCHANGED <<outcome, outputs_ready, failuresAllowed, want, failed, lost, delayed>>
  BY DEF vars, planVars
<1> QED BY <1>1 DEF BuiltIsBuilt, KeepGoing, Blocked, Wanted

(* When the loop ends the plan is empty, so that the targets are ready.    *)
LEMMA BuiltAtEnd ==
  ASSUME IInv, SInv, EInv, [Next]_vars
  PROVE  BuiltIsBuilt'
<1>1. CASE pc = "done" \/ UNCHANGED vars
  BY <1>1, DoneForGood, EndKeeps DEF EInv
<1>2. CASE pc # "done" /\ Next
  <2> SUFFICES ASSUME outcome' = "built", NEW n \in Targets, InEdge[n] # NoEdge
               PROVE  outputs_ready'[InEdge[n]]
    BY DEF BuiltIsBuilt
  <2>1. LoopHead /\ ~MoreToDo
    BY <1>2, Endings DEF EInv
  <2>2. pc = "head" /\ outputs_ready' = outputs_ready /\ targets = {}
    BY <2>1 DEF LoopHead, planVars, EInv, OutcomeAtEnd
  <2>3. InEdge[n] \in Edge
    BY BuilderConstants, InEdgeIsEdge
  <2>4. ~Planned(InEdge[n])
    BY <2>1, <2>2, <2>3, NothingLeft DEF EInv
  <2> QED BY <2>2, <2>4 DEF EInv, TargetsPlanned
<1> QED BY <1>1, <1>2

(* When it gives up, what is still wanted is blocked.                      *)
LEMMA BlockedAtEnd ==
  ASSUME IInv, SInv, EInv, [Next]_vars
  PROVE  KeepGoing'
<1>1. CASE pc = "done" \/ UNCHANGED vars
  BY <1>1, DoneForGood, EndKeeps DEF EInv
<1>2. CASE pc # "done" /\ Next
  <2> SUFFICES ASSUME outcome' \in {"failed", "stuck"}, failuresAllowed' > 0,
                      NEW e \in Edge, Wanted(e)'
               PROVE  ({e} \cup Upstream[e]) \cap Blocked' # {}
    BY DEF KeepGoing, Upstream, Closure, Producers, Inputs
  <2>1. GiveUp
    BY <1>2, Endings DEF EInv
  <2>2. /\ pc = "wait" /\ Pending = {}
        /\ UNCHANGED <<failuresAllowed, want, failed, lost, delayed>>
    BY <2>1 DEF GiveUp, planVars
  <2>3. Blocked' = Blocked /\ Wanted(e)
    BY <2>2 DEF Blocked, Wanted
  <2> QED BY <2>2, <2>3, SomethingBlocks
<1> QED BY <1>1, <1>2

---------------------------------------------------------------------------
(* The theorems *)

LEMMA InitEInv == Init => EInv
<1> SUFFICES ASSUME Init PROVE EInv
  OBVIOUS
<1>1. /\ want = [e \in Edge |-> Absent] /\ pc = "targets" /\ targets = Targets
      /\ outcome = "running"
  BY DEF Init
<1>2. PlanClosed /\ TargetsPlanned
  BY <1>1 DEF PlanClosed, TargetsPlanned, Planned
<1>3. CommandsLeft /\ WaitsWithReason /\ OutcomeAtEnd /\ BuiltIsBuilt /\ KeepGoing
  BY <1>1 DEF CommandsLeft, WaitsWithReason, OutcomeAtEnd, BuiltIsBuilt, KeepGoing, InLoop
<1> QED BY <1>2, <1>3 DEF EInv

LEMMA EInvPreserved == IInv /\ LInv /\ SInv /\ EInv /\ [Next]_vars => EInv'
<1> SUFFICES ASSUME IInv, LInv, SInv, EInv, [Next]_vars PROVE EInv'
  OBVIOUS
<1>1. PlanClosed' /\ TargetsPlanned'
  BY PlanStaysClosed DEF EInv
<1>2. CommandsLeft' /\ WaitsWithReason' /\ OutcomeAtEnd'
  BY CommandsStayLeft, WaitsStayReasoned, OutcomeStays DEF EInv
<1>3. BuiltIsBuilt' /\ KeepGoing'
  BY BuiltAtEnd, BlockedAtEnd
<1> QED BY <1>1, <1>2, <1>3 DEF EInv

LEMMA EndInvariance == Spec => []EInv
<1>1. Init => EInv
  BY InitEInv
<1>2. IInv /\ LInv /\ SInv /\ EInv /\ [Next]_vars => EInv'
  BY EInvPreserved
<1> QED BY <1>1, <1>2, SlotInvariance, PTL DEF Spec

(* When the loop of Build ends because nothing wanted is left              *)
(* (builder.go:115), every target the user asked for is built, although    *)
(* FindWork drops edges and repeats others and results come twice.         *)
THEOREM BuiltMeansBuilt == Spec => []BuiltIsBuilt
<1>1. EInv => BuiltIsBuilt
  BY DEF EInv
<1> QED BY <1>1, EndInvariance, PTL

(* When the loop gives up with budget left (builder.go:167), nothing was   *)
(* left out that could have been done: what is still wanted depends on an  *)
(* edge that failed, that was dropped, or that waits for a slot such an    *)
(* edge holds.                                                             *)
THEOREM StopsOnlyWhenBlocked == Spec => []KeepGoing
<1>1. EInv => KeepGoing
  BY DEF EInv
<1> QED BY <1>1, EndInvariance, PTL
===============================================================================
