------------------------------- MODULE Plan -------------------------------
(***************************************************************************)
(* The build plan (plan.go) with the pools (pool.go) and the ready queue   *)
(* (queue.go) it schedules through.  The operators below are the plan's    *)
(* methods as actions on its variables; module Builder calls them from the *)
(* build loop.                                                             *)
(*                                                                         *)
(* EdgeFinished, nodeFinished and EdgeMaybeReady call each other: finishing*)
(* an edge visits the out edges of its outputs, and an edge nobody wanted  *)
(* finishes in turn.  That recursion is the variable "agenda": the out     *)
(* edges still to be visited, in the order the calls visit them.  A step   *)
(* takes the first one and puts the out edges of an edge that finishes in  *)
(* front of the rest.                                                      *)
(***************************************************************************)
EXTENDS BuildGraph

VARIABLES
  dirty,          \* dirty_ of each node
  outputs_ready,  \* outputs_ready_ of each edge
  want,           \* want_: Absent when the edge is not in the map
  ready,          \* ready_.edges, the slice behind the priority queue
  delayed,        \* delayed edges of each pool
  currentUse,     \* slots in use in each pool
  wanted_edges,   \* wanted_edges_
  command_edges,  \* command_edges_
  agenda,         \* out edges an unfinished call chain still has to visit
  lost            \* history: edges that left ready_ without being returned

(* The scan refuses a cycle before anything is planned (CyclesFound of     *)
(* module Scan), so the edges can be numbered upwards.                     *)
ASSUME Acyclic ==
  \E rank \in [Edge -> 0 .. Cardinality(Edge)] :
    \A e \in Edge : \A f \in Producers[e] : rank[f] < rank[e]

Absent   == "Absent"
Nothing  == "Nothing"
ToStart  == "ToStart"
ToFinish == "ToFinish"

Wants == {Absent, Nothing, ToStart, ToFinish}

Wanted(e)  == want[e] \in {ToStart, ToFinish}
Planned(e) == want[e] # Absent

MutantMoreToDo == wanted_edges > 1 /\ command_edges > 0  \* off by one

MoreToDo == wanted_edges > 0 /\ command_edges > 0

InputsReady(e) == AllInputsReady(e, outputs_ready)

---------------------------------------------------------------------------
(* Adding targets *)

(* The edges addSubTarget enters for the nodes ns: unready edges reached   *)
(* through unready edges, those already in the plan left aside.            *)
NewlyPlanned(ns) ==
  LET Unready == {e \in Edge : ~outputs_ready[e]}
      Unplanned == {e \in Unready : ~Planned(e)}
      unreadyProducers == [e \in Edge |-> Producers[e] \cap Unready]
  IN  Closure({InEdge[n] : n \in ns} \cap Unready, unreadyProducers)
        \cap Unplanned

(* addSubTarget stops at a source file that does not exist, unless only    *)
(* recorded dependencies mention it.                                       *)
MissingSource(ns) ==
  \E n \in ns \cup UNION {Inputs(e) : e \in NewlyPlanned(ns)} :
    InEdge[n] = NoEdge /\ dirty[n] /\ n \notin GeneratedByDepLoader

(* addSubTarget for every node of ns: a new edge is wanted when one of its *)
(* outputs is dirty (the scan marks all of them or none).                  *)
AddSubTargets(ns) ==
  LET new == NewlyPlanned(ns)
      toStart == {e \in new : \E o \in Outputs[e] : dirty[o]}
  IN  /\ want' = [e \in Edge |-> CASE e \in toStart -> ToStart
                                   [] e \in new \ toStart -> Nothing
                                   [] OTHER -> want[e]]
      /\ wanted_edges' = wanted_edges + Cardinality(toStart)
      /\ command_edges' = command_edges + Cardinality(toStart \ Phony)

---------------------------------------------------------------------------
(* Pools *)

MutantAdmitted(p, use, waiting) ==  \* one too many
  IF Depth[p] = 0 \/ Depth[p] < use THEN 0
  ELSE IF Len(waiting) <= Depth[p] - use + 1 THEN Len(waiting) ELSE Depth[p] - use + 1

(* RetrieveReadyEdges lets delayed edges through, first come first served, *)
(* while a slot is free (every edge weighs 1).                             *)
Admitted(p, use, waiting) ==
  IF Depth[p] = 0 \/ Depth[p] <= use THEN 0
  ELSE IF Len(waiting) <= Depth[p] - use THEN Len(waiting) ELSE Depth[p] - use

(* RetrieveReadyEdges on pool p holding "use" slots and the edges waiting. *)
RetrieveReadyEdges(p, use, waiting) ==
  LET k == Admitted(p, use, waiting) IN
  /\ currentUse' = [currentUse EXCEPT ![p] = use + k]
  /\ delayed' = [delayed EXCEPT ![p] = SubSeq(waiting, k + 1, Len(waiting))]
  /\ ready' = ready \o SubSeq(waiting, 1, k)

(* ScheduleWork: straight to the queue, or through a pool with a limit. *)
ScheduleWork(e) ==
  /\ want' = [want EXCEPT ![e] = ToFinish]
  /\ LET p == PoolOf[e] IN
     IF Depth[p] = 0
     THEN ready' = Append(ready, e) /\ UNCHANGED <<delayed, currentUse>>
     ELSE RetrieveReadyEdges(p, currentUse[p], Append(delayed[p], e))

(* The body of ScheduleInitialEdges' loop for one startable edge: an edge  *)
(* of a limited pool is delayed and keeps kWantToStart.                    *)
ScheduleInitial(e) ==
  IF Depth[PoolOf[e]] = 0
  THEN ScheduleWork(e)
  ELSE /\ delayed' = [delayed EXCEPT ![PoolOf[e]] = Append(@, e)]
       /\ UNCHANGED <<want, ready, currentUse>>

---------------------------------------------------------------------------
(* Finishing edges *)

MutantReleaseSlot(e) ==  \* also for an edge that was not wanted
  LET p == PoolOf[e] IN
  RetrieveReadyEdges(
    p, IF Depth[p] # 0 THEN currentUse[p] - 1 ELSE currentUse[p], delayed[p])

(* EdgeFinished first gives the pool its slot back, if e was wanted. *)
ReleaseSlot(e) ==
  LET p == PoolOf[e] IN
  RetrieveReadyEdges(
    p, IF Wanted(e) /\ Depth[p] # 0 THEN currentUse[p] - 1 ELSE currentUse[p],
    delayed[p])

MutantEdgeSucceeded(e, rest) ==  \* counts down for edges nobody wanted
  /\ Planned(e)
  /\ ReleaseSlot(e)
  /\ wanted_edges' = wanted_edges - 1
  /\ want' = [want EXCEPT ![e] = Absent]
  /\ outputs_ready' = [outputs_ready EXCEPT ![e] = TRUE]
  /\ agenda' = Dependents[e] \o rest

(* EdgeFinished(e, kEdgeSucceeded) up to the loop over the outputs. *)
EdgeSucceeded(e, rest) ==
  /\ Planned(e)
  /\ ReleaseSlot(e)
  /\ wanted_edges' = IF Wanted(e) THEN wanted_edges - 1 ELSE wanted_edges
  /\ want' = [want EXCEPT ![e] = Absent]
  /\ outputs_ready' = [outputs_ready EXCEPT ![e] = TRUE]
  /\ agenda' = Dependents[e] \o rest

MutantEdgeFailed(e) ==  \* keeps the slot of a failed edge
  /\ Planned(e)
  /\ UNCHANGED <<ready, delayed, currentUse, wanted_edges, want, outputs_ready,
                 agenda>>

(* EdgeFinished(e, kEdgeFailed): the slot is freed, the plan keeps e. *)
EdgeFailed(e) ==
  /\ Planned(e)
  /\ ReleaseSlot(e)
  /\ UNCHANGED <<wanted_edges, want, outputs_ready, agenda>>

MutantEdgeUnknown(e) ==  \* counts down for an edge that left the plan before
  /\ ~Planned(e)
  /\ wanted_edges' = wanted_edges - 1
  /\ UNCHANGED <<ready, delayed, currentUse, want, outputs_ready, agenda>>

(* EdgeFinished on an edge that left the plan before returns at once. *)
EdgeUnknown(e) ==
  /\ ~Planned(e)
  /\ UNCHANGED <<ready, delayed, currentUse, wanted_edges, want,
                 outputs_ready, agenda>>

(* Lets an edge nobody wanted finish without visiting its out edges. *)
MutantEdgeMaybeReady ==
  /\ agenda # << >>
  /\ LET e == Head(agenda) IN
     \/ /\ InputsReady(e) /\ want[e] = ToStart
        /\ ScheduleWork(e)
        /\ agenda' = Tail(agenda)
        /\ UNCHANGED <<wanted_edges, outputs_ready>>
     \/ /\ ~InputsReady(e) \/ want[e] # ToStart
        /\ agenda' = Tail(agenda)
        /\ UNCHANGED <<ready, delayed, currentUse, wanted_edges, want,
                       outputs_ready>>

(* One iteration of nodeFinished's loop: EdgeMaybeReady on the next out    *)
(* edge, if the plan still has it.                                         *)
EdgeMaybeReady ==
  /\ agenda # << >>
  /\ LET e == Head(agenda) IN
     \/ /\ InputsReady(e) /\ want[e] = ToStart
        /\ ScheduleWork(e)
        /\ agenda' = Tail(agenda)
        /\ UNCHANGED <<wanted_edges, outputs_ready>>
     \/ /\ InputsReady(e) /\ want[e] = Nothing
        /\ EdgeSucceeded(e, Tail(agenda))
     \/ /\ ~InputsReady(e) \/ want[e] \in {Absent, ToFinish}
        /\ agenda' = Tail(agenda)
        /\ UNCHANGED <<ready, delayed, currentUse, wanted_edges, want,
                       outputs_ready>>

---------------------------------------------------------------------------
(* Taking work *)

MutantFindWork(e) ==  \* leaves the edge in the queue
  /\ ready # << >>
  /\ e = Head(ready)
  /\ UNCHANGED <<ready, lost>>

(* FindWork returns the first edge of the slice (Top), but Pop drops the   *)
(* last one.                                                               *)
FindWork(e) ==
  /\ ready # << >>
  /\ e = Head(ready)
  /\ ready' = SubSeq(ready, 1, Len(ready) - 1)
  /\ lost' = lost \cup ({ready[Len(ready)]} \ {e})

(***************************************************************************)
(* CleanNode on the outputs a restat command left unchanged.  They become  *)
(* clean.  The first wanted out edge with only clean regular inputs is     *)
(* given to RecomputeOutputsDirty, which returns FALSE when the outputs    *)
(* are clean; CleanNode takes that for an error and gives up, so the lines *)
(* that would take the edge out of the plan are never reached.             *)
(***************************************************************************)
CleanNodes(ns) == [n \in Node |-> dirty[n] /\ n \notin ns]

CleanNodeGivesUp(ns, stale, depsMissing) ==
  \E x \in Edge :
    /\ Wanted(x) /\ x \notin depsMissing /\ x \notin stale
    /\ Inputs(x) \cap ns # {}
    /\ \A n \in RegularInputs[x] : ~CleanNodes(ns)[n]
===========================================================================
