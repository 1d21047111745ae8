---------------------------- MODULE BuildGraph ----------------------------
(***************************************************************************)
(* The static build graph of one ninja invocation, as the manifest parser  *)
(* and the deps loader leave it (state.go, node.go, edge.go, pool.go), and *)
(* what the dirtiness scan (scan.go) promises to the planner about it.     *)
(*                                                                         *)
(* An Edge is one build statement, a Node one file.  The graph is given by *)
(* constants; the marks that change during a build (dirty_ of a node,      *)
(* outputs_ready_ of an edge) are variables of the modules that use it.    *)
(***************************************************************************)
EXTENDS Naturals, Integers, FiniteSets, SequencesExt

CONSTANTS
  Edge,             \* the build statements
  Node,             \* the files
  Pool,             \* the pools, the default pool among them
  NoEdge,           \* stands for a nil *Edge
  RegularInputs,    \* [Edge -> SUBSET Node]: explicit and implicit inputs
  OrderOnlyInputs,  \* [Edge -> SUBSET Node]: inputs after "||"
  Outputs,          \* [Edge -> SUBSET Node]
  Dependents,       \* [Edge -> Seq(Edge)]: out_edges_ of the outputs, in order
  Validations,      \* [Edge -> SUBSET Node]: inputs after "|@"
  PoolOf,           \* [Edge -> Pool]
  Depth,            \* [Pool -> Nat]: 0 means no limit
  Phony,            \* the edges of the built-in rule "phony"
  GeneratedByDepLoader, \* nodes the manifest does not mention: only
                    \* recorded dependencies do
  Restat            \* the edges whose rule sets restat = 1

Inputs(e) == RegularInputs[e] \cup OrderOnlyInputs[e]

(* in_edge() of a node: the edge that makes it, NoEdge for a source file. *)
InEdge == [n \in Node |->
  IF \E e \in Edge : n \in Outputs[e]
  THEN CHOOSE e \in Edge : n \in Outputs[e]
  ELSE NoEdge]

(* The edges that make the inputs of an edge. *)
Producers == [e \in Edge |-> {f \in Edge : Outputs[f] \cap Inputs(e) # {}}]

(* AllInputsReady of edge.go, given the outputs_ready_ marks.  (Here and    *)
(* elsewhere an operator named Mutant... is a faulty variant of the one it *)
(* precedes, on which the properties are tried.)                           *)
AllInputsReady(e, outputsReady) == \A f \in Producers[e] : outputsReady[f]

(* The least set of edges that holds roots and is closed under next. *)
Closure(roots, next) ==
  LET Closed == {S \in SUBSET Edge :
                   roots \subseteq S /\ \A x \in S : next[x] \subseteq S}
  IN  {e \in Edge : \A S \in Closed : e \in S}

(* From an edge the scan goes on to the edges of its inputs and, once the  *)
(* walk is over, to those of its validation nodes.                         *)
ScannedFrom == [e \in Edge |->
  {f \in Edge : Outputs[f] \cap (Inputs(e) \cup Validations[e]) # {}}]

(* The edges RecomputeDirty(n) visits. *)
Scanned == [n \in Node |-> Closure({InEdge[n]} \ {NoEdge}, ScannedFrom)]

(* The validation nodes RecomputeDirty(n) hands back to the builder. *)
ValidationNodes == [n \in Node |-> UNION {Validations[e] : e \in Scanned[n]}]

(***************************************************************************)
(* The contract between the scan and the plan.  "stale" holds the edges    *)
(* RecomputeOutputsDirty finds out of date on their own account (output    *)
(* missing or older than an input, command changed, no log entry),         *)
(* "depsMissing" those whose recorded dependencies could not be loaded.    *)
(***************************************************************************)
EdgeDirty(e, dirty, stale, depsMissing) ==
  \/ e \in stale \cup depsMissing
  \/ \E n \in RegularInputs[e] : dirty[n]

(* What the scan of an edge leaves on the edge and on its outputs. *)
KeepsContract(e, dirty, outputsReady, stale, depsMissing) ==
  LET isDirty == EdgeDirty(e, dirty, stale, depsMissing) IN
  /\ \A o \in Outputs[e] : dirty[o] = isDirty
  /\ outputsReady[e] =
       /\ AllInputsReady(e, outputsReady)
       /\ isDirty => (e \in Phony /\ Inputs(e) = {})

(* The part of it about nodes, which leaves TLC fewer marks of edges to try. *)
ScanDirties(dirty, stale, depsMissing) ==
  \A e \in Edge : \A o \in Outputs[e] : dirty[o] = EdgeDirty(e, dirty, stale, depsMissing)

ScanContract(dirty, outputsReady, stale, depsMissing) ==
  \A e \in Edge : KeepsContract(e, dirty, outputsReady, stale, depsMissing)

(***************************************************************************)
(* What the parser and State.AddIn/AddOut guarantee about a graph.         *)
(***************************************************************************)
ASSUME GraphTyped ==
  /\ IsFiniteSet(Edge) /\ NoEdge \notin Edge
  /\ RegularInputs \in [Edge -> SUBSET Node]
  /\ OrderOnlyInputs \in [Edge -> SUBSET Node]
  /\ Outputs \in [Edge -> SUBSET Node]
  /\ Validations \in [Edge -> SUBSET Node]
  /\ Dependents \in [Edge -> Seq(Edge)]
  /\ PoolOf \in [Edge -> Pool]
  /\ Depth \in [Pool -> Nat]
  /\ Phony \subseteq Edge
  /\ GeneratedByDepLoader \subseteq Node
  /\ Restat \subseteq Edge

(* ParseEdge refuses an edge without outputs. *)
ASSUME OutputsNonempty == \A e \in Edge : Outputs[e] # {}

(* AddOut refuses a second edge for the same output. *)
ASSUME OneProducer ==
  \A e, f \in Edge : Outputs[e] \cap Outputs[f] # {} => e = f

(* AddIn registers every edge with each of its inputs. *)
ASSUME DependentsAreConsumers ==
  \A e, x \in Edge : x \in ToSet(Dependents[e]) <=> e \in Producers[x]
===========================================================================
