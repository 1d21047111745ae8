-------------------------------- MODULE Tools --------------------------------
(***************************************************************************)
(* What walks the loaded graph without building it: the clean tools        *)
(* (clean.go), missingdeps (missing_deps.go), the lists of commands and    *)
(* inputs, the targets a command line names (main.go), and the weights of  *)
(* the critical path (plan.go).                                            *)
(*                                                                         *)
(* A manifest is a sequence of edges [ins, outs, phony, generator, deps,   *)
(* files]: deps says that the edge records what it read, files are its     *)
(* depfile and rspfile.  Manifests are acyclic.  Manifests come and go,    *)
(* builds fill the disk and the logs, people write files.                  *)
(***************************************************************************)
EXTENDS Naturals, FiniteSets, SequencesExt

CONSTANTS
  Graph,      \* the manifests there may be
  Node,       \* all their nodes
  Read,       \* what compilers were seen to read: sets of nodes
  Locked,     \* files that cannot be removed
  Root        \* "build.ninja", which missingdeps excepts

VARIABLES
  g,          \* the manifest, edges_
  disk,       \* files there are
  log,        \* outputs in .ninja_log
  deps,       \* .ninja_deps
  user        \* history: the files people wrote last

vars == <<g, disk, log, deps, user>>

Edges == DOMAIN g
Producer(n) == LET P == {e \in Edges : Contains(g[e].outs, n)}
               IN  IF P = {} THEN 0 ELSE CHOOSE e \in P : TRUE
Consumers(n) == {e \in Edges : Contains(g[e].ins, n)}
Outputs(E) == UNION {ToSet(g[e].outs) : e \in E}
Named == Outputs(Edges) \cup UNION {ToSet(g[e].ins) : e \in Edges}
Bound(f, k, x) == [i \in DOMAIN f \cup {k} |-> IF i = k THEN x ELSE f[i]]
Fold(op(_, _), base, s) == FoldLeft(op, base, s)

\* The reference for all walks: edges that must run before an edge.
RECURSIVE Before(_)
Before(e) ==
  LET direct == {Producer(n) : n \in ToSet(g[e].ins)} \ {0}
  IN  direct \cup UNION {Before(d) : d \in direct}

-----------------------------------------------------------------------------
(***************************************************************************)
(* The targets of a command line: none means the defaults, here the roots; *)
(* "n^" means the first output of the first edge that reads n, or what the *)
(* deps log knows to have read it (CollectTarget).                         *)
(***************************************************************************)
RootNodes ==
  FlattenSeq([e \in Edges |-> SelectSeq(g[e].outs, LAMBDA n : Consumers(n) = {})])

FirstOf(S) == CHOOSE x \in S : \A y \in S : x <= y

CollectTarget(n, firstDependent) ==
  IF n \notin Named \cup DOMAIN deps \cup UNION {deps[o] : o \in DOMAIN deps} THEN {}
  ELSE IF ~firstDependent THEN {n}
  ELSE IF Consumers(n) # {} THEN {Head(g[FirstOf(Consumers(n))].outs)}
  ELSE {o \in DOMAIN deps : n \in deps[o]}

(***************************************************************************)
(* computeCriticalPath: sort, then push weights down from the targets.     *)
(***************************************************************************)
RECURSIVE Visit(_, _)
Visit(s, e) ==                                 \* [visited, sorted]
  IF e = 0 \/ e \in s.visited THEN s
  ELSE LET r == Fold(LAMBDA t, n : Visit(t, Producer(n)),
                     [s EXCEPT !.visited = @ \cup {e}], g[e].ins)
       IN  [r EXCEPT !.sorted = Append(@, e)]

Sorted(targets) ==
  Fold(LAMBDA s, n : Visit(s, Producer(n)), [visited |-> {}, sorted |-> << >>], targets).sorted

Cost(e) == IF g[e].phony THEN 0 ELSE 1

CriticalPathWeights(targets) ==
  LET s == Sorted(targets)
      Push(w, e) ==
        Fold(LAMBDA v, n :
               LET p == Producer(n)
               IN  IF p # 0 /\ v[e] + Cost(p) > v[p] THEN [v EXCEPT ![p] = v[e] + Cost(p)] ELSE v,
             w, g[e].ins)
  IN  Fold(Push, [e \in ToSet(s) |-> Cost(e)], Reverse(s))

(***************************************************************************)
(* CommandCollector and PrintCommands: the commands, in an order to run    *)
(* them.  InputsCollector: the nodes read on the way, with a node after    *)
(* what it is made from.  GraphViz.AddTarget draws every edge once.        *)
(***************************************************************************)
Commands(targets) == SelectSeq(Sorted(targets), LAMBDA e : ~g[e].phony)

RECURSIVE VisitNode(_, _)
VisitNode(s, n) ==                             \* [visited, inputs]
  IF Producer(n) = 0 THEN s
  ELSE Fold(LAMBDA t, in :
              IF in \in t.visited THEN t
              ELSE LET r == VisitNode([t EXCEPT !.visited = @ \cup {in}], in)
                   IN  IF Producer(in) # 0 /\ g[Producer(in)].phony THEN r
                       ELSE [r EXCEPT !.inputs = Append(@, in)],
            s, g[Producer(n)].ins)

MutantInputs(targets) ==                       \* a collector for each target
  FlattenSeq([i \in DOMAIN targets |->
                VisitNode([visited |-> {}, inputs |-> << >>], targets[i]).inputs])

Inputs(targets) == Fold(VisitNode, [visited |-> {}, inputs |-> << >>], targets).inputs

RECURSIVE AddTarget(_, _)
AddTarget(s, n) ==                             \* [nodes, edges]
  IF n \in s.nodes THEN s
  ELSE IF Producer(n) \in s.edges \cup {0} THEN [s EXCEPT !.nodes = @ \cup {n}]
  ELSE Fold(AddTarget, [nodes |-> s.nodes \cup {n}, edges |-> s.edges \cup {Producer(n)}],
            g[Producer(n)].ins)

(***************************************************************************)
(* missingdeps: ProcessNode walks the graph; a dependency from the deps    *)
(* log that an edge generates must be reachable through inputs too.        *)
(* PathExistsBetween keeps what it found in adjacency_map_.                *)
(***************************************************************************)
MutantRemember(memo, from, to, found) ==       \* by the first edge alone
  [p \in DOMAIN memo \cup {<<from, e>> : e \in Edges} |-> IF p \in DOMAIN memo THEN memo[p] ELSE found]

Remember(memo, from, to, found) == Bound(memo, <<from, to>>, found)

RECURSIVE PathExistsBetween(_, _, _)
PathExistsBetween(memo, from, to) ==           \* [memo, found]
  IF <<from, to>> \in DOMAIN memo THEN [memo |-> memo, found |-> memo[<<from, to>>]]
  ELSE LET r == Fold(LAMBDA a, n :
                       IF a.found \/ Producer(n) = 0 THEN a
                       ELSE IF Producer(n) = from THEN [a EXCEPT !.found = TRUE]
                       ELSE PathExistsBetween(a.memo, from, Producer(n)),
                     [memo |-> memo, found |-> FALSE], g[to].ins)
       IN  [r EXCEPT !.memo = Remember(@, from, to, r.found)]

ProcessNodeDeps(s, n) ==
  LET to == Producer(n)
      from == {Producer(d) : d \in deps[n] \ {Root}} \ {0}
      r == Fold(LAMBDA a, e : LET q == PathExistsBetween(a.memo, e, to)
                              IN  [memo |-> q.memo, missing |-> a.missing \/ ~q.found],
                [memo |-> s.memo, missing |-> FALSE], SetToSeq(from))
  IN  [s EXCEPT !.memo = r.memo, !.missing = IF r.missing THEN @ \cup {n} ELSE @]

RECURSIVE ProcessNode(_, _)
ProcessNode(s, n) ==                           \* [seen, memo, missing]
  IF Producer(n) = 0 \/ n \in s.seen THEN s
  ELSE LET r == Fold(ProcessNode, [s EXCEPT !.seen = @ \cup {n}], g[Producer(n)].ins)
       IN  IF g[Producer(n)].deps /\ n \in DOMAIN deps THEN ProcessNodeDeps(r, n) ELSE r

NodesMissingDeps(targets) ==
  Fold(ProcessNode, [seen |-> {}, memo |-> [p \in {} |-> FALSE], missing |-> {}], targets).missing

-----------------------------------------------------------------------------
(***************************************************************************)
(* Cleaner.  Remove goes on after a file it cannot remove.                 *)
(***************************************************************************)
Cleaned(files) ==
  /\ disk' = disk \ (files \ Locked)
  /\ user' = user \cap disk'
  /\ UNCHANGED <<g, log, deps>>

EdgeFiles(E) == Outputs(E) \cup UNION {g[e].files : e \in E}

CleanAll ==
  \E generator \in BOOLEAN :
    Cleaned(EdgeFiles({e \in Edges : ~g[e].phony /\ (g[e].generator => generator)}))

\* DoCleanTarget goes through cleaned_; only the outputs it meets are removed.
RECURSIVE DoCleanTarget(_, _)
DoCleanTarget(s, n) ==                         \* [cleaned, files]
  IF Producer(n) = 0 THEN [s EXCEPT !.cleaned = @ \cup {n}]
  ELSE LET e == Producer(n)
           own == IF g[e].phony THEN {} ELSE {n} \cup g[e].files
           r == Fold(LAMBDA t, in : IF in \in t.cleaned THEN t ELSE DoCleanTarget(t, in),
                     [s EXCEPT !.files = @ \cup own], g[e].ins)
       IN  [r EXCEPT !.cleaned = @ \cup {n}]

CleanTargets ==
  \E t \in Named : Cleaned(DoCleanTarget([cleaned |-> {}, files |-> {}], t).files)

CleanRules == \E e \in Edges : Cleaned(EdgeFiles({e}))

MutantDead(n) == Producer(n) = 0               \* read, but not produced

Dead(n) == Producer(n) = 0 /\ Consumers(n) = {}
CleanDead == Cleaned({n \in log : Dead(n)})

(***************************************************************************)
(* The world: a build, another manifest, a file written by hand.           *)
(***************************************************************************)
Upstream(n) == {n} \cup Outputs(Before(Producer(n)))

BuildAll ==
  LET made == {e \in Edges : ~g[e].phony}
      with == {e \in made : g[e].deps}
  IN  /\ disk' = disk \cup EdgeFiles(made)
      /\ log' = log \cup Outputs(made)
      /\ user' = user \ EdgeFiles(made)
      /\ \E read \in Read :
              deps' = [o \in DOMAIN deps \cup Outputs(with) |->
                        IF o \in Outputs(with) THEN read ELSE deps[o]]
      /\ UNCHANGED g

NewManifest == g' \in Graph /\ UNCHANGED <<disk, log, deps, user>>

WriteFile ==
  /\ \E n \in Node \ Outputs(Edges) : disk' = disk \cup {n} /\ user' = user \cup {n}
  /\ UNCHANGED <<g, log, deps>>

Init ==
  /\ g \in Graph /\ disk = {} /\ user = {}
  /\ log = {} /\ deps = [o \in {} |-> {}]

Next ==
  \/ CleanAll \/ CleanTargets \/ CleanRules \/ CleanDead
  \/ BuildAll \/ NewManifest \/ WriteFile

Spec == Init /\ [][Next]_vars

-----------------------------------------------------------------------------
(***************************************************************************)
(* No clean tool takes a file somebody wrote that the manifest reads,      *)
(* although the logs it works from are those of other manifests too        *)
(* (clean.go:152).                                                         *)
(***************************************************************************)
SourcesKept ==
  [][\A n \in user : Consumers(n) # {} /\ Producer(n) = 0 => n \in disk']_vars

Targets == {<<n>> : n \in Outputs(Edges)} \cup {RootNodes, Reverse(RootNodes)}

(***************************************************************************)
(* missingdeps names exactly the targets whose recorded dependencies no    *)
(* chain of inputs reaches, whatever it found out before                   *)
(* (missing_deps.go:241).                                                  *)
(***************************************************************************)
MissingDepsFound ==
  \A t \in Targets :
    NodesMissingDeps(t) =
      {n \in Outputs(Edges) \cap DOMAIN deps :
         /\ \E x \in ToSet(t) : n = x \/ \E e \in Before(Producer(x)) \cup {Producer(x)} :
                                            Contains(g[e].ins, n)
         /\ g[Producer(n)].deps
         /\ \E d \in deps[n] \ {Root} :
              Producer(d) # 0 /\ Producer(d) \notin Before(Producer(n))}

(***************************************************************************)
(* The lists of commands and inputs can be worked through from the front,  *)
(* and name each once; the weight of an edge is the number of commands on  *)
(* the longest chain from it to a target (plan.go:228).                    *)
(***************************************************************************)
RECURSIVE Chain(_, _)
Chain(E, e) ==
  LET above == {c \in E : \E n \in ToSet(g[e].outs) : Contains(g[c].ins, n)}
  IN  Cost(e) + IF above = {} THEN 0
                ELSE CHOOSE m \in {Chain(E, c) : c \in above} :
                       \A c \in above : Chain(E, c) <= m

OrderedByDependency ==
  \A t \in Targets :
    LET c == Commands(t)
        i == Inputs(t)
        w == CriticalPathWeights(t)
    IN  /\ \A k \in DOMAIN c, j \in DOMAIN c : c[j] \in Before(c[k]) => j < k
        /\ IsInjective(i)
        /\ \A k \in DOMAIN i, j \in DOMAIN i :
             Producer(i[k]) # 0 /\ Producer(i[j]) \in Before(Producer(i[k])) => j < k
        /\ \A e \in DOMAIN w : w[e] = Chain(DOMAIN w, e)
=============================================================================
