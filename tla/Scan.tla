-------------------------------- MODULE Scan --------------------------------
(***************************************************************************)
(* The dirtiness scan (scan.go, with LoadDeps of graph.go and Stat of      *)
(* node.go): a depth-first walk from each target that stats files, loads   *)
(* the recorded dependencies of the edges it enters, refuses cycles, and   *)
(* leaves on every edge and node the marks the plan works from.            *)
(*                                                                         *)
(* RecomputeNodeDirty calls itself for the inputs of an edge; the calls in *)
(* progress are the variable "stack".  Files, log entries and deps records *)
(* get a value when the scan first reads them.  The inputs of an edge are  *)
(* visited in any order.  Left out: dyndep (the parser stops at an edge    *)
(* with a dyndep binding), and a nil build log, which only tests use.      *)
(***************************************************************************)
EXTENDS BuildGraph

CONSTANTS
  HasDeps,      \* edges with a deps binding: LoadDepsFromLog
  HasDepfile,   \* edges with only a depfile: LoadDepFile
  Generator,    \* edges whose rule sets generator = 1
  Discovered,   \* [Edge -> SUBSET Node]: the inputs only the deps log knows
  MainOutput,   \* [Edge -> Node]: outputs_[0]
  TargetLists,  \* the sequences of targets a Builder may be given
  MtimesOf,     \* [Node -> SUBSET Nat]: what Stat may return, 0 for no file
  RecordsOf,    \* [Edge -> SUBSET Int]: mtime of the deps record, or NoRecord
  EntriesOf,    \* [Node -> SUBSET LogEntry]: what LookupByOutput may return
  MaxRescans    \* bound on State.Reset followed by another scan

NoRecord == -1
NoInput  == -1  \* mostRecentInput == nil

(* found: the log has an entry; same: its command hash is that of today. *)
LogEntry == [found : BOOLEAN, same : BOOLEAN, mtime : Nat]
NoEntry  == [found |-> FALSE, same |-> FALSE, mtime |-> 0]

VARIABLES
  mark,           \* mark_ of each edge
  stack,          \* calls in progress: a node and the inputs still to visit
  queue,          \* nodes of RecomputeDirty: the target, then validations
  targets,        \* targets not yet scanned
  handedBack,     \* validationNodes given back to AddTarget, over all targets
  loaded,         \* edges whose inputs_ hold the discovered inputs
  deps_missing,   \* deps_missing_ of each edge
  outputs_ready,  \* outputs_ready_ of each edge
  dirty,          \* dirty_ of each node
  mtime,          \* mtime_ of each node
  exists,         \* exists_ of each node
  entry,          \* the log entry read for each output
  rescans,        \* State.Reset so far
  record,         \* history: the deps record read for each edge
  pc

fileVars == <<mtime, exists>>
vars == <<mark, stack, queue, targets, handedBack, loaded, deps_missing,
          outputs_ready, dirty, fileVars, entry, rescans, record, pc>>

ASSUME ScanConstants ==
  /\ HasDeps \subseteq Edge /\ HasDepfile \subseteq Edge \ HasDeps
  /\ Generator \subseteq Edge
  /\ Discovered \in [Edge -> SUBSET Node]
  /\ \A e \in Edge : Discovered[e] \subseteq RegularInputs[e]
  /\ \A e \in Edge : Discovered[e] # {} => e \in HasDeps
  /\ MainOutput \in [Edge -> Node]
  /\ \A e \in Edge : MainOutput[e] \in Outputs[e]
  /\ MaxRescans \in Nat
  /\ IsFiniteSet(Node) /\ TargetLists \subseteq Seq(Node)
  /\ MtimesOf \in [Node -> SUBSET Nat]
  /\ RecordsOf \in [Edge -> SUBSET (Nat \cup {NoRecord})]
  /\ EntriesOf \in [Node -> SUBSET LogEntry]

---------------------------------------------------------------------------
(* The walk *)

(* inputs_ when "deps" are the edges with discovered inputs, and the part  *)
(* of them before the order-only ones.                                     *)
RegularNow(e, deps) ==
  IF e \in deps THEN RegularInputs[e] ELSE RegularInputs[e] \ Discovered[e]
InputsNow(e, deps) == RegularNow(e, deps) \cup OrderOnlyInputs[e]

Frame == [node : Node, left : SUBSET Node]

(* The call in progress, and the nodes it may be called for next. *)
Top == stack[Len(stack)]
ToVisit ==
  IF stack # << >> THEN Top.left
  ELSE IF queue # << >> THEN {Head(queue)} ELSE {}

(* n is no longer to be visited. *)
StackWithout(n) ==
  IF stack = << >> THEN stack
  ELSE [stack EXCEPT ![Len(stack)].left = @ \ {n}]
QueueWithout == IF stack = << >> THEN Tail(queue) ELSE queue

(* StatIfNecessary on the nodes ns: a value for each not statted before. *)
StatsOf(ns) ==
  LET unknown == {n \in ns : exists[n] = "unknown"} IN
  {m \in [unknown -> UNION {MtimesOf[n] : n \in unknown}] :
     \A n \in unknown : m[n] \in MtimesOf[n]}

Mtime(m)  == [n \in Node |-> IF n \in DOMAIN m THEN m[n] ELSE mtime[n]]
Exists(m) == [n \in Node |->
  IF n \notin DOMAIN m THEN exists[n] ELSE IF m[n] = 0 THEN "missing" ELSE "exists"]

Scanning == pc = "scan"

Init ==
  /\ mark = [e \in Edge |-> "none"]
  /\ stack = << >> /\ queue = << >>
  /\ targets \in TargetLists
  /\ handedBack = {}
  /\ loaded = {} /\ deps_missing = {}
  /\ outputs_ready = [e \in Edge |-> FALSE]
  /\ dirty = [n \in Node |-> FALSE]
  /\ mtime = [n \in Node |-> -1]
  /\ exists = [n \in Node |-> "unknown"]
  /\ entry = [n \in Node |-> NoEntry]
  /\ rescans = 0 /\ record = [e \in Edge |-> NoRecord]
  /\ pc = "scan"

(* AddTarget calls RecomputeDirty for the next target. *)
NextTarget ==
  /\ Scanning /\ stack = << >> /\ queue = << >> /\ targets # << >>
  /\ queue' = <<Head(targets)>>
  /\ targets' = Tail(targets)
  /\ UNCHANGED <<mark, stack, handedBack, loaded, deps_missing, outputs_ready,
                 dirty, fileVars, entry, rescans, record, pc>>

ScanDone ==
  /\ Scanning /\ stack = << >> /\ queue = << >> /\ targets = << >>
  /\ pc' = "done"
  /\ UNCHANGED <<mark, stack, queue, targets, handedBack, loaded, deps_missing,
                 outputs_ready, dirty, fileVars, entry, rescans, record>>

MutantKnown(n) ==  \* takes an edge in progress for a finished one
  IF InEdge[n] = NoEdge THEN exists[n] # "unknown" ELSE mark[InEdge[n]] # "none"

(* The node is known: a source statted before, or an edge done before. *)
Known(n) ==
  IF InEdge[n] = NoEdge THEN exists[n] # "unknown" ELSE mark[InEdge[n]] = "done"

Skip(n) ==
  /\ Scanning /\ n \in ToVisit /\ Known(n)
  /\ stack' = StackWithout(n) /\ queue' = QueueWithout
  /\ UNCHANGED <<mark, targets, handedBack, loaded, deps_missing, outputs_ready,
                 dirty, fileVars, entry, rescans, record, pc>>

(* A node no edge makes is dirty when there is no such file. *)
VisitLeaf(n) ==
  /\ Scanning /\ n \in ToVisit /\ InEdge[n] = NoEdge /\ ~Known(n)
  /\ \E m \in StatsOf({n}) :
       /\ mtime' = Mtime(m) /\ exists' = Exists(m)
       /\ dirty' = [dirty EXCEPT ![n] = m[n] = 0]
  /\ stack' = StackWithout(n) /\ queue' = QueueWithout
  /\ UNCHANGED <<mark, targets, handedBack, loaded, deps_missing, outputs_ready,
                 entry, rescans, record, pc>>

(* VerifyDAG: an edge in progress is reached again.  The node at the end   *)
(* of the cycle takes the place of the one the edge was entered by.        *)
RefuseCycle(n) ==
  /\ Scanning /\ n \in ToVisit
  /\ InEdge[n] # NoEdge /\ mark[InEdge[n]] = "inStack"
  /\ LET i == CHOOSE i \in DOMAIN stack : InEdge[stack[i].node] = InEdge[n]
     IN  stack' = [stack EXCEPT ![i].node = n]
  /\ pc' = "cycle"
  /\ UNCHANGED <<mark, queue, targets, handedBack, loaded, deps_missing,
                 outputs_ready, dirty, fileVars, entry, rescans, record>>

---------------------------------------------------------------------------
(* Entering an edge *)

MutantValidationsOf(e) == << >>  \* handed back, but not scanned

(* The validations_ of an edge, to be scanned when the walk is over. *)
ValidationsOf(e) == SetToSeq(Validations[e])

(* From VerifyDAG to the loop over the inputs.  deps_loaded_ is not kept:  *)
(* it is set and reset together with the mark.                             *)
Push(n, deps, missing) ==
  LET e == InEdge[n] IN
  /\ mark' = [mark EXCEPT ![e] = "inStack"]
  /\ stack' = Append(StackWithout(n), [node |-> n, left |-> InputsNow(e, deps)])
  /\ queue' = QueueWithout \o ValidationsOf(e)
  /\ handedBack' = handedBack \cup Validations[e]
  /\ outputs_ready' = [outputs_ready EXCEPT ![e] = TRUE]
  /\ loaded' = deps
  /\ deps_missing' = IF missing THEN deps_missing \cup {e} ELSE deps_missing \ {e}
  /\ UNCHANGED <<targets, dirty, entry, rescans>>

Enters(n) ==
  Scanning /\ n \in ToVisit /\ InEdge[n] # NoEdge /\ mark[InEdge[n]] = "none"

Enter(n) ==
  /\ Enters(n) /\ InEdge[n] \notin HasDeps \cup HasDepfile
  /\ Push(n, loaded, FALSE)
  /\ UNCHANGED <<fileVars, record, pc>>

MutantDepsValid(rec, m) == rec # NoRecord  \* the output may be newer

(* GetDeps found a record and the output is not newer. *)
DepsValid(rec, m) == rec # NoRecord /\ m <= rec

(* LoadDepsFromLog: with a valid record the discovered inputs join the     *)
(* others; without one, those of an earlier scan stay where they are.      *)
EnterWithDeps(n) ==
  LET e == InEdge[n] IN
  /\ Enters(n) /\ e \in HasDeps
  /\ \E rec \in RecordsOf[e] :
     \E m \in StatsOf(IF rec = NoRecord THEN {} ELSE {MainOutput[e]}) :
       /\ mtime' = Mtime(m) /\ exists' = Exists(m)
       /\ record' = [record EXCEPT ![e] = rec]
       /\ IF DepsValid(rec, Mtime(m)[MainOutput[e]])
          THEN Push(n, loaded \cup {e}, FALSE)
          ELSE Push(n, loaded, TRUE)
  /\ UNCHANGED pc

(* LoadDepFile without a depfile, or with an empty one. *)
EnterWithoutDepfile(n) ==
  /\ Enters(n) /\ InEdge[n] \in HasDepfile
  /\ Push(n, loaded, TRUE)
  /\ UNCHANGED <<fileVars, record, pc>>

(* LoadDepFile with a depfile that parses: the output's path is            *)
(* canonicalized into a nil slice and the index is out of range.           *)
EnterWithDepfile(n) ==
  /\ Enters(n) /\ InEdge[n] \in HasDepfile
  /\ Push(n, loaded, FALSE)
  /\ pc' = "crashed"
  /\ UNCHANGED <<fileVars, record>>

(* A file cannot be statted, or a depfile cannot be read or parsed: the    *)
(* scan returns false from every call, the marks staying as they are.      *)
ReadFails ==
  /\ Scanning
  /\ \/ \E n \in ToVisit :
          \/ InEdge[n] = NoEdge /\ ~Known(n)
          \/ Enters(n) /\ InEdge[n] \in HasDeps \cup HasDepfile
     \/ stack # << >> /\ Top.left = {}
          /\ \E o \in Outputs[InEdge[Top.node]] : exists[o] = "unknown"
  /\ pc' = "failed"
  /\ UNCHANGED <<mark, stack, queue, targets, handedBack, loaded, deps_missing,
                 outputs_ready, dirty, fileVars, entry, rescans, record>>

---------------------------------------------------------------------------
(* Leaving an edge *)

(* The mtime of the most recent clean input, given the mtimes of files.    *)
MostRecent(ins, files) ==
  LET times == {files[i] : i \in {i \in ins : ~dirty[i]}} IN
  IF times = {} THEN NoInput ELSE CHOOSE t \in times : \A u \in times : u <= t

MutantRecomputeOutputDirty(e, o, newest, there, m, log) ==  \* restat unknown
  IF e \in Phony
  THEN InputsNow(e, loaded) = {} /\ Validations[e] = {} /\ ~there
  ELSE \/ ~there \/ m < newest
       \/ log.found /\ ((e \notin Generator /\ ~log.same) \/ log.mtime < newest)
       \/ ~log.found /\ e \notin Generator

(* RecomputeOutputDirty for the output o of e, with the newest input, the  *)
(* output's own state and its log entry.                                   *)
RecomputeOutputDirty(e, o, newest, there, m, log) ==
  IF e \in Phony
  THEN InputsNow(e, loaded) = {} /\ Validations[e] = {} /\ ~there
  ELSE LET usedRestat == e \in Restat /\ log.found IN
       \/ ~there
       \/ ~usedRestat /\ m < newest
       \/ log.found /\ ((e \notin Generator /\ ~log.same) \/ log.mtime < newest)
       \/ ~log.found /\ e \notin Generator

(* UpdatePhonyMtime, called only with an input. *)
PhonyMtime(there, m, newest) == IF ~there /\ newest > m THEN newest ELSE m

MutantSettledMark == "none"  \* the mark is cleared instead of set to done

SettledMark == "done"

(* The rest of RecomputeNodeDirty, once every input has been visited.      *)
(* "files" are the mtimes after the outputs are statted; the log is read   *)
(* only when no input is dirty and the edge is not phony.                  *)
Leave ==
  /\ Scanning /\ stack # << >> /\ Top.left = {}
  /\ LET e == InEdge[Top.node]
         outs == Outputs[e]
         regular == RegularNow(e, loaded)
         byInput == e \in deps_missing \/ \E i \in regular : dirty[i]
         ready == \A f \in Edge :
           Outputs[f] \cap InputsNow(e, loaded) # {} => outputs_ready[f]
     IN
     \E m \in StatsOf(outs) :
     \E log \in [outs -> (UNION {EntriesOf[o] : o \in outs}) \cup {NoEntry}] :
       LET files == Mtime(m)
           there == Exists(m)
           newest == MostRecent(regular, files)
           isDirty == byInput \/ \E o \in outs :
             RecomputeOutputDirty(e, o, newest, there[o] = "exists", files[o], log[o])
       IN
       /\ \A o \in outs :
            log[o] \in IF byInput \/ e \in Phony THEN {NoEntry} ELSE EntriesOf[o]
       /\ exists' = there
       /\ mtime' = [n \in Node |->
            IF n \in outs /\ e \in Phony /\ ~byInput
            THEN PhonyMtime(there[n] = "exists", files[n], newest) ELSE files[n]]
       /\ entry' = [n \in Node |-> IF n \in outs THEN log[n] ELSE entry[n]]
       /\ dirty' = [n \in Node |-> dirty[n] \/ (n \in outs /\ isDirty)]
       /\ outputs_ready' = [outputs_ready EXCEPT ![e] =
            ready /\ (isDirty => e \in Phony /\ InputsNow(e, loaded) = {})]
       /\ mark' = [mark EXCEPT ![e] = SettledMark]
  /\ stack' = SubSeq(stack, 1, Len(stack) - 1)
  /\ UNCHANGED <<queue, targets, handedBack, loaded, deps_missing, rescans,
                 record, pc>>

---------------------------------------------------------------------------
(* Scanning again *)

(* RebuildManifest resets the state when the manifest turned out clean,    *)
(* and the targets are scanned over the same graph, the files and the logs *)
(* changed by the build.  Neither inputs_ nor deps_missing_ is reset.      *)
Reset ==
  /\ pc = "done" /\ rescans < MaxRescans
  /\ mark' = [e \in Edge |-> "none"]
  /\ outputs_ready' = [e \in Edge |-> FALSE]
  /\ dirty' = [n \in Node |-> FALSE]
  /\ mtime' = [n \in Node |-> -1]
  /\ exists' = [n \in Node |-> "unknown"]
  /\ entry' = [n \in Node |-> NoEntry]
  /\ targets' \in TargetLists
  /\ handedBack' = {}
  /\ rescans' = rescans + 1
  /\ record' = [e \in Edge |-> NoRecord]
  /\ pc' = "scan"
  /\ UNCHANGED <<stack, queue, loaded, deps_missing>>

Stopped == pc \in {"done", "failed", "cycle", "crashed"} /\ UNCHANGED vars

Step ==
  \/ NextTarget \/ ScanDone \/ ReadFails \/ Leave
  \/ \E n \in Node :
       \/ Skip(n) \/ VisitLeaf(n) \/ RefuseCycle(n) \/ Enter(n)
       \/ EnterWithDeps(n) \/ EnterWithoutDepfile(n) \/ EnterWithDepfile(n)

Next == Step \/ Reset \/ Stopped

(* The scan is plain sequential code: it takes its next step. *)
Spec == Init /\ [][Next]_vars /\ WF_vars(Step)

---------------------------------------------------------------------------
(* Properties *)

(* Type invariant: the walk's marks, stack, queue and the file states. *)
TypeOK ==
  /\ mark \in [Edge -> {"none", "inStack", "done"}]
  /\ stack \in Seq(Frame) /\ queue \in Seq(Node) /\ targets \in Seq(Node)
  /\ handedBack \subseteq Node
  /\ loaded \subseteq HasDeps /\ deps_missing \subseteq HasDeps \cup HasDepfile
  /\ outputs_ready \in [Edge -> BOOLEAN]
  /\ dirty \in [Node -> BOOLEAN]
  /\ mtime \in [Node -> Nat \cup {-1}]
  /\ exists \in [Node -> {"unknown", "missing", "exists"}]
  /\ \A n \in Node : exists[n] # "unknown" => mtime[n] # -1
  /\ entry \in [Node -> LogEntry]
  /\ rescans \in 0 .. MaxRescans
  /\ record \in [Edge -> Nat \cup {NoRecord}]
  /\ pc \in {"scan", "done", "failed", "cycle", "crashed"}

(* What dependents may compare their outputs with: the mtime of the file,  *)
(* or, for a name that only phony edges make, that of the newest file      *)
(* reached through regular inputs; 0 if there is none.                     *)
NewestBehind[n \in Node] ==
  IF exists[n] = "exists" THEN mtime[n]
  ELSE IF InEdge[n] \notin Phony THEN 0
  ELSE LET times == {NewestBehind[i] : i \in RegularInputs[InEdge[n]]}
       IN  CHOOSE t \in times \cup {0} : \A u \in times : u <= t

(* An edge out of date on its own account, stated without the walk: a      *)
(* file missing; an input newer than the output (than the recorded run,    *)
(* for a restat rule that has one); an input newer than the recorded run;  *)
(* another command than the recorded one, or none recorded, unless the     *)
(* rule is a generator; an alias for nothing that is no file.              *)
OutOfDate(e) ==
  \E o \in Outputs[e] :
    LET recorded == entry[o].found
        NewerThan(t) == \E i \in RegularInputs[e] : NewestBehind[i] > t
    IN
    IF e \in Phony
    THEN exists[o] = "missing" /\ Inputs(e) \cup Validations[e] = {}
    ELSE \/ exists[o] = "missing"
         \/ NewerThan(mtime[o]) /\ ~(recorded /\ e \in Restat)
         \/ recorded /\ NewerThan(entry[o].mtime)
         \/ e \notin Generator /\ (recorded => ~entry[o].same)

(* When the targets are scanned, every edge the scan went through carries  *)
(* what the plan is promised (ScanContract, from which module Builder      *)
(* starts): its outputs are dirty exactly if the edge is out of date, its  *)
(* deps are missing or a regular input is dirty, and it is ready exactly   *)
(* if it and the edges below are clean.  In a second scan after a Reset as *)
(* well (scan.go:147-190, state.go:138).                                   *)
ContractKept ==
  pc = "done" =>
    LET done == {e \in Edge : mark[e] = "done"}
        stale == {e \in done : e \notin deps_missing /\ OutOfDate(e)}
    IN  /\ \A e \in done : KeepsContract(e, dirty, outputs_ready, stale, deps_missing)
        /\ \A n \in Node : InEdge[n] = NoEdge /\ exists[n] # "unknown"
                           => dirty[n] = (exists[n] = "missing")

(* An edge with a deps binding passes for clean only if the deps log had a *)
(* record for it that is no older than its output, and the inputs recorded *)
(* there were looked at (graph.go:41-76).  Otherwise the edge is rebuilt,  *)
(* for the deps of the run that wrote the output are not known.  (A phony  *)
(* output that is no file takes the mtime of an input later.)              *)
CleanMeansDepsKnown ==
  pc = "done" =>
    \A e \in HasDeps : mark[e] = "done" /\ ~dirty[MainOutput[e]] =>
      /\ record[e] # NoRecord
      /\ e \notin Phony => mtime[MainOutput[e]] <= record[e]
      /\ \A n \in Discovered[e] : Known(n) /\ ~dirty[n]

(* The edges S hold a cycle: each has another of them below it. *)
HasCycle(S) ==
  \E C \in (SUBSET S) \ {{}} :
    \A e \in C : \E f \in C : Outputs[f] \cap InputsNow(e, loaded) # {}

(* The scan refuses a graph only for a real cycle, the edges on the stack  *)
(* from where it closes, and accepts no edge that lies on one: recorded    *)
(* deps included, validations left aside (scan.go:86-89, 210).             *)
CyclesFound ==
  /\ pc = "cycle" =>
       \E i \in DOMAIN stack :
         /\ stack[i].node \in InputsNow(InEdge[Top.node], loaded)
         /\ \A j \in i + 1 .. Len(stack) :
              stack[j].node \in InputsNow(InEdge[stack[j - 1].node], loaded)
  /\ pc = "done" => ~HasCycle({e \in Edge : mark[e] = "done"})

(* Nothing is forgotten: when the targets are scanned, the producers of    *)
(* every input and of every validation node of a visited edge are visited, *)
(* and AddTarget was handed every validation node (scan.go:44-52, 90).     *)
NothingForgotten ==
  pc = "done" =>
    \A e \in Edge : mark[e] = "done" =>
      /\ \A n \in InputsNow(e, loaded) \cup Validations[e] : Known(n)
      /\ Validations[e] \subseteq handedBack

(* Every scan ends, whatever the graph: cycles through recorded deps and   *)
(* validations that depend on what they validate included.                 *)
Termination == []<>(pc # "scan")

(* A build with a depfile written by the last one goes on: README.md:114   *)
(* lists depfiles among what is covered, graph.go:110 canonicalizes the    *)
(* path in it.                                                             *)
DepfileIsLoaded == pc # "crashed"
===========================================================================
