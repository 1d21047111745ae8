------------------------------ MODULE ScanProofs ------------------------------
(***************************************************************************)
(* What the scan has looked at when it is done, and what the marks mean    *)
(* that it leaves, for every graph, every list of targets and whatever the *)
(* files and the logs hold.                                                *)
(***************************************************************************)
EXTENDS Scan, SequenceLemmas

---------------------------------------------------------------------------
(* The graph *)

LEMMA GraphFacts ==
  /\ \A e \in Edge : /\ Outputs[e] \in SUBSET Node /\ Validations[e] \in SUBSET Node
                     /\ RegularInputs[e] \in SUBSET Node /\ OrderOnlyInputs[e] \in SUBSET Node
                     /\ Discovered[e] \in SUBSET Node
                     /\ MainOutput[e] \in Outputs[e]
  /\ NoEdge \notin Edge
  /\ \A e \in Edge : \A deps : InputsNow(e, deps) \in SUBSET Node
                               /\ RegularNow(e, deps) \in SUBSET Node
  /\ HasDeps \subseteq Edge /\ HasDepfile \subseteq Edge
<1>1. \A e \in Edge : /\ Outputs[e] \in SUBSET Node /\ Validations[e] \in SUBSET Node
                      /\ RegularInputs[e] \in SUBSET Node /\ OrderOnlyInputs[e] \in SUBSET Node
  BY GraphTyped
<1>2. \A e \in Edge : Discovered[e] \in SUBSET Node /\ MainOutput[e] \in Outputs[e]
  BY ScanConstants
<1> QED BY <1>1, <1>2, GraphTyped, ScanConstants DEF InputsNow, RegularNow

(* An output is made by the one edge that has it.                          *)
LEMMA InEdgeOf ==
  /\ \A n \in Node : InEdge[n] \in Edge \cup {NoEdge}
  /\ \A n \in Node : InEdge[n] # NoEdge => n \in Outputs[InEdge[n]]
  /\ \A e \in Edge : \A n \in Outputs[e] : InEdge[n] = e /\ InEdge[n] # NoEdge
<1>1. \A n \in Node : InEdge[n] = IF \E e \in Edge : n \in Outputs[e]
                                  THEN CHOOSE e \in Edge : n \in Outputs[e] ELSE NoEdge
  BY DEF InEdge
<1>2. ASSUME NEW n \in Node, NEW f \in Edge, n \in Outputs[f]
      PROVE  InEdge[n] = f
  <2>1. InEdge[n] \in Edge /\ n \in Outputs[InEdge[n]]
    BY <1>1, <1>2
  <2> QED BY <1>2, <2>1, OneProducer
<1>3. ASSUME NEW n \in Node PROVE InEdge[n] \in Edge \cup {NoEdge}
  BY <1>1
<1>4. ASSUME NEW n \in Node, InEdge[n] # NoEdge PROVE n \in Outputs[InEdge[n]]
  BY <1>1, <1>4
<1> QED BY <1>2, <1>3, <1>4, GraphFacts

---------------------------------------------------------------------------
(* Stats *)

LEMMA StatsFacts ==
  ASSUME TypeOK, NEW ns \in SUBSET Node, NEW m \in StatsOf(ns)
  PROVE  /\ Mtime(m) \in [Node -> Nat \cup {-1}]
         /\ Exists(m) \in [Node -> {"unknown", "missing", "exists"}]
         /\ \A n \in Node : exists[n] # "unknown" =>
              Mtime(m)[n] = mtime[n] /\ Exists(m)[n] = exists[n]
         /\ \A n \in Node \ ns : Mtime(m)[n] = mtime[n] /\ Exists(m)[n] = exists[n]
         /\ \A n \in ns : Exists(m)[n] # "unknown"
         /\ \A n \in Node : Exists(m)[n] # "unknown" => Mtime(m)[n] # -1
<1> DEFINE unknown == {n \in ns : exists[n] = "unknown"}
<1>1. DOMAIN m = unknown /\ \A n \in unknown : m[n] \in MtimesOf[n]
  BY DEF StatsOf
<1>2. \A n \in unknown : m[n] \in Nat
  BY <1>1, ScanConstants
<1>3. \A n \in Node : Mtime(m)[n] = IF n \in unknown THEN m[n] ELSE mtime[n]
  BY <1>1 DEF Mtime
<1>4. \A n \in Node : Exists(m)[n] =
        IF n \notin unknown THEN exists[n] ELSE IF m[n] = 0 THEN "missing" ELSE "exists"
  BY <1>1 DEF Exists
<1>5. Mtime(m) \in [Node -> Nat \cup {-1}]
  BY <1>1, <1>2 DEF Mtime, TypeOK
<1>6. Exists(m) \in [Node -> {"unknown", "missing", "exists"}]
  BY <1>1 DEF Exists, TypeOK
<1>7. \A n \in Node : Exists(m)[n] # "unknown" => Mtime(m)[n] # -1
  <2> SUFFICES ASSUME NEW n \in Node, Exists(m)[n] # "unknown" PROVE Mtime(m)[n] # -1
    OBVIOUS
  <2>1. CASE n \in unknown
    <3>1. Mtime(m)[n] \in Nat
      BY <1>2, <1>3, <2>1
    <3> QED BY <3>1
  <2>2. CASE n \notin unknown
    BY <1>3, <1>4, <2>2 DEF TypeOK
  <2> QED BY <2>1, <2>2
<1> QED BY <1>3, <1>4, <1>5, <1>6, <1>7

(* MostRecent for any marks of the inputs.                                 *)
NewestOf(R, files, marks) ==
  LET times == {files[i] : i \in {i \in R : ~marks[i]}} IN
  IF times = {} THEN NoInput ELSE CHOOSE t \in times : \A u \in times : u <= t

LEMMA NewestTyped ==
  ASSUME NEW R \in SUBSET Node, NEW files \in [Node -> Nat \cup {-1}], NEW marks
  PROVE  LET clean == {i \in R : ~marks[i]}
             new == NewestOf(R, files, marks)
         IN  /\ new \in Nat \cup {-1}
             /\ clean = {} => new = -1
             /\ clean # {} => (\E i \in clean : new = files[i])
             /\ \A i \in clean : files[i] <= new
<1> DEFINE clean == {i \in R : ~marks[i]}
           times == {files[i] : i \in clean}
           f == [i \in clean |-> files[i]]
           new == NewestOf(R, files, marks)
<1>1. IsFiniteSet(clean)
  BY ScanConstants, FS_Subset
<1>2. f \in Surjection(clean, times)
  BY DEF Surjection
<1>3. IsFiniteSet(times)
  <2> HIDE DEF clean, times, f
  <2> QED BY <1>1, <1>2, FS_Surjection
<1>4. times \in SUBSET Int /\ times \subseteq Nat \cup {-1}
  OBVIOUS
<1>5. new = IF times = {} THEN NoInput ELSE CHOOSE t \in times : \A u \in times : u <= t
  BY DEF NewestOf
<1>6. clean = {} <=> times = {}
  OBVIOUS
<1>7. (\A t \in times : \E i \in clean : t = files[i]) /\ \A i \in clean : files[i] \in times
  OBVIOUS
<1> HIDE DEF new, times, clean
<1>8. /\ new \in Nat \cup {-1}
      /\ clean = {} => new = -1
      /\ clean # {} => (\E i \in clean : new = files[i])
      /\ \A i \in clean : files[i] <= new
  <2>1. CASE times = {}
    BY <1>5, <1>6, <2>1 DEF NoInput
  <2>2. CASE times # {}
    <3>1. \E t \in times : \A u \in times : u <= t
      BY <1>3, <1>4, <2>2, GreatestElement
    <3>2. new = CHOOSE t \in times : \A u \in times : u <= t
      BY <1>5, <2>2
    <3>3. new \in times /\ \A u \in times : u <= new
      BY <3>1, <3>2
    <3> QED BY <1>4, <1>6, <1>7, <2>2, <3>3
  <2> QED BY <2>1, <2>2
<1> QED BY <1>8 DEF clean, new

LEMMA MostRecentTyped ==
  ASSUME NEW ins \in SUBSET Node, NEW files \in [Node -> Nat \cup {-1}]
  PROVE  MostRecent(ins, files) \in Nat \cup {-1}
<1>1. MostRecent(ins, files) = NewestOf(ins, files, dirty)
  BY DEF MostRecent, NewestOf
<1> QED BY <1>1, NewestTyped

---------------------------------------------------------------------------
(* The stack of calls *)

(* The edge of a call in progress.                                         *)
EdgeAt(i) == InEdge[stack[i].node]

Typed == TypeOK /\ \A i \in DOMAIN stack : EdgeAt(i) \in Edge

LEMMA StackWithoutFacts ==
  ASSUME stack \in Seq(Frame), NEW n \in Node
  PROVE  LET s == StackWithout(n) IN
         /\ s \in Seq(Frame) /\ Len(s) = Len(stack)
         /\ \A i \in 1 .. Len(stack) : s[i].node = stack[i].node
         /\ \A i \in 1 .. Len(stack) :
              s[i].left = IF i = Len(stack) THEN stack[i].left \ {n} ELSE stack[i].left
<1>1. CASE stack = << >>
  BY <1>1 DEF StackWithout
<1>2. CASE stack # << >>
  <2>1. Len(stack) \in 1 .. Len(stack) /\ stack[Len(stack)] \in Frame
    BY <1>2, EmptySeq
  <2>2. StackWithout(n) = [stack EXCEPT ![Len(stack)].left = @ \ {n}]
    BY <1>2 DEF StackWithout
  <2> DEFINE g == [stack[Len(stack)] EXCEPT !.left = stack[Len(stack)].left \ {n}]
  <2>3. StackWithout(n) = [stack EXCEPT ![Len(stack)] = g]
    BY <2>1, <2>2
  <2>4. g \in Frame /\ g.node = stack[Len(stack)].node /\ g.left = stack[Len(stack)].left \ {n}
    BY <2>1 DEF Frame
  <2> HIDE DEF g
  <2>5. /\ StackWithout(n) \in Seq(Frame) /\ Len(StackWithout(n)) = Len(stack)
        /\ \A i \in 1 .. Len(stack) :
             StackWithout(n)[i] = IF i = Len(stack) THEN g ELSE stack[i]
    <3> DEFINE k == Len(stack)
    <3>1. stack \in [1 .. k -> Frame] /\ k \in Nat /\ k \in 1 .. k
      BY <2>1
    <3>2. [stack EXCEPT ![k] = g] \in [1 .. k -> Frame]
      BY <2>4, <3>1
    <3> QED BY <2>3, <3>1, <3>2
  <2> QED BY <2>4, <2>5
<1> QED BY <1>1, <1>2

(* The stack when the edge of n is entered.                                *)
Pushed(n, f) == Append(StackWithout(n), f)

LEMMA PushedFacts ==
  ASSUME stack \in Seq(Frame), NEW n \in Node, NEW f \in Frame
  PROVE  /\ Pushed(n, f) \in Seq(Frame) /\ Len(Pushed(n, f)) = Len(stack) + 1
         /\ \A i \in 1 .. Len(stack) : Pushed(n, f)[i].node = stack[i].node
         /\ \A i \in 1 .. Len(stack) :
              Pushed(n, f)[i].left = IF i = Len(stack) THEN stack[i].left \ {n} ELSE stack[i].left
         /\ Pushed(n, f)[Len(stack) + 1] = f
<1> DEFINE w == StackWithout(n)
           s == Pushed(n, f)
<1>1. /\ w \in Seq(Frame) /\ Len(w) = Len(stack)
      /\ \A i \in 1 .. Len(stack) : w[i].node = stack[i].node
      /\ \A i \in 1 .. Len(stack) :
           w[i].left = IF i = Len(stack) THEN stack[i].left \ {n} ELSE stack[i].left
  BY StackWithoutFacts
<1>2. s = Append(w, f)
  BY DEF Pushed
<1> HIDE DEF w, s
<1>3. /\ s \in Seq(Frame) /\ Len(s) = Len(w) + 1 /\ s[Len(w) + 1] = f
      /\ \A i \in 1 .. Len(w) : s[i] = w[i]
  BY <1>1, <1>2, AppendProperties
<1> QED BY <1>1, <1>3 DEF s

(* The stack when an edge is left.                                         *)
LEMMA PoppedFacts ==
  ASSUME stack \in Seq(Frame), stack # << >>,
         stack' = SubSeq(stack, 1, Len(stack) - 1)
  PROVE  /\ Len(stack) \in Nat \ {0}
         /\ stack' \in Seq(Frame) /\ Len(stack') = Len(stack) - 1
         /\ \A i \in 1 .. Len(stack) - 1 : stack'[i] = stack[i]
<1>1. Len(stack) \in Nat \ {0}
  BY EmptySeq
<1> DEFINE a == SubSeq(stack, 1, Len(stack) - 1)
<1>2. /\ a \in Seq(Frame) /\ Len(a) = Len(stack) - 1
      /\ \A i \in 1 .. Len(stack) - 1 : a[i] = stack[i]
  <2> DEFINE k == Len(stack) - 1
  <2>1. k \in Nat /\ \A i \in 1 .. k : stack[i] \in Frame
    BY <1>1
  <2>2. a = SubSeq(stack, 1, k)
    OBVIOUS
  <2> HIDE DEF a, k
  <2>3. /\ a \in Seq(Frame) /\ Len(a) = IF 1 <= k THEN k - 1 + 1 ELSE 0
        /\ \A i \in 1 .. k - 1 + 1 : a[i] = stack[1 + i - 1]
    BY <2>1, <2>2, SubSeqProperties
  <2>4. Len(a) = k /\ \A i \in 1 .. k : a[i] = stack[i]
    BY <2>1, <2>3
  <2> QED BY <2>3, <2>4 DEF k
<1>3. stack' = a
  OBVIOUS
<1> QED BY <1>1, <1>2, <1>3

LEMMA QueueWithoutTyped ==
  ASSUME Typed, NEW n \in ToVisit
  PROVE  /\ n \in Node /\ QueueWithout \in Seq(Node)
         /\ ToSet(queue) \subseteq ToSet(QueueWithout) \cup {n}
<1>1. CASE stack # << >>
  <2>1. Len(stack) \in DOMAIN stack /\ Top \in Frame /\ n \in Top.left
    BY <1>1, EmptySeq DEF Typed, TypeOK, Top, ToVisit
  <2> QED BY <1>1, <2>1 DEF QueueWithout, Typed, TypeOK, Frame
<1>2. CASE stack = << >>
  <2>1. queue # << >> /\ n = Head(queue) /\ QueueWithout = Tail(queue) /\ queue \in Seq(Node)
    BY <1>2 DEF ToVisit, QueueWithout, Typed, TypeOK
  <2> QED BY <2>1, ToSetHeadTail
<1> QED BY <1>1, <1>2

LEMMA TopFacts ==
  ASSUME Typed, stack # << >>
  PROVE  /\ Len(stack) \in DOMAIN stack /\ Top = stack[Len(stack)]
         /\ Top.node \in Node /\ Top.left \in SUBSET Node
         /\ InEdge[Top.node] = EdgeAt(Len(stack)) /\ InEdge[Top.node] \in Edge
<1>1. Len(stack) \in DOMAIN stack /\ Top = stack[Len(stack)] /\ Top \in Frame
  BY EmptySeq DEF Typed, TypeOK, Top
<1>2. EdgeAt(Len(stack)) \in Edge
  BY <1>1 DEF Typed
<1> QED BY <1>1, <1>2 DEF Frame, EdgeAt

(* The validations that join the queue.                                    *)
LEMMA ValidationsListed ==
  ASSUME NEW e \in Edge
  PROVE  ValidationsOf(e) \in Seq(Node) /\ ToSet(ValidationsOf(e)) = Validations[e]
<1>1. Validations[e] \in SUBSET Node /\ IsFiniteSet(Validations[e])
  BY GraphFacts, ScanConstants, FS_Subset
<1> QED BY <1>1, SetToSeqLists DEF ValidationsOf

---------------------------------------------------------------------------
(* Type correctness *)

LEMMA InitTyped == Init => Typed
<1> SUFFICES ASSUME Init PROVE Typed
  OBVIOUS
<1>1. stack = << >> /\ queue = << >> /\ targets \in Seq(Node)
  BY ScanConstants DEF Init
<1>2. NoEntry \in LogEntry
  BY DEF NoEntry, LogEntry
<1>3. MaxRescans \in Nat
  BY ScanConstants
<1> QED BY <1>1, <1>2, <1>3 DEF Init, Typed, TypeOK

(* What happens to the nodes leaves the calls well formed.                 *)
LEMMA SkipTyped ==
  ASSUME Typed, NEW n \in Node, Skip(n) \/ VisitLeaf(n)
  PROVE  Typed'
<1>1. n \in ToVisit /\ stack' = StackWithout(n) /\ queue' = QueueWithout
  BY DEF Skip, VisitLeaf
<1>2. queue' \in Seq(Node)
  BY <1>1, QueueWithoutTyped
<1>3. stack' \in Seq(Frame) /\ \A i \in DOMAIN stack' : EdgeAt(i)' \in Edge
  <2>1. stack \in Seq(Frame)
    BY DEF Typed, TypeOK
  <2>2. /\ stack' \in Seq(Frame) /\ Len(stack') = Len(stack)
        /\ \A i \in 1 .. Len(stack) : stack'[i].node = stack[i].node
    BY <1>1, <2>1, StackWithoutFacts
  <2> QED BY <2>1, <2>2 DEF Typed, EdgeAt
<1>4. /\ mtime' \in [Node -> Nat \cup {-1}]
      /\ exists' \in [Node -> {"unknown", "missing", "exists"}]
      /\ dirty' \in [Node -> BOOLEAN]
      /\ \A k \in Node : exists'[k] # "unknown" => mtime'[k] # -1
  <2>1. CASE Skip(n)
    BY <2>1 DEF Skip, fileVars, Typed, TypeOK
  <2>2. CASE VisitLeaf(n)
    <3>1. PICK m \in StatsOf({n}) : /\ mtime' = Mtime(m) /\ exists' = Exists(m)
                                    /\ dirty' = [dirty EXCEPT ![n] = m[n] = 0]
      BY <2>2 DEF VisitLeaf
    <3>2. dirty' \in [Node -> BOOLEAN]
      BY <3>1 DEF Typed, TypeOK
    <3> QED BY <3>1, <3>2, StatsFacts DEF Typed
  <2> QED BY <2>1, <2>2
<1>5. UNCHANGED <<mark, targets, handedBack, loaded, deps_missing, outputs_ready, entry,
                  rescans, record, pc>>
  BY DEF Skip, VisitLeaf
<1> QED BY <1>2, <1>3, <1>4, <1>5 DEF Typed, TypeOK

LEMMA PushTyped ==
  ASSUME Typed, NEW n \in ToVisit, InEdge[n] # NoEdge,
         NEW deps \in SUBSET HasDeps, NEW missing,
         missing => InEdge[n] \in HasDeps \cup HasDepfile,
         Push(n, deps, missing),
         mtime' \in [Node -> Nat \cup {-1}],
         exists' \in [Node -> {"unknown", "missing", "exists"}],
         \A k \in Node : exists'[k] # "unknown" => mtime'[k] # -1,
         record' \in [Edge -> Nat \cup {NoRecord}],
         pc' \in {"scan", "crashed"}
  PROVE  Typed'
<1> DEFINE e == InEdge[n]
<1>1. n \in Node /\ QueueWithout \in Seq(Node)
  BY QueueWithoutTyped
<1>2. e \in Edge
  BY <1>1, InEdgeOf
<1>3. stack' = Append(StackWithout(n), [node |-> n, left |-> InputsNow(e, deps)])
  BY DEF Push
<1>4. stack' \in Seq(Frame) /\ Len(stack') = Len(stack) + 1
      /\ (\A i \in 1 .. Len(stack) : stack'[i].node = stack[i].node)
      /\ stack'[Len(stack) + 1].node = n
  <2> DEFINE f == [node |-> n, left |-> InputsNow(e, deps)]
  <2>1. stack \in Seq(Frame) /\ stack' = Pushed(n, f)
    BY <1>3 DEF Typed, TypeOK, Pushed
  <2>2. f \in Frame /\ f.node = n
    BY <1>1, <1>2, GraphFacts DEF Frame
  <2> HIDE DEF f
  <2>3. n \in Node /\ f \in Frame /\ stack \in Seq(Frame)
    BY <1>1, <2>1, <2>2
  <2>4. stack' \in Seq(Frame) /\ Len(stack') = Len(stack) + 1 /\ stack'[Len(stack) + 1] = f
    BY <2>1, <2>3, PushedFacts
  <2>5. ASSUME NEW i \in 1 .. Len(stack) PROVE stack'[i].node = stack[i].node
    BY <2>1, <2>3, PushedFacts
  <2> QED BY <2>2, <2>4, <2>5
<1>5. \A i \in DOMAIN stack' : EdgeAt(i)' \in Edge
  <2> SUFFICES ASSUME NEW i \in DOMAIN stack' PROVE InEdge[stack'[i].node] \in Edge
    BY DEF EdgeAt
  <2>1. CASE i = Len(stack) + 1
    BY <1>2, <1>4, <2>1
  <2>2. CASE i # Len(stack) + 1
    <3>1. i \in DOMAIN stack /\ stack'[i].node = stack[i].node
      <4>1. Len(stack) \in Nat /\ DOMAIN stack = 1 .. Len(stack)
        BY DEF Typed, TypeOK
      <4>2. DOMAIN stack' = 1 .. Len(stack) + 1
        BY <1>4
      <4> QED BY <1>4, <2>2, <4>1, <4>2
    <3> QED BY <3>1 DEF Typed, EdgeAt
  <2> QED BY <2>1, <2>2
<1>6. queue' \in Seq(Node)
  <2>1. queue' = QueueWithout \o ValidationsOf(e)
    BY DEF Push
  <2> QED BY <1>1, <1>2, <2>1, ValidationsListed, ToSetConcat
<1>7. handedBack' \subseteq Node
  BY <1>2, GraphFacts DEF Push, Typed, TypeOK
<1>8. /\ mark' \in [Edge -> {"none", "inStack", "done"}]
      /\ outputs_ready' \in [Edge -> BOOLEAN]
  BY <1>2 DEF Push, Typed, TypeOK
<1>9. loaded' \subseteq HasDeps /\ deps_missing' \subseteq HasDeps \cup HasDepfile
  BY DEF Push, Typed, TypeOK
<1>10. UNCHANGED <<targets, dirty, entry, rescans>>
  BY DEF Push
<1> QED BY <1>4, <1>5, <1>6, <1>7, <1>8, <1>9, <1>10 DEF Typed, TypeOK

(* However an edge is entered: what is pushed, and what was statted.       *)
EntersEdge(n) ==
  Enter(n) \/ EnterWithDeps(n) \/ EnterWithoutDepfile(n) \/ EnterWithDepfile(n)

LEMMA EnterFacts ==
  ASSUME Typed, NEW n \in Node, EntersEdge(n)
  PROVE  /\ n \in ToVisit /\ pc = "scan" /\ InEdge[n] \in Edge /\ mark[InEdge[n]] = "none"
         /\ \E deps \in {loaded, loaded \cup ({InEdge[n]} \cap HasDeps)} : \E missing \in BOOLEAN :
              /\ Push(n, deps, missing)
              /\ missing => InEdge[n] \in HasDeps \cup HasDepfile
         /\ \E m \in StatsOf({MainOutput[InEdge[n]]}) \cup StatsOf({}) :
              mtime' = Mtime(m) /\ exists' = Exists(m)
         /\ record' \in [Edge -> Nat \cup {NoRecord}]
         /\ \A f \in Edge \ {InEdge[n]} : record'[f] = record[f]
         /\ pc' \in {"scan", "crashed"}
<1> DEFINE e == InEdge[n]
<1>1. Enters(n)
  BY DEF EntersEdge, Enter, EnterWithDeps, EnterWithoutDepfile, EnterWithDepfile
<1>2. n \in ToVisit /\ pc = "scan" /\ e \in Edge /\ mark[e] = "none"
  BY <1>1, InEdgeOf DEF Enters, Scanning
<1>3. CASE Enter(n) \/ EnterWithoutDepfile(n) \/ EnterWithDepfile(n)
  <2>1. \E missing \in BOOLEAN : /\ Push(n, loaded, missing)
                                 /\ missing => e \in HasDeps \cup HasDepfile
    BY <1>3 DEF Enter, EnterWithoutDepfile, EnterWithDepfile
  <2>2. UNCHANGED <<mtime, exists, record>> /\ pc' \in {"scan", "crashed"}
    BY <1>2, <1>3 DEF Enter, EnterWithoutDepfile, EnterWithDepfile, fileVars
  <2>3. \E m \in StatsOf({}) : mtime' = Mtime(m) /\ exists' = Exists(m)
    <3> DEFINE m == [k \in {} |-> 0]
    <3>1. m \in StatsOf({})
      BY DEF StatsOf
    <3>2. Mtime(m) = mtime /\ Exists(m) = exists
      BY DEF Mtime, Exists, Typed, TypeOK
    <3> QED BY <2>2, <3>1, <3>2
  <2> QED BY <1>2, <2>1, <2>2, <2>3 DEF Typed, TypeOK
<1>4. CASE EnterWithDeps(n)
  <2>1. PICK rec \in RecordsOf[e] :
          \E m \in StatsOf(IF rec = NoRecord THEN {} ELSE {MainOutput[e]}) :
            /\ mtime' = Mtime(m) /\ exists' = Exists(m)
            /\ record' = [record EXCEPT ![e] = rec]
            /\ IF DepsValid(rec, Mtime(m)[MainOutput[e]])
               THEN Push(n, loaded \cup {e}, FALSE)
               ELSE Push(n, loaded, TRUE)
    BY <1>4 DEF EnterWithDeps
  <2>2. PICK m \in StatsOf(IF rec = NoRecord THEN {} ELSE {MainOutput[e]}) :
            /\ mtime' = Mtime(m) /\ exists' = Exists(m)
            /\ record' = [record EXCEPT ![e] = rec]
            /\ IF DepsValid(rec, Mtime(m)[MainOutput[e]])
               THEN Push(n, loaded \cup {e}, FALSE)
               ELSE Push(n, loaded, TRUE)
    BY <2>1
  <2>3. e \in HasDeps /\ pc' = "scan" /\ {e} \cap HasDeps = {e}
    BY <1>2, <1>4 DEF EnterWithDeps
  <2>4. \E deps \in {loaded, loaded \cup ({e} \cap HasDeps)} : \E missing \in BOOLEAN :
          Push(n, deps, missing) /\ (missing => e \in HasDeps \cup HasDepfile)
    BY <2>2, <2>3
  <2>5. record' \in [Edge -> Nat \cup {NoRecord}]
    <3>1. rec \in Nat \cup {NoRecord}
      BY <1>2, ScanConstants
    <3> QED BY <2>2, <3>1 DEF Typed, TypeOK
  <2>6. \A f \in Edge \ {e} : record'[f] = record[f]
    BY <2>2 DEF Typed, TypeOK
  <2> QED BY <1>2, <2>2, <2>3, <2>4, <2>5, <2>6
<1> QED BY <1>3, <1>4 DEF EntersEdge

(* The files after an edge was entered.                                    *)
LEMMA EnterStats ==
  ASSUME Typed, NEW n \in Node, EntersEdge(n)
  PROVE  /\ mtime' \in [Node -> Nat \cup {-1}]
         /\ exists' \in [Node -> {"unknown", "missing", "exists"}]
         /\ \A k \in Node : exists'[k] # "unknown" => mtime'[k] # -1
         /\ \A k \in Node : exists[k] # "unknown" => mtime'[k] = mtime[k] /\ exists'[k] = exists[k]
         /\ \A k \in Node \ {MainOutput[InEdge[n]]} :
              mtime'[k] = mtime[k] /\ exists'[k] = exists[k]
<1>1. InEdge[n] \in Edge
  BY EnterFacts
<1>2. MainOutput[InEdge[n]] \in Node
  BY <1>1, GraphFacts
<1>3. PICK ns \in {{}, {MainOutput[InEdge[n]]}} : \E m \in StatsOf(ns) :
        mtime' = Mtime(m) /\ exists' = Exists(m)
  BY EnterFacts
<1>4. ns \in SUBSET Node
  BY <1>2
<1>5. PICK m \in StatsOf(ns) : mtime' = Mtime(m) /\ exists' = Exists(m)
  BY <1>3
<1> QED BY <1>3, <1>4, <1>5, StatsFacts DEF Typed

LEMMA EntersEdgeTyped ==
  ASSUME Typed, NEW n \in Node, EntersEdge(n)
  PROVE  Typed'
<1>1. PICK deps \in {loaded, loaded \cup ({InEdge[n]} \cap HasDeps)} : \E missing \in BOOLEAN :
        /\ Push(n, deps, missing)
        /\ missing => InEdge[n] \in HasDeps \cup HasDepfile
  BY EnterFacts
<1>2. PICK missing \in BOOLEAN :
        /\ Push(n, deps, missing)
        /\ missing => InEdge[n] \in HasDeps \cup HasDepfile
  BY <1>1
<1>3. deps \in SUBSET HasDeps
  BY DEF Typed, TypeOK
<1>4. n \in ToVisit /\ InEdge[n] # NoEdge /\ pc' \in {"scan", "crashed"}
      /\ record' \in [Edge -> Nat \cup {NoRecord}]
  BY EnterFacts, GraphFacts
<1>5. /\ mtime' \in [Node -> Nat \cup {-1}]
      /\ exists' \in [Node -> {"unknown", "missing", "exists"}]
      /\ \A k \in Node : exists'[k] # "unknown" => mtime'[k] # -1
  BY EnterStats
<1> QED BY <1>2, <1>3, <1>4, <1>5, PushTyped
(* What leaving an edge does to the files and the marks.                   *)
LEMMA LeaveFacts ==
  ASSUME Typed, Leave
  PROVE  LET e == InEdge[Top.node] IN
         /\ pc = "scan" /\ stack # << >> /\ Top.left = {} /\ e \in Edge
         /\ stack' = SubSeq(stack, 1, Len(stack) - 1)
         /\ mark' = [mark EXCEPT ![e] = "done"]
         /\ exists' \in [Node -> {"unknown", "missing", "exists"}]
         /\ mtime' \in [Node -> Nat \cup {-1}]
         /\ entry' \in [Node -> LogEntry]
         /\ dirty' \in [Node -> BOOLEAN] /\ outputs_ready' \in [Edge -> BOOLEAN]
         /\ \A n \in Node : exists[n] # "unknown" => exists'[n] = exists[n]
         /\ \A n \in Node : exists[n] # "unknown" /\ ~(n \in Outputs[e] /\ e \in Phony)
                              => mtime'[n] = mtime[n]
         /\ \A n \in Node : exists'[n] # "unknown" => mtime'[n] # -1
         /\ \A n \in Node \ Outputs[e] : dirty'[n] = dirty[n]
         /\ \A o \in Outputs[e] : ~dirty'[o] =>
              e \notin deps_missing /\ \A i \in RegularNow(e, loaded) : ~dirty[i]
         /\ UNCHANGED <<queue, targets, handedBack, loaded, deps_missing, rescans, record, pc>>
<1> DEFINE e == InEdge[Top.node]
           outs == Outputs[e]
           regular == RegularNow(e, loaded)
           byInput == e \in deps_missing \/ \E i \in regular : dirty[i]
           ready == \A f \in Edge :
             Outputs[f] \cap InputsNow(e, loaded) # {} => outputs_ready[f]
<1>1. /\ pc = "scan" /\ stack # << >> /\ Top.left = {} /\ e \in Edge
      /\ outs \in SUBSET Node /\ regular \in SUBSET Node
  BY TopFacts, GraphFacts DEF Leave, Scanning
<1>2. PICK m \in StatsOf(outs) :
     \E log \in [outs -> (UNION {EntriesOf[o] : o \in outs}) \cup {NoEntry}] :
       LET files == Mtime(m)
           there == Exists(m)
           newest == MostRecent(regular, files)
           isDirty == byInput \/ \E o \in outs :
             RecomputeOutputDirty(e, o, newest, there[o] = "exists", files[o], log[o])
       IN
       /\ exists' = there
       /\ mtime' = [n \in Node |->
            IF n \in outs /\ e \in Phony /\ ~byInput
            THEN PhonyMtime(there[n] = "exists", files[n], newest) ELSE files[n]]
       /\ entry' = [n \in Node |-> IF n \in outs THEN log[n] ELSE entry[n]]
       /\ dirty' = [n \in Node |-> dirty[n] \/ (n \in outs /\ isDirty)]
       /\ outputs_ready' = [outputs_ready EXCEPT ![e] =
            ready /\ (isDirty => e \in Phony /\ InputsNow(e, loaded) = {})]
       /\ mark' = [mark EXCEPT ![e] = SettledMark]
  BY DEF Leave
<1>3. PICK log \in [outs -> (UNION {EntriesOf[o] : o \in outs}) \cup {NoEntry}] :
       LET files == Mtime(m)
           there == Exists(m)
           newest == MostRecent(regular, files)
           isDirty == byInput \/ \E o \in outs :
             RecomputeOutputDirty(e, o, newest, there[o] = "exists", files[o], log[o])
       IN
       /\ exists' = there
       /\ mtime' = [n \in Node |->
            IF n \in outs /\ e \in Phony /\ ~byInput
            THEN PhonyMtime(there[n] = "exists", files[n], newest) ELSE files[n]]
       /\ entry' = [n \in Node |-> IF n \in outs THEN log[n] ELSE entry[n]]
       /\ dirty' = [n \in Node |-> dirty[n] \/ (n \in outs /\ isDirty)]
       /\ outputs_ready' = [outputs_ready EXCEPT ![e] =
            ready /\ (isDirty => e \in Phony /\ InputsNow(e, loaded) = {})]
       /\ mark' = [mark EXCEPT ![e] = SettledMark]
  BY <1>2
<1> DEFINE files == Mtime(m)
           newest == MostRecent(regular, files)
           isDirty == byInput \/ \E o \in outs :
             RecomputeOutputDirty(e, o, newest, Exists(m)[o] = "exists", files[o], log[o])
<1>4. /\ exists' = Exists(m)
      /\ mtime' = [n \in Node |->
           IF n \in outs /\ e \in Phony /\ ~byInput
           THEN PhonyMtime(Exists(m)[n] = "exists", files[n], newest) ELSE files[n]]
      /\ entry' = [n \in Node |-> IF n \in outs THEN log[n] ELSE entry[n]]
      /\ dirty' = [n \in Node |-> dirty[n] \/ (n \in outs /\ isDirty)]
      /\ outputs_ready' = [outputs_ready EXCEPT ![e] =
           ready /\ (isDirty => e \in Phony /\ InputsNow(e, loaded) = {})]
      /\ mark' = [mark EXCEPT ![e] = "done"]
  BY <1>3 DEF SettledMark
<1>5. stack' = SubSeq(stack, 1, Len(stack) - 1)
      /\ UNCHANGED <<queue, targets, handedBack, loaded, deps_missing, rescans, record, pc>>
  BY DEF Leave
<1> HIDE DEF outs, regular, ready
<1>6. /\ files \in [Node -> Nat \cup {-1}]
      /\ Exists(m) \in [Node -> {"unknown", "missing", "exists"}]
      /\ \A n \in Node : exists[n] # "unknown" =>
           files[n] = mtime[n] /\ Exists(m)[n] = exists[n]
      /\ \A n \in outs : Exists(m)[n] # "unknown"
      /\ \A n \in Node : Exists(m)[n] # "unknown" => files[n] # -1
  BY <1>1, <1>2, StatsFacts DEF Typed
<1>7. newest \in Nat \cup {-1}
  BY <1>1, <1>6, MostRecentTyped
<1> HIDE DEF files, newest
<1>8. ASSUME NEW n \in Node
      PROVE  /\ mtime'[n] \in Nat \cup {-1}
             /\ exists'[n] # "unknown" => mtime'[n] # -1
             /\ exists[n] # "unknown" /\ ~(n \in outs /\ e \in Phony) => mtime'[n] = mtime[n]
  <2>1. mtime'[n] = IF n \in outs /\ e \in Phony /\ ~byInput
                    THEN PhonyMtime(Exists(m)[n] = "exists", files[n], newest) ELSE files[n]
    BY <1>4
  <2>2. files[n] \in Nat \cup {-1} /\ (Exists(m)[n] # "unknown" => files[n] # -1)
        /\ (exists[n] # "unknown" => files[n] = mtime[n])
    BY <1>6
  <2>3. CASE n \in outs /\ e \in Phony /\ ~byInput
    <3>1. mtime'[n] = files[n] \/ (newest > files[n] /\ mtime'[n] = newest)
      BY <2>1, <2>3 DEF PhonyMtime
    <3>2. files[n] \in Nat
      BY <1>6, <2>2, <2>3
    <3>3. mtime'[n] \in Nat
      BY <1>7, <3>1, <3>2
    <3> QED BY <2>3, <3>3
  <2>4. CASE ~(n \in outs /\ e \in Phony /\ ~byInput)
    <3>1. mtime'[n] = files[n]
      BY <2>1, <2>4
    <3> QED BY <1>4, <2>2, <2>4, <3>1
  <2> QED BY <2>3, <2>4
<1>9. mtime' \in [Node -> Nat \cup {-1}]
  <2>1. mtime' = [n \in Node |-> mtime'[n]]
    BY <1>4
  <2> QED BY <1>8, <2>1
<1> HIDE DEF isDirty
<1>10. entry' \in [Node -> LogEntry]
  <2>1. \A o \in outs : log[o] \in LogEntry
    <3>1. \A o \in outs : EntriesOf[o] \subseteq LogEntry
      BY <1>1, ScanConstants
    <3>2. NoEntry \in LogEntry
      BY DEF NoEntry, LogEntry
    <3> QED BY <3>1, <3>2
  <2> QED BY <1>1, <1>4, <2>1 DEF Typed, TypeOK
<1>11. dirty' \in [Node -> BOOLEAN] /\ outputs_ready' \in [Edge -> BOOLEAN]
  <2>1. dirty' \in [Node -> BOOLEAN]
    BY <1>4, Zenon
  <2>2. (ready /\ (isDirty => e \in Phony /\ InputsNow(e, loaded) = {})) \in BOOLEAN
    BY Zenon
  <2> QED BY <1>1, <1>4, <2>1, <2>2 DEF Typed, TypeOK
<1>12. \A n \in Node \ outs : dirty'[n] = dirty[n]
  BY <1>4 DEF Typed, TypeOK
<1>13. \A o \in outs : ~dirty'[o] => ~byInput
  BY <1>1, <1>4 DEF isDirty
<1>14. \A n \in Node : exists[n] # "unknown" => exists'[n] = exists[n]
  BY <1>4, <1>6
<1> QED BY <1>1, <1>4, <1>5, <1>6, <1>8, <1>9, <1>10, <1>11, <1>12, <1>13, <1>14
     DEF outs, regular

LEMMA LeaveTyped ==
  ASSUME Typed, Leave
  PROVE  Typed'
<1> DEFINE e == InEdge[Top.node]
<1>1. /\ stack # << >> /\ e \in Edge /\ pc = "scan"
      /\ stack' = SubSeq(stack, 1, Len(stack) - 1)
      /\ mark' = [mark EXCEPT ![e] = "done"]
      /\ exists' \in [Node -> {"unknown", "missing", "exists"}]
      /\ mtime' \in [Node -> Nat \cup {-1}]
      /\ entry' \in [Node -> LogEntry]
      /\ dirty' \in [Node -> BOOLEAN] /\ outputs_ready' \in [Edge -> BOOLEAN]
      /\ \A n \in Node : exists'[n] # "unknown" => mtime'[n] # -1
      /\ UNCHANGED <<queue, targets, handedBack, loaded, deps_missing, rescans, record, pc>>
  BY LeaveFacts
<1>2. stack \in Seq(Frame) /\ Len(stack) \in Nat \ {0}
  BY <1>1, EmptySeq DEF Typed, TypeOK
<1>3. /\ stack' \in Seq(Frame) /\ Len(stack') = Len(stack) - 1
      /\ \A i \in 1 .. Len(stack) - 1 : stack'[i] = stack[i]
  BY <1>1, <1>2, PoppedFacts
<1>4. \A i \in DOMAIN stack' : EdgeAt(i)' \in Edge
  BY <1>2, <1>3 DEF Typed, EdgeAt
<1>5. mark' \in [Edge -> {"none", "inStack", "done"}]
  BY <1>1 DEF Typed, TypeOK
<1> QED BY <1>1, <1>3, <1>4, <1>5 DEF Typed, TypeOK

LEMMA RefuseCycleTyped ==
  ASSUME Typed, NEW n \in Node, RefuseCycle(n),
         \E i \in DOMAIN stack : EdgeAt(i) = InEdge[n]
  PROVE  /\ Typed'
         /\ \E i \in DOMAIN stack :
              /\ EdgeAt(i) = InEdge[n]
              /\ stack' = [stack EXCEPT ![i].node = n]
              /\ Len(stack') = Len(stack) /\ DOMAIN stack' = DOMAIN stack
              /\ stack'[i].node = n
              /\ \A j \in DOMAIN stack : j # i => stack'[j].node = stack[j].node
              /\ \A j \in DOMAIN stack : EdgeAt(j)' = EdgeAt(j)
              /\ \A j \in DOMAIN stack : stack'[j].left = stack[j].left
<1> DEFINE i == CHOOSE i \in DOMAIN stack : InEdge[stack[i].node] = InEdge[n]
<1>1. i \in DOMAIN stack /\ InEdge[stack[i].node] = InEdge[n]
  BY DEF EdgeAt
<1>2. stack' = [stack EXCEPT ![i].node = n] /\ pc' = "cycle"
  BY DEF RefuseCycle
<1> HIDE DEF i
<1> DEFINE f == [stack[i] EXCEPT !.node = n]
<1>3. stack' = [stack EXCEPT ![i] = f] /\ stack \in Seq(Frame) /\ stack[i] \in Frame
  BY <1>1, <1>2 DEF Typed, TypeOK
<1>4. f \in Frame /\ f.node = n /\ f.left = stack[i].left
  BY <1>3 DEF Frame
<1> HIDE DEF f
<1>5. /\ stack' \in Seq(Frame) /\ Len(stack') = Len(stack) /\ DOMAIN stack' = DOMAIN stack
      /\ \A j \in DOMAIN stack : stack'[j] = IF j = i THEN f ELSE stack[j]
  <2> DEFINE k == Len(stack)
  <2>1. stack \in [1 .. k -> Frame] /\ k \in Nat
    BY <1>3
  <2>2. [stack EXCEPT ![i] = f] \in [1 .. k -> Frame]
    BY <1>4, <2>1
  <2> QED BY <1>1, <1>3, <2>1, <2>2
<1>6. \A j \in DOMAIN stack : EdgeAt(j)' = EdgeAt(j)
  BY <1>1, <1>4, <1>5 DEF EdgeAt
<1>7. UNCHANGED <<mark, queue, targets, handedBack, loaded, deps_missing, outputs_ready, dirty,
                  mtime, exists, entry, rescans, record>>
  BY DEF RefuseCycle, fileVars
<1>8. Typed'
  BY <1>2, <1>5, <1>6, <1>7 DEF Typed, TypeOK
<1>9. EdgeAt(i) = InEdge[n]
  BY <1>1 DEF EdgeAt
<1>10. stack'[i].node = n /\ (\A j \in DOMAIN stack : j # i => stack'[j].node = stack[j].node)
  BY <1>1, <1>4, <1>5
<1>11. \A j \in DOMAIN stack : stack'[j].left = stack[j].left
  BY <1>4, <1>5
<1> QED BY <1>1, <1>2, <1>5, <1>6, <1>8, <1>9, <1>10, <1>11

LEMMA ResetTyped ==
  ASSUME Typed, Reset
  PROVE  Typed'
<1>1. rescans' \in 0 .. MaxRescans
  BY ScanConstants DEF Reset, Typed, TypeOK
<1>2. NoEntry \in LogEntry
  BY DEF NoEntry, LogEntry
<1>3. targets' \in Seq(Node)
  BY ScanConstants DEF Reset
<1>4. stack' = stack /\ \A i \in DOMAIN stack' : EdgeAt(i)' \in Edge
  BY DEF Reset, Typed, EdgeAt
<1> QED BY <1>1, <1>2, <1>3, <1>4 DEF Reset, Typed, TypeOK
LEMMA TypedPreserved == Typed /\ [Next]_vars /\
                        (\A n \in Node : RefuseCycle(n) =>
                           \E i \in DOMAIN stack : EdgeAt(i) = InEdge[n]) => Typed'
<1> SUFFICES ASSUME Typed, [Next]_vars,
                    \A n \in Node : RefuseCycle(n) => \E i \in DOMAIN stack : EdgeAt(i) = InEdge[n]
             PROVE  Typed'
  OBVIOUS
<1>1. CASE NextTarget
  <2>1. targets \in Seq(Node) /\ targets # << >>
    BY <1>1 DEF NextTarget, Typed, TypeOK
  <2>2. Head(targets) \in Node /\ Tail(targets) \in Seq(Node)
    BY <2>1, ToSetHeadTail
  <2>3. queue' \in Seq(Node) /\ targets' \in Seq(Node)
    BY <1>1, <2>2 DEF NextTarget
  <2> QED BY <1>1, <2>3 DEF NextTarget, Typed, TypeOK, EdgeAt, fileVars
<1>2. CASE ScanDone
  BY <1>2 DEF ScanDone, Typed, TypeOK, EdgeAt, fileVars
<1>3. CASE ReadFails
  BY <1>3 DEF ReadFails, Typed, TypeOK, EdgeAt, fileVars
<1>4. CASE Leave
  BY <1>4, LeaveTyped
<1>5. CASE \E n \in Node : Skip(n) \/ VisitLeaf(n)
  BY <1>5, SkipTyped
<1>6. CASE \E n \in Node : RefuseCycle(n)
  BY <1>6, RefuseCycleTyped
<1>7. CASE \E n \in Node : EntersEdge(n)
  BY <1>7, EntersEdgeTyped
<1>8. CASE Reset
  BY <1>8, ResetTyped
<1>9. CASE UNCHANGED vars
  BY <1>9 DEF vars, fileVars, Typed, TypeOK, EdgeAt
<1> QED BY <1>1, <1>2, <1>3, <1>4, <1>5, <1>6, <1>7, <1>8, <1>9
     DEF Next, Step, Stopped, EntersEdge

---------------------------------------------------------------------------
(* The walk *)

(* The edges in progress are those of the calls on the stack, each once,   *)
(* and a call has still to visit some of the inputs of its edge.           *)
InProgress ==
  /\ \A i \in DOMAIN stack : /\ mark[EdgeAt(i)] = "inStack"
                             /\ stack[i].left \subseteq InputsNow(EdgeAt(i), loaded)
  /\ \A i, j \in DOMAIN stack : EdgeAt(i) = EdgeAt(j) => i = j
  /\ \A e \in Edge : mark[e] = "inStack" => \E i \in DOMAIN stack : EdgeAt(i) = e

(* Each call was made for an input of the edge below it.                   *)
Chain ==
  pc # "cycle" =>
    \A i \in DOMAIN stack : i + 1 \in DOMAIN stack =>
      stack[i + 1].node \in InputsNow(EdgeAt(i), loaded)

(* An input of an edge in progress is known, still to be visited, or made  *)
(* by the edge above; those of a finished edge are known.                  *)
Visited ==
  /\ \A i \in DOMAIN stack : \A n \in InputsNow(EdgeAt(i), loaded) :
       \/ Known(n) \/ n \in stack[i].left
       \/ i + 1 \in DOMAIN stack /\ InEdge[n] = EdgeAt(i + 1)
  /\ \A e \in Edge : mark[e] = "done" => \A n \in InputsNow(e, loaded) : Known(n)

(* A validation node is known or it is, or its edge is, still to be done.  *)
Handed ==
  \A e \in Edge : mark[e] # "none" =>
    /\ Validations[e] \subseteq handedBack
    /\ \A n \in Validations[e] :
         \/ Known(n) \/ n \in ToSet(queue)
         \/ InEdge[n] # NoEdge /\ mark[InEdge[n]] = "inStack"

AtEnd == pc = "done" => stack = << >> /\ queue = << >>

Walk == Typed /\ InProgress /\ Chain /\ Visited /\ Handed /\ AtEnd

LEMMA InitWalk == Init => Walk
<1> SUFFICES ASSUME Init PROVE Walk
  OBVIOUS
<1>1. stack = << >> /\ pc = "scan" /\ \A e \in Edge : mark[e] = "none"
  BY DEF Init
<1> QED BY <1>1, InitTyped DEF Walk, InProgress, Chain, Visited, Handed, AtEnd

(* A cycle is refused only when the stack has the edge.                    *)
LEMMA CycleOnStack ==
  ASSUME Walk, NEW n \in Node, RefuseCycle(n)
  PROVE  \E i \in DOMAIN stack : EdgeAt(i) = InEdge[n]
<1>1. InEdge[n] \in Edge /\ mark[InEdge[n]] = "inStack"
  BY InEdgeOf DEF RefuseCycle
<1> QED BY <1>1 DEF Walk, InProgress

(* Loading the deps of an edge changes the inputs of no other.             *)
LEMMA OtherInputs ==
  ASSUME NEW f, NEW e, f # e, NEW deps, deps \in {loaded, loaded \cup ({e} \cap HasDeps)}
  PROVE  InputsNow(f, deps) = InputsNow(f, loaded) /\ RegularNow(f, deps) = RegularNow(f, loaded)
BY DEF InputsNow, RegularNow

(* What is known stays known until the state is reset.                     *)
KnownStays == \A k \in Node : Known(k) => Known(k)' /\ dirty'[k] = dirty[k]

LEMMA VisitKnown ==
  ASSUME Typed, NEW n \in Node, Skip(n) \/ VisitLeaf(n)
  PROVE  KnownStays /\ Known(n)'
<1>1. CASE Skip(n)
  BY <1>1 DEF Skip, KnownStays, Known, fileVars
<1>2. CASE VisitLeaf(n)
  <2>1. PICK m \in StatsOf({n}) : /\ mtime' = Mtime(m) /\ exists' = Exists(m)
                                  /\ dirty' = [dirty EXCEPT ![n] = m[n] = 0]
    BY <1>2 DEF VisitLeaf
  <2>2. /\ \A k \in Node : exists[k] # "unknown" => exists'[k] = exists[k]
        /\ exists'[n] # "unknown"
    BY <2>1, StatsFacts DEF Typed
  <2>3. mark' = mark /\ ~Known(n) /\ InEdge[n] = NoEdge
    BY <1>2 DEF VisitLeaf
  <2>4. \A k \in Node : k # n => dirty'[k] = dirty[k]
    BY <2>1 DEF Typed, TypeOK
  <2> QED BY <2>2, <2>3, <2>4 DEF KnownStays, Known
<1> QED BY <1>1, <1>2

LEMMA EnterKnown ==
  ASSUME Typed, NEW n \in Node, EntersEdge(n)
  PROVE  KnownStays
<1>1. InEdge[n] \in Edge /\ mark[InEdge[n]] = "none"
      /\ mark' = [mark EXCEPT ![InEdge[n]] = "inStack"] /\ dirty' = dirty
  BY EnterFacts DEF Push
<1>2. \A k \in Node : exists[k] # "unknown" => exists'[k] = exists[k]
  BY EnterStats
<1>3. \A f \in Edge : mark[f] = "done" => mark'[f] = "done"
  BY <1>1 DEF Typed, TypeOK
<1>4. \A k \in Node : InEdge[k] # NoEdge => InEdge[k] \in Edge
  BY InEdgeOf
<1> QED BY <1>1, <1>2, <1>3, <1>4 DEF KnownStays, Known

LEMMA LeaveKnown ==
  ASSUME Walk, Leave
  PROVE  /\ KnownStays
         /\ \A k \in Node : InEdge[k] = InEdge[Top.node] => Known(k)'
<1> DEFINE e == InEdge[Top.node]
<1>1. /\ e \in Edge /\ mark' = [mark EXCEPT ![e] = "done"] /\ stack # << >>
      /\ \A k \in Node : exists[k] # "unknown" => exists'[k] = exists[k]
      /\ \A k \in Node \ Outputs[e] : dirty'[k] = dirty[k]
  BY LeaveFacts DEF Walk
<1>2. mark[e] = "inStack"
  BY <1>1, TopFacts DEF Walk, InProgress
<1>3. \A f \in Edge : mark[f] = "done" => mark'[f] = "done" /\ f # e
  BY <1>1, <1>2 DEF Walk, Typed, TypeOK
<1>4. mark'[e] = "done" /\ e # NoEdge
  BY <1>1, GraphFacts DEF Walk, Typed, TypeOK
<1>5. \A k \in Node : InEdge[k] # NoEdge => InEdge[k] \in Edge
  BY InEdgeOf
<1>6. ASSUME NEW k \in Node, Known(k) PROVE k \notin Outputs[e]
  <2>1. ASSUME k \in Outputs[e] PROVE FALSE
    <3>1. InEdge[k] = e /\ InEdge[k] # NoEdge
      BY <1>1, <2>1, InEdgeOf
    <3> QED BY <1>2, <1>6, <3>1 DEF Known
  <2> QED BY <2>1
<1>7. KnownStays
  BY <1>1, <1>3, <1>5, <1>6 DEF KnownStays, Known
<1>8. \A k \in Node : InEdge[k] = e => Known(k)'
  BY <1>4 DEF Known
<1> QED BY <1>7, <1>8
(* Going past a node that is known.                                        *)
LEMMA VisitWalk ==
  ASSUME Walk, NEW n \in Node, Skip(n) \/ VisitLeaf(n)
  PROVE  Walk'
<1>1. /\ n \in ToVisit /\ stack' = StackWithout(n) /\ queue' = QueueWithout
      /\ UNCHANGED <<mark, loaded, handedBack, pc>> /\ pc = "scan"
  BY DEF Skip, VisitLeaf, Scanning
<1>2. /\ \A k \in Node : Known(k) => Known(k)'
      /\ Known(n)'
  BY VisitKnown DEF Walk, KnownStays
<1>3. stack \in Seq(Frame) /\ DOMAIN stack = 1 .. Len(stack) /\ Len(stack) \in Nat
  BY DEF Walk, Typed, TypeOK
<1>4. /\ stack' \in Seq(Frame) /\ Len(stack') = Len(stack)
      /\ \A i \in 1 .. Len(stack) : stack'[i].node = stack[i].node
      /\ \A i \in 1 .. Len(stack) :
           stack'[i].left = IF i = Len(stack) THEN stack[i].left \ {n} ELSE stack[i].left
  BY <1>1, <1>3, StackWithoutFacts
<1>5. DOMAIN stack' = DOMAIN stack
  <2>1. DOMAIN stack' = 1 .. Len(stack')
    BY <1>4
  <2> QED BY <1>3, <1>4, <2>1
<1>6. \A i \in DOMAIN stack : EdgeAt(i)' = EdgeAt(i)
  BY <1>3, <1>4 DEF EdgeAt
<1>7. \A i \in DOMAIN stack : stack'[i].left \subseteq stack[i].left
                              /\ stack[i].left \subseteq stack'[i].left \cup {n}
  BY <1>3, <1>4
<1>8. Typed'
  BY SkipTyped DEF Walk
<1>9. InProgress'
  <2>1. \A i \in DOMAIN stack' : /\ mark'[EdgeAt(i)'] = "inStack"
                                 /\ stack'[i].left \subseteq InputsNow(EdgeAt(i)', loaded')
    BY <1>1, <1>5, <1>6, <1>7 DEF Walk, InProgress
  <2>2. \A i, j \in DOMAIN stack' : EdgeAt(i)' = EdgeAt(j)' => i = j
    BY <1>5, <1>6 DEF Walk, InProgress
  <2>3. \A e \in Edge : mark'[e] = "inStack" => \E i \in DOMAIN stack' : EdgeAt(i)' = e
    BY <1>1, <1>5, <1>6 DEF Walk, InProgress
  <2> QED BY <2>1, <2>2, <2>3 DEF InProgress
<1>10. Chain'
  BY <1>1, <1>3, <1>4, <1>5, <1>6 DEF Walk, Chain
<1>11. Visited'
  <2>1. ASSUME NEW i \in DOMAIN stack', NEW k \in InputsNow(EdgeAt(i)', loaded')
        PROVE  \/ Known(k)' \/ k \in stack'[i].left
               \/ i + 1 \in DOMAIN stack' /\ InEdge[k] = EdgeAt(i + 1)'
    <3>1. i \in DOMAIN stack /\ k \in InputsNow(EdgeAt(i), loaded) /\ k \in Node
      BY <1>1, <1>5, <1>6, <2>1, GraphFacts DEF Walk, Typed
    <3>2. \/ Known(k) \/ k \in stack[i].left
          \/ i + 1 \in DOMAIN stack /\ InEdge[k] = EdgeAt(i + 1)
      BY <3>1 DEF Walk, Visited
    <3>3. CASE Known(k)
      BY <1>2, <3>1, <3>3
    <3>4. CASE k \in stack[i].left
      BY <1>2, <1>7, <3>1, <3>4
    <3>5. CASE i + 1 \in DOMAIN stack /\ InEdge[k] = EdgeAt(i + 1)
      BY <1>5, <1>6, <3>5
    <3> QED BY <3>2, <3>3, <3>4, <3>5
  <2>2. \A e \in Edge : mark'[e] = "done" => \A k \in InputsNow(e, loaded') : Known(k)'
    BY <1>1, <1>2, GraphFacts DEF Walk, Visited
  <2> QED BY <2>1, <2>2 DEF Visited
<1>12. Handed'
  <2>1. ToSet(queue) \subseteq ToSet(queue') \cup {n}
    BY <1>1, QueueWithoutTyped DEF Walk
  <2> QED BY <1>1, <1>2, <2>1, GraphFacts DEF Walk, Handed
<1>13. AtEnd'
  BY <1>1 DEF AtEnd
<1> QED BY <1>8, <1>9, <1>10, <1>11, <1>12, <1>13 DEF Walk

(* Entering an edge.                                                       *)
LEMMA EnterWalk ==
  ASSUME Walk, NEW n \in Node, EntersEdge(n)
  PROVE  Walk'
<1> DEFINE e == InEdge[n]
<1>0. PICK k \in Nat : k = Len(stack)
  BY DEF Walk, Typed, TypeOK
<1>1. n \in ToVisit /\ pc = "scan" /\ e \in Edge /\ mark[e] = "none" /\ pc' \in {"scan", "crashed"}
  BY EnterFacts DEF Walk
<1>2. PICK deps \in {loaded, loaded \cup ({e} \cap HasDeps)} : \E missing \in BOOLEAN :
        Push(n, deps, missing)
  BY EnterFacts DEF Walk
<1> DEFINE f == [node |-> n, left |-> InputsNow(e, deps)]
<1>3. /\ mark' = [mark EXCEPT ![e] = "inStack"] /\ loaded' = deps
      /\ queue' = QueueWithout \o ValidationsOf(e)
      /\ handedBack' = handedBack \cup Validations[e]
      /\ stack' = Pushed(n, f)
  BY <1>2 DEF Push, Pushed
<1>4. f \in Frame /\ f.node = n /\ f.left = InputsNow(e, deps)
  BY <1>1, GraphFacts DEF Frame
<1> HIDE DEF f
<1>5. stack \in Seq(Frame) /\ DOMAIN stack = 1 .. k /\ k \in Nat
  BY <1>0 DEF Walk, Typed, TypeOK
<1>6. /\ stack' \in Seq(Frame) /\ Len(stack') = k + 1
      /\ (\A i \in 1 .. k : stack'[i].node = stack[i].node)
      /\ (\A i \in 1 .. k :
           stack'[i].left = IF i = k THEN stack[i].left \ {n} ELSE stack[i].left)
      /\ stack'[k + 1] = f
  <2>1. /\ Pushed(n, f) \in Seq(Frame) /\ Len(Pushed(n, f)) = Len(stack) + 1
        /\ \A i \in 1 .. Len(stack) : Pushed(n, f)[i].node = stack[i].node
        /\ \A i \in 1 .. Len(stack) :
             Pushed(n, f)[i].left = IF i = Len(stack) THEN stack[i].left \ {n} ELSE stack[i].left
        /\ Pushed(n, f)[Len(stack) + 1] = f
    BY <1>4, <1>5, PushedFacts
  <2>2. stack' = Pushed(n, f)
    BY <1>3
  <2> QED BY <1>0, <2>1, <2>2
<1>7. DOMAIN stack' = 1 .. k + 1
  <2>1. DOMAIN stack' = 1 .. Len(stack')
    BY <1>6
  <2> QED BY <1>6, <2>1
<1>8. (\A i \in 1 .. k : EdgeAt(i)' = EdgeAt(i)) /\ EdgeAt(k + 1)' = e
  <2>1. \A i \in 1 .. k : EdgeAt(i)' = EdgeAt(i)
    BY <1>6 DEF EdgeAt
  <2>2. InEdge[stack'[k + 1].node] = e
    BY <1>4, <1>6
  <2> QED BY <2>1, <2>2 DEF EdgeAt
<1>9. \A i \in 1 .. k : /\ mark[EdgeAt(i)] = "inStack" /\ EdgeAt(i) # e
                        /\ stack[i].left \subseteq InputsNow(EdgeAt(i), loaded)
                        /\ EdgeAt(i) \in Edge
  BY <1>1, <1>5 DEF Walk, InProgress, Typed
<1>10. \A g \in Edge : g # e => mark'[g] = mark[g] /\ InputsNow(g, loaded') = InputsNow(g, loaded)
  BY <1>1, <1>2, <1>3, OtherInputs DEF Walk, Typed, TypeOK
<1>11. mark'[e] = "inStack"
  BY <1>1, <1>3 DEF Walk, Typed, TypeOK
<1>12. \A x \in Node : Known(x) => Known(x)'
  BY EnterKnown DEF Walk, KnownStays
<1>13. ASSUME NEW i \in 1 .. k + 1 PROVE i = k + 1 \/ i \in 1 .. k
  BY <1>5
<1>14. Typed'
  BY EntersEdgeTyped DEF Walk
<1> HIDE DEF e
<1>15. InProgress'
  <2>1. ASSUME NEW i \in DOMAIN stack'
        PROVE  /\ mark'[EdgeAt(i)'] = "inStack"
               /\ stack'[i].left \subseteq InputsNow(EdgeAt(i)', loaded')
    <3>1. CASE i = k + 1
      BY <1>3, <1>4, <1>6, <1>8, <1>11, <3>1
    <3>2. CASE i \in 1 .. k
      BY <1>6, <1>8, <1>9, <1>10, <3>2
    <3> QED BY <1>7, <1>13, <3>1, <3>2
  <2>2. ASSUME NEW i \in DOMAIN stack', NEW j \in DOMAIN stack', EdgeAt(i)' = EdgeAt(j)'
        PROVE  i = j
    <3>1. CASE i \in 1 .. k /\ j \in 1 .. k
      BY <1>5, <1>8, <2>2, <3>1 DEF Walk, InProgress
    <3>2. CASE i = k + 1 \/ j = k + 1
      BY <1>7, <1>8, <1>9, <1>13, <2>2, <3>2
    <3> QED BY <1>7, <1>13, <3>1, <3>2
  <2>3. ASSUME NEW g \in Edge, mark'[g] = "inStack"
        PROVE  \E i \in DOMAIN stack' : EdgeAt(i)' = g
    <3>1. CASE g = e
      <4>1. k + 1 \in DOMAIN stack'
        BY <1>5, <1>7
      <4> QED BY <1>8, <3>1, <4>1
    <3>2. CASE g # e
      <4>1. PICK i \in DOMAIN stack : EdgeAt(i) = g
        BY <1>10, <2>3, <3>2 DEF Walk, InProgress
      <4>2. i \in DOMAIN stack' /\ EdgeAt(i)' = g
        BY <1>5, <1>7, <1>8, <4>1
      <4> QED BY <4>2
    <3> QED BY <3>1, <3>2
  <2> QED BY <2>1, <2>2, <2>3 DEF InProgress
<1>16. Chain'
  <2> SUFFICES ASSUME NEW i \in DOMAIN stack', i + 1 \in DOMAIN stack'
               PROVE  stack'[i + 1].node \in InputsNow(EdgeAt(i)', loaded')
    BY DEF Chain
  <2>1. i \in 1 .. k /\ EdgeAt(i)' = EdgeAt(i)
    BY <1>5, <1>7, <1>8
  <2>2. InputsNow(EdgeAt(i)', loaded') = InputsNow(EdgeAt(i), loaded)
    BY <1>9, <1>10, <2>1
  <2>3. CASE i = k
    <3>1. n \in stack[k].left
      <4>1. stack # << >>
        BY <1>5, <2>1
      <4> QED BY <1>0, <1>1, <4>1 DEF ToVisit, Top
    <3> QED BY <1>4, <1>6, <1>9, <2>1, <2>2, <2>3, <3>1
  <2>4. CASE i # k
    <3>1. i + 1 \in 1 .. k
      BY <1>5, <2>1, <2>4
    <3> QED BY <1>1, <1>5, <1>6, <2>1, <2>2, <3>1 DEF Walk, Chain
  <2> QED BY <2>3, <2>4
<1>17. Visited'
  <2>1. ASSUME NEW i \in DOMAIN stack', NEW x \in InputsNow(EdgeAt(i)', loaded')
        PROVE  \/ Known(x)' \/ x \in stack'[i].left
               \/ i + 1 \in DOMAIN stack' /\ InEdge[x] = EdgeAt(i + 1)'
    <3>1. CASE i = k + 1
      BY <1>3, <1>4, <1>6, <1>8, <2>1, <3>1
    <3>2. CASE i \in 1 .. k
      <4>1. i \in DOMAIN stack /\ x \in InputsNow(EdgeAt(i), loaded) /\ x \in Node
        BY <1>5, <1>8, <1>9, <1>10, <2>1, <3>2, GraphFacts
      <4>2. \/ Known(x) \/ x \in stack[i].left
            \/ i + 1 \in DOMAIN stack /\ InEdge[x] = EdgeAt(i + 1)
        BY <4>1 DEF Walk, Visited
      <4>3. CASE Known(x)
        BY <1>12, <4>1, <4>3
      <4>4. CASE x \in stack[i].left /\ x # n
        BY <1>6, <3>2, <4>4
      <4>5. CASE x = n /\ x \in stack[i].left
        <5>1. CASE i = k
          <6>1. i + 1 \in DOMAIN stack' /\ EdgeAt(i + 1)' = e
            BY <1>5, <1>7, <1>8, <5>1
          <6> QED BY <4>5, <6>1 DEF e
        <5>2. CASE i # k
          BY <1>6, <3>2, <4>5, <5>2
        <5> QED BY <5>1, <5>2
      <4>6. CASE i + 1 \in DOMAIN stack /\ InEdge[x] = EdgeAt(i + 1)
        <5>1. i + 1 \in DOMAIN stack' /\ EdgeAt(i + 1)' = EdgeAt(i + 1)
          BY <1>5, <1>7, <1>8, <4>6
        <5> QED BY <4>6, <5>1
      <4> QED BY <4>2, <4>3, <4>4, <4>5, <4>6
    <3> QED BY <1>7, <1>13, <3>1, <3>2
  <2>2. ASSUME NEW g \in Edge, mark'[g] = "done", NEW x \in InputsNow(g, loaded')
        PROVE  Known(x)'
    <3>1. g # e
      BY <1>11, <2>2
    <3>2. mark[g] = "done" /\ x \in InputsNow(g, loaded) /\ x \in Node
      BY <1>10, <2>2, <3>1, GraphFacts
    <3> QED BY <1>12, <3>2 DEF Walk, Visited
  <2> QED BY <2>1, <2>2 DEF Visited
<1>18. Handed'
  <2>1. /\ ToSet(queue) \subseteq ToSet(queue') \cup {n}
        /\ Validations[e] \subseteq ToSet(queue')
    <3>1. QueueWithout \in Seq(Node) /\ ToSet(queue) \subseteq ToSet(QueueWithout) \cup {n}
      BY <1>1, QueueWithoutTyped DEF Walk
    <3>2. ValidationsOf(e) \in Seq(Node) /\ ToSet(ValidationsOf(e)) = Validations[e]
      BY <1>1, ValidationsListed
    <3>3. ToSet(queue') = ToSet(QueueWithout) \cup ToSet(ValidationsOf(e))
      BY <1>3, <3>1, <3>2, ToSetConcat
    <3> QED BY <3>1, <3>2, <3>3
  <2>2. InEdge[n] # NoEdge /\ mark'[InEdge[n]] = "inStack"
    BY <1>1, <1>11, GraphFacts DEF e
  <2> SUFFICES ASSUME NEW g \in Edge, mark'[g] # "none", NEW x \in Validations[g]
               PROVE  /\ Validations[g] \subseteq handedBack'
                      /\ \/ Known(x)' \/ x \in ToSet(queue')
                         \/ InEdge[x] # NoEdge /\ mark'[InEdge[x]] = "inStack"
    BY DEF Handed
  <2>3. CASE g = e
    BY <1>3, <2>1, <2>3
  <2>4. CASE g # e
    <3>1. mark[g] # "none" /\ x \in Node
      BY <1>10, <2>4, GraphFacts
    <3>2. /\ Validations[g] \subseteq handedBack
          /\ \/ Known(x) \/ x \in ToSet(queue)
             \/ InEdge[x] # NoEdge /\ mark[InEdge[x]] = "inStack"
      BY <3>1 DEF Walk, Handed
    <3>3. InEdge[x] # NoEdge => InEdge[x] \in Edge
      BY <3>1, InEdgeOf
    <3>4. Validations[g] \subseteq handedBack'
      BY <1>3, <3>2
    <3>5. CASE Known(x)
      BY <1>12, <3>1, <3>4, <3>5
    <3>6. CASE x \in ToSet(queue)
      BY <2>1, <2>2, <3>4, <3>6
    <3>7. CASE InEdge[x] # NoEdge /\ mark[InEdge[x]] = "inStack"
      BY <1>10, <1>11, <3>3, <3>4, <3>7
    <3> QED BY <3>2, <3>5, <3>6, <3>7
  <2> QED BY <2>3, <2>4
<1>19. AtEnd'
  BY <1>1 DEF AtEnd
<1> QED BY <1>14, <1>15, <1>16, <1>17, <1>18, <1>19 DEF Walk

(* Leaving an edge.                                                        *)
LEMMA LeaveWalk ==
  ASSUME Walk, Leave
  PROVE  Walk'
<1> DEFINE e == InEdge[Top.node]
<1>0. PICK k \in Nat : k = Len(stack)
  BY DEF Walk, Typed, TypeOK
<1>1. /\ pc = "scan" /\ stack # << >> /\ Top.left = {} /\ e \in Edge
      /\ stack' = SubSeq(stack, 1, Len(stack) - 1)
      /\ mark' = [mark EXCEPT ![e] = "done"]
      /\ UNCHANGED <<queue, handedBack, loaded, deps_missing, pc>>
  BY LeaveFacts DEF Walk
<1>2. stack \in Seq(Frame) /\ DOMAIN stack = 1 .. k /\ EdgeAt(k) = e /\ stack[k].left = {}
  BY <1>0, <1>1, TopFacts DEF Walk, Typed, TypeOK
<1>3. /\ k \in Nat \ {0} /\ stack' \in Seq(Frame) /\ Len(stack') = k - 1
      /\ \A i \in 1 .. k - 1 : stack'[i] = stack[i]
  BY <1>0, <1>1, <1>2, PoppedFacts
<1>4. DOMAIN stack' = 1 .. k - 1
  <2>1. DOMAIN stack' = 1 .. Len(stack')
    BY <1>3
  <2> QED BY <1>3, <2>1
<1>5. ASSUME NEW i \in 1 .. k - 1
      PROVE  /\ i \in DOMAIN stack /\ EdgeAt(i)' = EdgeAt(i) /\ stack'[i] = stack[i]
             /\ EdgeAt(i) \in Edge /\ EdgeAt(i) # e /\ mark[EdgeAt(i)] = "inStack"
  <2>1. i \in DOMAIN stack /\ i # k /\ k \in DOMAIN stack
    BY <1>2, <1>3
  <2> QED BY <1>2, <1>3, <2>1 DEF EdgeAt, Walk, InProgress, Typed
<1>6. /\ \A x \in Node : Known(x) => Known(x)'
      /\ \A x \in Node : InEdge[x] = InEdge[Top.node] => Known(x)'
  BY LeaveKnown DEF KnownStays
<1>7. /\ mark'[e] = "done"
      /\ \A g \in Edge : g # e => mark'[g] = mark[g]
  BY <1>1 DEF Walk, Typed, TypeOK
<1>8. Typed'
  BY LeaveTyped DEF Walk
<1>9. InProgress'
  <2>1. ASSUME NEW i \in DOMAIN stack'
        PROVE  /\ mark'[EdgeAt(i)'] = "inStack"
               /\ stack'[i].left \subseteq InputsNow(EdgeAt(i)', loaded')
    BY <1>1, <1>4, <1>5, <1>7 DEF Walk, InProgress
  <2>2. ASSUME NEW i \in DOMAIN stack', NEW j \in DOMAIN stack', EdgeAt(i)' = EdgeAt(j)'
        PROVE  i = j
    BY <1>4, <1>5, <2>2 DEF Walk, InProgress
  <2>3. ASSUME NEW g \in Edge, mark'[g] = "inStack"
        PROVE  \E i \in DOMAIN stack' : EdgeAt(i)' = g
    <3>1. g # e /\ mark[g] = "inStack"
      BY <1>7, <2>3
    <3>2. PICK i \in DOMAIN stack : EdgeAt(i) = g
      BY <3>1 DEF Walk, InProgress
    <3>3. i \in 1 .. k - 1
      BY <1>2, <1>3, <3>1, <3>2
    <3> QED BY <1>4, <1>5, <3>2, <3>3
  <2> QED BY <2>1, <2>2, <2>3 DEF InProgress
<1>10. Chain'
  <2> SUFFICES ASSUME NEW i \in DOMAIN stack', i + 1 \in DOMAIN stack'
               PROVE  stack'[i + 1].node \in InputsNow(EdgeAt(i)', loaded')
    BY DEF Chain
  <2>1. /\ i \in DOMAIN stack /\ i + 1 \in DOMAIN stack
        /\ EdgeAt(i)' = EdgeAt(i) /\ stack'[i + 1] = stack[i + 1]
    BY <1>4, <1>5
  <2> QED BY <1>1, <2>1 DEF Walk, Chain
<1>11. Visited'
  <2>1. ASSUME NEW i \in DOMAIN stack', NEW x \in InputsNow(EdgeAt(i)', loaded')
        PROVE  \/ Known(x)' \/ x \in stack'[i].left
               \/ i + 1 \in DOMAIN stack' /\ InEdge[x] = EdgeAt(i + 1)'
    <3>1. i \in DOMAIN stack /\ x \in InputsNow(EdgeAt(i), loaded) /\ x \in Node
          /\ i \in 1 .. k - 1 /\ stack'[i] = stack[i]
      <4>1. /\ i \in DOMAIN stack /\ EdgeAt(i)' = EdgeAt(i) /\ EdgeAt(i) \in Edge
            /\ i \in 1 .. k - 1 /\ stack'[i] = stack[i]
        BY <1>4, <1>5
      <4>2. x \in InputsNow(EdgeAt(i), loaded)
        BY <1>1, <2>1, <4>1
      <4> QED BY <4>1, <4>2, GraphFacts
    <3>2. \/ Known(x) \/ x \in stack[i].left
          \/ i + 1 \in DOMAIN stack /\ InEdge[x] = EdgeAt(i + 1)
      BY <3>1 DEF Walk, Visited
    <3>3. CASE Known(x)
      BY <1>6, <3>1, <3>3
    <3>4. CASE x \in stack[i].left
      BY <3>1, <3>4
    <3>5. CASE InEdge[x] = EdgeAt(i + 1) /\ i + 1 = k
      BY <1>2, <1>6, <3>1, <3>5
    <3>6. CASE InEdge[x] = EdgeAt(i + 1) /\ i + 1 # k
      <4>1. i + 1 \in 1 .. k - 1
        BY <1>3, <3>1, <3>6
      <4>2. EdgeAt(i + 1)' = EdgeAt(i + 1)
        BY <1>5, <4>1
      <4> QED BY <1>4, <3>6, <4>1, <4>2
    <3> QED BY <3>2, <3>3, <3>4, <3>5, <3>6
  <2>2. ASSUME NEW g \in Edge, mark'[g] = "done", NEW x \in InputsNow(g, loaded')
        PROVE  Known(x)'
    <3>1. x \in InputsNow(g, loaded) /\ x \in Node
      <4>1. x \in InputsNow(g, loaded)
        BY <1>1, <2>2
      <4> QED BY <4>1, GraphFacts
    <3>2. CASE g # e
      BY <1>6, <1>7, <2>2, <3>1, <3>2 DEF Walk, Visited
    <3>3. CASE g = e
      <4>1. k \in DOMAIN stack /\ k + 1 \notin DOMAIN stack
        BY <1>2, <1>3
      <4>2. Known(x) \/ x \in stack[k].left
        BY <1>2, <3>1, <3>3, <4>1 DEF Walk, Visited
      <4> QED BY <1>2, <1>6, <3>1, <4>2
    <3> QED BY <3>2, <3>3
  <2> QED BY <2>1, <2>2 DEF Visited
<1>12. Handed'
  <2> SUFFICES ASSUME NEW g \in Edge, mark'[g] # "none", NEW x \in Validations[g]
               PROVE  /\ Validations[g] \subseteq handedBack'
                      /\ \/ Known(x)' \/ x \in ToSet(queue')
                         \/ InEdge[x] # NoEdge /\ mark'[InEdge[x]] = "inStack"
    BY DEF Handed
  <2>1. mark[e] = "inStack"
    BY <1>1, <1>2, <1>3 DEF Walk, InProgress
  <2>2. mark[g] # "none" /\ x \in Node
    BY <1>7, <2>1, GraphFacts
  <2>3. /\ Validations[g] \subseteq handedBack
        /\ \/ Known(x) \/ x \in ToSet(queue)
           \/ InEdge[x] # NoEdge /\ mark[InEdge[x]] = "inStack"
    BY <2>2 DEF Walk, Handed
  <2>4. Validations[g] \subseteq handedBack'
    BY <1>1, <2>3
  <2>5. CASE Known(x)
    BY <1>6, <2>2, <2>4, <2>5
  <2>6. CASE x \in ToSet(queue)
    BY <1>1, <2>4, <2>6
  <2>7. CASE InEdge[x] # NoEdge /\ mark[InEdge[x]] = "inStack"
    <3>1. InEdge[x] \in Edge
      BY <2>2, <2>7, InEdgeOf
    <3>2. CASE InEdge[x] = e
      BY <1>6, <2>2, <2>4, <3>2
    <3>3. CASE InEdge[x] # e
      BY <1>7, <2>4, <2>7, <3>1, <3>3
    <3> QED BY <3>2, <3>3
  <2> QED BY <2>3, <2>5, <2>6, <2>7
<1>13. AtEnd'
  BY <1>1 DEF AtEnd
<1> QED BY <1>8, <1>9, <1>10, <1>11, <1>12, <1>13 DEF Walk

LEMMA CycleWalk ==
  ASSUME Walk, NEW n \in Node, RefuseCycle(n)
  PROVE  Walk'
<1>1. /\ Typed' /\ DOMAIN stack' = DOMAIN stack
      /\ \A j \in DOMAIN stack : EdgeAt(j)' = EdgeAt(j)
      /\ \A j \in DOMAIN stack : stack'[j].left = stack[j].left
  BY CycleOnStack, RefuseCycleTyped DEF Walk
<1>2. UNCHANGED <<mark, queue, handedBack, loaded, exists>> /\ pc' = "cycle"
  BY DEF RefuseCycle, fileVars
<1>3. \A x \in Node : Known(x)' = Known(x)
  BY <1>2 DEF Known
<1>4. InProgress'
  <2>1. \A i \in DOMAIN stack' : /\ mark'[EdgeAt(i)'] = "inStack"
                                 /\ stack'[i].left \subseteq InputsNow(EdgeAt(i)', loaded')
    BY <1>1, <1>2 DEF Walk, InProgress
  <2>2. \A i, j \in DOMAIN stack' : EdgeAt(i)' = EdgeAt(j)' => i = j
    BY <1>1 DEF Walk, InProgress
  <2>3. \A e \in Edge : mark'[e] = "inStack" => \E i \in DOMAIN stack' : EdgeAt(i)' = e
    BY <1>1, <1>2 DEF Walk, InProgress
  <2> QED BY <2>1, <2>2, <2>3 DEF InProgress
<1>5. Visited'
  <2>1. ASSUME NEW i \in DOMAIN stack', NEW x \in InputsNow(EdgeAt(i)', loaded')
        PROVE  \/ Known(x)' \/ x \in stack'[i].left
               \/ i + 1 \in DOMAIN stack' /\ InEdge[x] = EdgeAt(i + 1)'
    <3>1. i \in DOMAIN stack /\ x \in InputsNow(EdgeAt(i), loaded) /\ x \in Node
      BY <1>1, <1>2, <2>1, GraphFacts DEF Walk, Typed
    <3>2. \/ Known(x) \/ x \in stack[i].left
          \/ i + 1 \in DOMAIN stack /\ InEdge[x] = EdgeAt(i + 1)
      BY <3>1 DEF Walk, Visited
    <3> QED BY <1>1, <1>3, <3>1, <3>2
  <2>2. \A e \in Edge : mark'[e] = "done" => \A x \in InputsNow(e, loaded') : Known(x)'
    BY <1>2, <1>3, GraphFacts DEF Walk, Visited
  <2> QED BY <2>1, <2>2 DEF Visited
<1>6. Handed'
  BY <1>2, <1>3, GraphFacts DEF Walk, Handed
<1>7. Chain' /\ AtEnd'
  BY <1>2 DEF Chain, AtEnd
<1> QED BY <1>1, <1>4, <1>5, <1>6, <1>7 DEF Walk

(* What the other steps do not touch.                                      *)
walkVars == <<mark, stack, handedBack, loaded, exists>>

LEMMA SameWalk ==
  ASSUME Walk, UNCHANGED walkVars, Typed', pc' # "done", pc # "cycle",
         ToSet(queue) \subseteq ToSet(queue')
  PROVE  Walk'
<1>1. \A x \in Node : Known(x)' = Known(x)
  BY DEF Known, walkVars
<1>2. stack' = stack /\ mark' = mark /\ loaded' = loaded /\ handedBack' = handedBack
  BY DEF walkVars
<1>3. \A i : EdgeAt(i)' = EdgeAt(i)
  BY <1>2 DEF EdgeAt
<1>4. \A i \in DOMAIN stack : InputsNow(EdgeAt(i), loaded) \in SUBSET Node
  BY GraphFacts DEF Walk, Typed
<1>5. InProgress'
  BY <1>2, <1>3 DEF Walk, InProgress
<1>6. Chain'
  BY <1>2, <1>3 DEF Walk, Chain
<1>7. Visited'
  BY <1>1, <1>2, <1>3, <1>4, GraphFacts DEF Walk, Visited
<1>8. Handed'
  BY <1>1, <1>2, GraphFacts DEF Walk, Handed
<1> QED BY <1>5, <1>6, <1>7, <1>8 DEF Walk, AtEnd

LEMMA WalkPreserved == Walk /\ [Next]_vars => Walk'
<1> SUFFICES ASSUME Walk, [Next]_vars PROVE Walk'
  OBVIOUS
<1>0. Typed'
  BY CycleOnStack, TypedPreserved DEF Walk
<1>1. CASE NextTarget
  <2>1. queue = << >> /\ pc = "scan" /\ pc' = "scan" /\ UNCHANGED walkVars
    BY <1>1 DEF NextTarget, walkVars, fileVars, Scanning
  <2>2. ToSet(queue) \subseteq ToSet(queue')
    BY <2>1 DEF ToSet
  <2> QED BY <1>0, <2>1, <2>2, SameWalk
<1>2. CASE ScanDone
  <2>1. /\ stack = << >> /\ queue = << >> /\ queue' = << >> /\ stack' = << >>
        /\ UNCHANGED walkVars /\ pc' = "done"
    BY <1>2 DEF ScanDone, walkVars, fileVars
  <2>2. DOMAIN stack' = {} /\ DOMAIN stack = {}
    BY <2>1
  <2>3. mark' = mark /\ loaded' = loaded /\ handedBack' = handedBack /\ exists' = exists
    BY <2>1 DEF walkVars
  <2>4. \A x \in Node : Known(x)' = Known(x)
    BY <2>3 DEF Known
  <2>5. InProgress' /\ Chain'
    BY <2>2, <2>3 DEF Walk, InProgress, Chain
  <2>6. Visited' /\ Handed'
    BY <2>1, <2>2, <2>3, <2>4, GraphFacts DEF Walk, Visited, Handed
  <2> QED BY <1>0, <2>1, <2>5, <2>6 DEF Walk, AtEnd
<1>3. CASE ReadFails
  <2>1. pc = "scan" /\ pc' = "failed" /\ UNCHANGED walkVars /\ queue' = queue
    BY <1>3 DEF ReadFails, walkVars, fileVars, Scanning
  <2> QED BY <1>0, <2>1, SameWalk
<1>4. CASE Leave
  BY <1>4, LeaveWalk
<1>5. CASE \E n \in Node : Skip(n) \/ VisitLeaf(n)
  BY <1>5, VisitWalk
<1>6. CASE \E n \in Node : RefuseCycle(n)
  BY <1>6, CycleWalk
<1>7. CASE \E n \in Node : EntersEdge(n)
  BY <1>7, EnterWalk
<1>8. CASE Reset
  <2>1. /\ stack = << >> /\ stack' = << >> /\ pc' = "scan"
        /\ mark' = [e \in Edge |-> "none"]
    BY <1>8 DEF Reset, Walk, AtEnd
  <2>2. DOMAIN stack' = {} /\ \A e \in Edge : mark'[e] = "none"
    BY <2>1
  <2> QED BY <1>0, <2>1, <2>2 DEF Walk, InProgress, Chain, Visited, Handed, AtEnd
<1>9. CASE UNCHANGED vars
  BY <1>9 DEF vars, fileVars, Walk, Typed, TypeOK, EdgeAt, InProgress, Chain, Visited,
       Handed, AtEnd, Known
<1> QED BY <1>1, <1>2, <1>3, <1>4, <1>5, <1>6, <1>7, <1>8, <1>9
     DEF Next, Step, Stopped, EntersEdge

(* The walk is well formed throughout: calls, marks and queue.             *)
LEMMA WalkAlways == Spec => []Walk
BY InitWalk, WalkPreserved, PTL DEF Spec

(* TypeOK, for every graph, every list of targets and whatever the files   *)
(* and the logs hold: the walk's marks, its stack and the file states.     *)
THEOREM ScanTyped == Spec => []TypeOK
<1>1. Walk => TypeOK
  BY DEF Walk, Typed
<1> QED BY <1>1, WalkAlways, PTL

(* When the targets are scanned, no input and no validation node of a      *)
(* visited edge was left out, and AddTarget was handed every validation    *)
(* node: the inputs that the deps log adds in mid-walk included.           *)
THEOREM NothingSkipped == Spec => []NothingForgotten
<1>1. Walk => NothingForgotten
  <2> SUFFICES ASSUME Walk, pc = "done", NEW e \in Edge, mark[e] = "done"
               PROVE  /\ \A n \in InputsNow(e, loaded) \cup Validations[e] : Known(n)
                      /\ Validations[e] \subseteq handedBack
    BY DEF NothingForgotten
  <2>1. queue = << >> /\ DOMAIN stack = {}
    BY DEF Walk, AtEnd
  <2>2. ToSet(queue) = {}
    BY <2>1 DEF ToSet
  <2>3. \A n \in Node : InEdge[n] # NoEdge => mark[InEdge[n]] # "inStack"
    <3>1. \A n \in Node : InEdge[n] # NoEdge => InEdge[n] \in Edge
      BY InEdgeOf
    <3> QED BY <2>1, <3>1 DEF Walk, InProgress
  <2>4. \A n \in Validations[e] : Known(n)
    BY <2>2, <2>3, GraphFacts DEF Walk, Handed
  <2>5. Validations[e] \subseteq handedBack
    BY DEF Walk, Handed
  <2>6. \A n \in InputsNow(e, loaded) : Known(n)
    BY DEF Walk, Visited
  <2> QED BY <2>4, <2>5, <2>6
<1> QED BY <1>1, WalkAlways, PTL

---------------------------------------------------------------------------
(* Cycles *)

Done == {e \in Edge : mark[e] = "done"}

(* The first part of CyclesFound, and the second at every moment.          *)
CycleShown ==
  pc = "cycle" =>
    \E i \in DOMAIN stack :
      /\ stack[i].node \in InputsNow(InEdge[Top.node], loaded)
      /\ \A j \in i + 1 .. Len(stack) :
           stack[j].node \in InputsNow(InEdge[stack[j - 1].node], loaded)

NoCycleDone == ~HasCycle(Done)

(* The edge that is refused is on the stack; the calls from there on and   *)
(* the input that led back to it are the cycle.                            *)
LEMMA RefusedCycle ==
  ASSUME Walk, NEW n \in Node, RefuseCycle(n)
  PROVE  CycleShown'
<1>0. PICK k \in Nat : k = Len(stack)
  BY DEF Walk, Typed, TypeOK
<1>1. pc = "scan" /\ n \in ToVisit /\ loaded' = loaded
  BY DEF RefuseCycle, Scanning
<1>2. PICK i \in DOMAIN stack :
              /\ EdgeAt(i) = InEdge[n]
              /\ Len(stack') = Len(stack) /\ DOMAIN stack' = DOMAIN stack
              /\ stack'[i].node = n
              /\ \A j \in DOMAIN stack : j # i => stack'[j].node = stack[j].node
              /\ \A j \in DOMAIN stack : EdgeAt(j)' = EdgeAt(j)
  BY CycleOnStack, RefuseCycleTyped DEF Walk
<1>3. stack # << >> /\ DOMAIN stack = 1 .. k /\ i \in 1 .. k /\ k \in DOMAIN stack
  BY <1>0, <1>2 DEF Walk, Typed, TypeOK
<1>4. n \in stack[k].left
  BY <1>0, <1>1, <1>3 DEF ToVisit, Top
<1>5. n \in InputsNow(EdgeAt(k), loaded)
  BY <1>3, <1>4 DEF Walk, InProgress
<1>6. stack'[i].node \in InputsNow(InEdge[stack'[k].node], loaded')
  BY <1>1, <1>2, <1>3, <1>5 DEF EdgeAt
<1>7. ASSUME NEW j \in i + 1 .. k
      PROVE  stack'[j].node \in InputsNow(InEdge[stack'[j - 1].node], loaded')
  <2>1. j \in DOMAIN stack /\ j # i /\ j - 1 \in DOMAIN stack /\ (j - 1) + 1 = j
    BY <1>3
  <2>2. stack[j].node \in InputsNow(EdgeAt(j - 1), loaded)
    BY <1>1, <2>1 DEF Walk, Chain
  <2>3. EdgeAt(j - 1)' = EdgeAt(j - 1) /\ stack'[j].node = stack[j].node
    BY <1>2, <2>1
  <2>4. InEdge[stack'[j - 1].node] = EdgeAt(j - 1)
    BY <2>3 DEF EdgeAt
  <2> QED BY <1>1, <2>2, <2>3, <2>4
<1>8. i \in DOMAIN stack' /\ Len(stack') = k /\ Top' = stack'[k]
  BY <1>0, <1>2 DEF Top
<1> QED BY <1>6, <1>7, <1>8 DEF CycleShown

(* An edge that is left closes no cycle with finished ones: what it needs  *)
(* was finished before it, and those need nothing but finished edges.      *)
LEMMA LeaveAcyclic ==
  ASSUME Walk, Leave, NoCycleDone
  PROVE  NoCycleDone'
<1> DEFINE e == InEdge[Top.node]
<1>1. /\ stack # << >> /\ Top.left = {} /\ e \in Edge /\ loaded' = loaded
      /\ mark' = [mark EXCEPT ![e] = "done"]
  BY LeaveFacts DEF Walk
<1>2. mark[e] = "inStack"
  BY <1>1, TopFacts DEF Walk, InProgress
<1>3. Done' = Done \cup {e} /\ e \notin Done
  BY <1>1, <1>2 DEF Done, Walk, Typed, TypeOK
<1>4. ASSUME NEW g \in Done \cup {e}, NEW f \in Edge,
             NEW x \in Outputs[f] \cap InputsNow(g, loaded)
      PROVE  f \in Done
  <2>1. g \in Edge /\ x \in Node /\ InEdge[x] = f /\ InEdge[x] # NoEdge
    BY <1>1, <1>4, GraphFacts, InEdgeOf DEF Done
  <2>2. Known(x)
    <3>1. CASE g \in Done
      BY <1>4, <3>1 DEF Walk, Visited, Done
    <3>2. CASE g = e
      <4>1. PICK k \in Nat : k = Len(stack)
        BY DEF Walk, Typed, TypeOK
      <4>2. k \in DOMAIN stack /\ EdgeAt(k) = e /\ stack[k].left = {}
        BY <1>1, <4>1, TopFacts DEF Walk
      <4>3. k + 1 \notin DOMAIN stack
        BY <4>1 DEF Walk, Typed, TypeOK
      <4> QED BY <1>4, <3>2, <4>2, <4>3 DEF Walk, Visited
    <3> QED BY <1>4, <3>1, <3>2
  <2> QED BY <2>1, <2>2 DEF Known, Done
<1>5. ASSUME NEW C \in SUBSET (Done \cup {e}), C # {},
             \A g \in C : \E f \in C : Outputs[f] \cap InputsNow(g, loaded) # {}
      PROVE  FALSE
  <2>1. Done \cup {e} \subseteq Edge
    BY <1>1 DEF Done
  <2>2. \A g \in C : \E f \in C : f \in Done /\ Outputs[f] \cap InputsNow(g, loaded) # {}
    <3> SUFFICES ASSUME NEW g \in C
                 PROVE  \E f \in C : f \in Done /\ Outputs[f] \cap InputsNow(g, loaded) # {}
      OBVIOUS
    <3>1. PICK f \in C : Outputs[f] \cap InputsNow(g, loaded) # {}
      BY <1>5
    <3>2. f \in Edge /\ g \in Done \cup {e}
      BY <1>5, <2>1
    <3> QED BY <1>4, <3>1, <3>2
  <2>3. C \cap Done \in (SUBSET Done) \ {{}}
    BY <1>5, <2>2
  <2>4. \A g \in C \cap Done : \E f \in C \cap Done : Outputs[f] \cap InputsNow(g, loaded) # {}
    BY <2>2
  <2> QED BY <2>3, <2>4 DEF NoCycleDone, HasCycle
<1> QED BY <1>1, <1>3, <1>5 DEF NoCycleDone, HasCycle

LEMMA EnterAcyclic ==
  ASSUME Walk, NEW n \in Node, EntersEdge(n), NoCycleDone
  PROVE  NoCycleDone'
<1> DEFINE e == InEdge[n]
<1>1. e \in Edge /\ mark[e] = "none"
  BY EnterFacts DEF Walk
<1>2. PICK deps \in {loaded, loaded \cup ({e} \cap HasDeps)} : \E missing \in BOOLEAN :
        Push(n, deps, missing)
  BY EnterFacts DEF Walk
<1>3. mark' = [mark EXCEPT ![e] = "inStack"] /\ loaded' = deps
  BY <1>2 DEF Push
<1>4. Done' = Done /\ e \notin Done
  BY <1>1, <1>3 DEF Done, Walk, Typed, TypeOK
<1>5. \A g \in Done : InputsNow(g, loaded') = InputsNow(g, loaded)
  BY <1>2, <1>3, <1>4, OtherInputs
<1>6. ASSUME NEW C \in (SUBSET Done') \ {{}},
             \A g \in C : \E f \in C : Outputs[f] \cap InputsNow(g, loaded') # {}
      PROVE  FALSE
  <2>1. C \in (SUBSET Done) \ {{}}
    BY <1>4
  <2>2. \A g \in C : InputsNow(g, loaded') = InputsNow(g, loaded)
    BY <1>5, <2>1
  <2>3. \A g \in C : \E f \in C : Outputs[f] \cap InputsNow(g, loaded) # {}
    BY <1>6, <2>2
  <2> QED BY <2>1, <2>3 DEF NoCycleDone, HasCycle
<1> QED BY <1>6 DEF NoCycleDone, HasCycle

LEMMA CyclesPreserved ==
  Walk /\ CycleShown /\ NoCycleDone /\ [Next]_vars => CycleShown' /\ NoCycleDone'
<1> SUFFICES ASSUME Walk, CycleShown, NoCycleDone, [Next]_vars
             PROVE  CycleShown' /\ NoCycleDone'
  OBVIOUS
<1>1. CASE \/ NextTarget \/ ScanDone \/ ReadFails \/ UNCHANGED vars
           \/ \E n \in Node : Skip(n) \/ VisitLeaf(n) \/ RefuseCycle(n)
  <2>1. UNCHANGED <<mark, loaded>>
    BY <1>1 DEF NextTarget, ScanDone, ReadFails, vars, Skip, VisitLeaf, RefuseCycle
  <2>2. NoCycleDone'
    BY <2>1 DEF NoCycleDone, HasCycle, Done
  <2>3. CASE \E n \in Node : RefuseCycle(n)
    BY <2>2, <2>3, RefusedCycle
  <2>4. CASE \/ NextTarget \/ ScanDone \/ ReadFails
             \/ \E n \in Node : Skip(n) \/ VisitLeaf(n)
    <3>1. pc' # "cycle"
      BY <2>4 DEF NextTarget, ScanDone, ReadFails, Skip, VisitLeaf, Scanning
    <3> QED BY <2>2, <3>1 DEF CycleShown
  <2>5. CASE UNCHANGED vars
    BY <2>2, <2>5 DEF vars, CycleShown, Top
  <2> QED BY <1>1, <2>3, <2>4, <2>5
<1>2. CASE Leave
  <2>1. pc' # "cycle"
    BY <1>2 DEF Leave, Scanning
  <2> QED BY <1>2, <2>1, LeaveAcyclic DEF CycleShown
<1>3. CASE \E n \in Node : EntersEdge(n)
  <2>1. PICK n \in Node : EntersEdge(n)
    BY <1>3
  <2>2. pc' # "cycle"
    BY <2>1, EnterFacts DEF Walk
  <2> QED BY <2>1, <2>2, EnterAcyclic DEF CycleShown
<1>4. CASE Reset
  <2>1. pc' = "scan" /\ Done' = {}
    BY <1>4 DEF Reset, Done
  <2> QED BY <2>1 DEF CycleShown, NoCycleDone, HasCycle
<1> QED BY <1>1, <1>2, <1>3, <1>4 DEF Next, Step, Stopped, EntersEdge

(* A graph is refused only for a cycle that is there, and no edge of a     *)
(* cycle is ever finished, at the end of a scan or before (scan.go:86-89,  *)
(* 210): the depth-first walk is right for every graph and every set of    *)
(* recorded deps.                                                          *)
THEOREM CyclesAreFound == Spec => []CyclesFound
<1>1. Init => CycleShown /\ NoCycleDone
  <2> SUFFICES ASSUME Init PROVE CycleShown /\ NoCycleDone
    OBVIOUS
  <2>1. pc = "scan" /\ Done = {}
    BY DEF Init, Done
  <2> QED BY <2>1 DEF CycleShown, NoCycleDone, HasCycle
<1>2. CycleShown /\ NoCycleDone => CyclesFound
  BY DEF CycleShown, NoCycleDone, CyclesFound, Done
<1> QED BY <1>1, <1>2, WalkAlways, CyclesPreserved, PTL DEF Spec

---------------------------------------------------------------------------
(* Recorded deps *)

(* Deps that were loaded were recorded for the output that is there.       *)
DepsLoaded ==
  \A e \in HasDeps : mark[e] # "none" /\ e \notin deps_missing =>
    /\ e \in loaded /\ record[e] # NoRecord
    /\ exists[MainOutput[e]] # "unknown"
    /\ e \notin Phony => mtime[MainOutput[e]] <= record[e]

(* Nothing below a clean output is dirty.                                  *)
CleanBelow ==
  \A e \in Done : ~dirty[MainOutput[e]] =>
    /\ e \notin deps_missing
    /\ \A n \in RegularNow(e, loaded) : ~dirty[n]

LEMMA DepsRead ==
  ASSUME Typed, NEW n \in Node, EntersEdge(n), InEdge[n] \in HasDeps,
         InEdge[n] \notin deps_missing'
  PROVE  LET e == InEdge[n] IN
         /\ e \in loaded' /\ record'[e] # NoRecord
         /\ exists'[MainOutput[e]] # "unknown"
         /\ mtime'[MainOutput[e]] <= record'[e]
<1> DEFINE e == InEdge[n]
<1>1. EnterWithDeps(n)
  BY ScanConstants DEF EntersEdge, Enter, EnterWithoutDepfile, EnterWithDepfile
<1>2. PICK rec \in RecordsOf[e] :
        \E m \in StatsOf(IF rec = NoRecord THEN {} ELSE {MainOutput[e]}) :
          /\ mtime' = Mtime(m) /\ exists' = Exists(m)
          /\ record' = [record EXCEPT ![e] = rec]
          /\ IF DepsValid(rec, Mtime(m)[MainOutput[e]])
             THEN Push(n, loaded \cup {e}, FALSE)
             ELSE Push(n, loaded, TRUE)
  BY <1>1 DEF EnterWithDeps
<1>3. PICK m \in StatsOf(IF rec = NoRecord THEN {} ELSE {MainOutput[e]}) :
          /\ mtime' = Mtime(m) /\ exists' = Exists(m)
          /\ record' = [record EXCEPT ![e] = rec]
          /\ IF DepsValid(rec, Mtime(m)[MainOutput[e]])
             THEN Push(n, loaded \cup {e}, FALSE)
             ELSE Push(n, loaded, TRUE)
  BY <1>2
<1>4. DepsValid(rec, Mtime(m)[MainOutput[e]]) /\ loaded' = loaded \cup {e}
  BY <1>3 DEF Push
<1>5. rec # NoRecord /\ mtime'[MainOutput[e]] <= rec /\ record'[e] = rec
  BY <1>3, <1>4, GraphFacts DEF DepsValid, Typed, TypeOK
<1>6. {MainOutput[e]} \in SUBSET Node /\ m \in StatsOf({MainOutput[e]})
  BY <1>3, <1>5, GraphFacts
<1>7. exists'[MainOutput[e]] # "unknown"
  BY <1>3, <1>6, StatsFacts DEF Typed
<1> QED BY <1>4, <1>5, <1>7

(* A node is made by one edge only, so that no other touches its state.    *)
LEMMA DepsPreserved == Walk /\ DepsLoaded /\ [Next]_vars => DepsLoaded'
<1> SUFFICES ASSUME Walk, DepsLoaded, [Next]_vars PROVE DepsLoaded'
  OBVIOUS
<1>1. \A e \in HasDeps : e \in Edge /\ MainOutput[e] \in Outputs[e] /\ MainOutput[e] \in Node
                         /\ InEdge[MainOutput[e]] = e
  BY GraphFacts, InEdgeOf
<1>2. CASE \/ NextTarget \/ ScanDone \/ ReadFails \/ UNCHANGED vars
           \/ \E n \in Node : Skip(n) \/ RefuseCycle(n)
  <2>1. UNCHANGED <<mark, loaded, deps_missing, record, exists, mtime>>
    BY <1>2 DEF NextTarget, ScanDone, ReadFails, vars, Skip, RefuseCycle, fileVars
  <2> QED BY <2>1 DEF DepsLoaded
<1>3. CASE \E n \in Node : VisitLeaf(n)
  <2>1. PICK n \in Node : VisitLeaf(n)
    BY <1>3
  <2>2. PICK m \in StatsOf({n}) : mtime' = Mtime(m) /\ exists' = Exists(m)
    BY <2>1 DEF VisitLeaf
  <2>3. \A k \in Node : exists[k] # "unknown" => mtime'[k] = mtime[k] /\ exists'[k] = exists[k]
    BY <2>2, StatsFacts DEF Walk, Typed
  <2>4. UNCHANGED <<mark, loaded, deps_missing, record>>
    BY <2>1 DEF VisitLeaf
  <2> QED BY <1>1, <2>3, <2>4 DEF DepsLoaded
<1>4. CASE \E n \in Node : EntersEdge(n)
  <2>1. PICK n \in Node : EntersEdge(n)
    BY <1>4
  <2> DEFINE e == InEdge[n]
  <2>2. PICK deps \in {loaded, loaded \cup ({e} \cap HasDeps)} : \E missing \in BOOLEAN :
          Push(n, deps, missing)
    BY <2>1, EnterFacts DEF Walk
  <2>3. /\ mark' = [mark EXCEPT ![e] = "inStack"] /\ loaded \subseteq loaded'
        /\ \A f : f # e /\ f \notin deps_missing' => f \notin deps_missing
    BY <2>2 DEF Push
  <2>4. e \in Edge /\ (\A f \in Edge \ {e} : record'[f] = record[f])
    BY <2>1, EnterFacts DEF Walk
  <2>5. \A k \in Node : exists[k] # "unknown" => mtime'[k] = mtime[k] /\ exists'[k] = exists[k]
    BY <2>1, EnterStats DEF Walk
  <2> SUFFICES ASSUME NEW f \in HasDeps, mark'[f] # "none", f \notin deps_missing'
               PROVE  /\ f \in loaded' /\ record'[f] # NoRecord
                      /\ exists'[MainOutput[f]] # "unknown"
                      /\ f \notin Phony => mtime'[MainOutput[f]] <= record'[f]
    BY DEF DepsLoaded
  <2>6. CASE f = e
    BY <2>1, <2>6, DepsRead DEF Walk
  <2>7. CASE f # e
    <3>1. mark[f] # "none" /\ f \notin deps_missing /\ f \in Edge
      BY <1>1, <2>3, <2>4, <2>7 DEF Walk, Typed, TypeOK
    <3>2. /\ f \in loaded /\ record[f] # NoRecord
          /\ exists[MainOutput[f]] # "unknown"
          /\ f \notin Phony => mtime[MainOutput[f]] <= record[f]
      BY <3>1 DEF DepsLoaded
    <3> QED BY <1>1, <2>3, <2>4, <2>5, <2>7, <3>1, <3>2
  <2> QED BY <2>6, <2>7
<1>5. CASE Leave
  <2> DEFINE e == InEdge[Top.node]
  <2>1. /\ e \in Edge /\ mark' = [mark EXCEPT ![e] = "done"] /\ stack # << >>
        /\ \A n \in Node : exists[n] # "unknown" => exists'[n] = exists[n]
        /\ \A n \in Node : exists[n] # "unknown" /\ ~(n \in Outputs[e] /\ e \in Phony)
                             => mtime'[n] = mtime[n]
        /\ UNCHANGED <<loaded, deps_missing, record>>
    BY <1>5, LeaveFacts DEF Walk
  <2>2. mark[e] = "inStack"
    BY <2>1, TopFacts DEF Walk, InProgress
  <2> SUFFICES ASSUME NEW f \in HasDeps, mark'[f] # "none", f \notin deps_missing'
               PROVE  /\ f \in loaded' /\ record'[f] # NoRecord
                      /\ exists'[MainOutput[f]] # "unknown"
                      /\ f \notin Phony => mtime'[MainOutput[f]] <= record'[f]
    BY DEF DepsLoaded
  <2>3. mark[f] # "none" /\ f \notin deps_missing
    BY <1>1, <2>1, <2>2 DEF Walk, Typed, TypeOK
  <2>4. /\ f \in loaded /\ record[f] # NoRecord
        /\ exists[MainOutput[f]] # "unknown"
        /\ f \notin Phony => mtime[MainOutput[f]] <= record[f]
    BY <2>3 DEF DepsLoaded
  <2>5. f \notin Phony => ~(MainOutput[f] \in Outputs[e] /\ e \in Phony)
    BY <1>1, <2>1, InEdgeOf
  <2> QED BY <1>1, <2>1, <2>4, <2>5
<1>6. CASE Reset
  <2>1. \A e \in Edge : mark'[e] = "none"
    BY <1>6 DEF Reset
  <2> QED BY <1>1, <2>1 DEF DepsLoaded
<1> QED BY <1>2, <1>3, <1>4, <1>5, <1>6 DEF Next, Step, Stopped, EntersEdge

(* The inputs of a finished edge are known, and what is known is marked.   *)
LEMMA CleanStays ==
  ASSUME Walk, CleanBelow, KnownStays,
         Done' \subseteq Done,
         \A e \in Done : /\ InputsNow(e, loaded') = InputsNow(e, loaded)
                         /\ RegularNow(e, loaded') = RegularNow(e, loaded),
         \A e \in Done : e \in deps_missing' <=> e \in deps_missing
  PROVE  CleanBelow'
<1> SUFFICES ASSUME NEW e \in Done', ~dirty'[MainOutput[e]]
             PROVE  /\ e \notin deps_missing'
                    /\ \A n \in RegularNow(e, loaded') : ~dirty'[n]
  BY DEF CleanBelow
<1>1. e \in Done /\ e \in Edge /\ mark[e] = "done"
  BY DEF Done
<1>2. MainOutput[e] \in Node /\ InEdge[MainOutput[e]] = e /\ e # NoEdge
  BY <1>1, GraphFacts, InEdgeOf
<1>3. ~dirty[MainOutput[e]]
  BY <1>1, <1>2 DEF KnownStays, Known
<1>4. \A n \in RegularNow(e, loaded) : n \in Node /\ Known(n)
  BY <1>1, GraphFacts DEF Walk, Visited, InputsNow
<1> QED BY <1>1, <1>3, <1>4 DEF CleanBelow, KnownStays

LEMMA CleanPreserved == Walk /\ CleanBelow /\ [Next]_vars => CleanBelow'
<1> SUFFICES ASSUME Walk, CleanBelow, [Next]_vars PROVE CleanBelow'
  OBVIOUS
<1>1. CASE \/ NextTarget \/ ScanDone \/ ReadFails \/ UNCHANGED vars
           \/ \E n \in Node : RefuseCycle(n)
  <2>1. UNCHANGED <<mark, loaded, deps_missing, dirty>>
    BY <1>1 DEF NextTarget, ScanDone, ReadFails, vars, RefuseCycle
  <2> QED BY <2>1 DEF CleanBelow, Done, RegularNow
<1>2. CASE \E n \in Node : Skip(n) \/ VisitLeaf(n)
  <2>1. PICK n \in Node : Skip(n) \/ VisitLeaf(n)
    BY <1>2
  <2>2. UNCHANGED <<mark, loaded, deps_missing>>
    BY <2>1 DEF Skip, VisitLeaf
  <2>3. KnownStays
    BY <2>1, VisitKnown DEF Walk
  <2>4. Done' \subseteq Done
    BY <2>2 DEF Done
  <2> QED BY <2>2, <2>3, <2>4, CleanStays
<1>3. CASE \E n \in Node : EntersEdge(n)
  <2>1. PICK n \in Node : EntersEdge(n)
    BY <1>3
  <2> DEFINE e == InEdge[n]
  <2>2. PICK deps \in {loaded, loaded \cup ({e} \cap HasDeps)} : \E missing \in BOOLEAN :
          Push(n, deps, missing)
    BY <2>1, EnterFacts DEF Walk
  <2>3. /\ mark' = [mark EXCEPT ![e] = "inStack"] /\ loaded' = deps
        /\ \A f : f # e => (f \in deps_missing' <=> f \in deps_missing)
    BY <2>2 DEF Push
  <2>4. e \in Edge /\ mark[e] = "none"
    BY <2>1, EnterFacts DEF Walk
  <2>5. Done' \subseteq Done /\ e \notin Done
    BY <2>3, <2>4 DEF Done, Walk, Typed, TypeOK
  <2>6. KnownStays
    BY <2>1, EnterKnown DEF Walk
  <2>7. \A f \in Done : /\ InputsNow(f, loaded') = InputsNow(f, loaded)
                        /\ RegularNow(f, loaded') = RegularNow(f, loaded)
    BY <2>2, <2>3, <2>5, OtherInputs
  <2>8. \A f \in Done : f \in deps_missing' <=> f \in deps_missing
    BY <2>3, <2>5
  <2> QED BY <2>5, <2>6, <2>7, <2>8, CleanStays
<1>4. CASE Leave
  <2> DEFINE e == InEdge[Top.node]
  <2>1. /\ e \in Edge /\ mark' = [mark EXCEPT ![e] = "done"] /\ stack # << >> /\ Top.left = {}
        /\ \A o \in Outputs[e] : ~dirty'[o] =>
             e \notin deps_missing /\ \A i \in RegularNow(e, loaded) : ~dirty[i]
        /\ UNCHANGED <<loaded, deps_missing>>
    BY <1>4, LeaveFacts DEF Walk
  <2>2. KnownStays
    BY <1>4, LeaveKnown
  <2> SUFFICES ASSUME NEW f \in Done', ~dirty'[MainOutput[f]]
               PROVE  /\ f \notin deps_missing'
                      /\ \A n \in RegularNow(f, loaded') : ~dirty'[n]
    BY DEF CleanBelow
  <2>3. f \in Edge /\ MainOutput[f] \in Node /\ MainOutput[f] \in Outputs[f]
        /\ InEdge[MainOutput[f]] = f /\ f # NoEdge
    BY GraphFacts, InEdgeOf DEF Done
  <2>4. CASE f = e
    <3>1. f \notin deps_missing /\ \A n \in RegularNow(f, loaded) : ~dirty[n]
      BY <2>1, <2>3, <2>4
    <3>2. \A n \in RegularNow(f, loaded) : n \in Node /\ Known(n)
      <4>1. PICK k \in Nat : k = Len(stack)
        BY DEF Walk, Typed, TypeOK
      <4>2. k \in DOMAIN stack /\ EdgeAt(k) = e /\ stack[k].left = {}
        BY <2>1, <4>1, TopFacts DEF Walk
      <4>3. k + 1 \notin DOMAIN stack
        BY <4>1 DEF Walk, Typed, TypeOK
      <4>4. \A n \in InputsNow(e, loaded) : Known(n)
        BY <4>2, <4>3 DEF Walk, Visited
      <4> QED BY <2>3, <2>4, <4>4, GraphFacts DEF InputsNow
    <3> QED BY <2>1, <2>2, <3>1, <3>2 DEF KnownStays
  <2>5. CASE f # e
    <3>1. f \in Done /\ mark[f] = "done"
      BY <2>1, <2>3, <2>5 DEF Done, Walk, Typed, TypeOK
    <3>2. ~dirty[MainOutput[f]]
      BY <2>2, <2>3, <3>1 DEF KnownStays, Known
    <3>3. f \notin deps_missing /\ \A n \in RegularNow(f, loaded) : ~dirty[n]
      BY <3>1, <3>2 DEF CleanBelow
    <3>4. \A n \in RegularNow(f, loaded) : n \in Node /\ Known(n)
      BY <2>3, <3>1, GraphFacts DEF Walk, Visited, InputsNow
    <3> QED BY <2>1, <2>2, <3>3, <3>4 DEF KnownStays
  <2> QED BY <2>4, <2>5
<1>5. CASE Reset
  <2>1. Done' = {}
    BY <1>5 DEF Reset, Done
  <2> QED BY <2>1 DEF CleanBelow
<1> QED BY <1>1, <1>2, <1>3, <1>4, <1>5 DEF Next, Step, Stopped, EntersEdge

(* An edge with a deps binding passes for clean only with a deps record    *)
(* that is no older than its output, and only after every input named      *)
(* there was looked at and found clean (graph.go:41-76), whatever the two  *)
(* logs and the files hold, in the first scan and in those after a Reset.  *)
THEOREM CleanOnlyWithDeps == Spec => []CleanMeansDepsKnown
<1>1. Init => DepsLoaded /\ CleanBelow
  <2> SUFFICES ASSUME Init PROVE DepsLoaded /\ CleanBelow
    OBVIOUS
  <2>1. \A e \in Edge : mark[e] = "none"
    BY DEF Init
  <2>2. Done = {}
    BY <2>1 DEF Done
  <2> QED BY <2>1, <2>2, GraphFacts DEF DepsLoaded, CleanBelow
<1>2. Walk /\ DepsLoaded /\ CleanBelow => CleanMeansDepsKnown
  <2> SUFFICES ASSUME Walk, DepsLoaded, CleanBelow,
                      NEW e \in HasDeps, mark[e] = "done", ~dirty[MainOutput[e]]
               PROVE  /\ record[e] # NoRecord
                      /\ e \notin Phony => mtime[MainOutput[e]] <= record[e]
                      /\ \A n \in Discovered[e] : Known(n) /\ ~dirty[n]
    BY DEF CleanMeansDepsKnown
  <2>1. e \in Edge /\ e \in Done
    BY GraphFacts DEF Done
  <2>2. e \notin deps_missing /\ \A n \in RegularNow(e, loaded) : ~dirty[n]
    BY <2>1 DEF CleanBelow
  <2>3. /\ e \in loaded /\ record[e] # NoRecord
        /\ e \notin Phony => mtime[MainOutput[e]] <= record[e]
    BY <2>2 DEF DepsLoaded
  <2>4. Discovered[e] \subseteq RegularNow(e, loaded)
    BY <2>1, <2>3, ScanConstants DEF RegularNow
  <2>5. \A n \in RegularNow(e, loaded) : Known(n)
    BY <2>1 DEF Walk, Visited, InputsNow
  <2> QED BY <2>2, <2>3, <2>4, <2>5
<1> QED BY <1>1, <1>2, WalkAlways, DepsPreserved, CleanPreserved, PTL DEF Spec

---------------------------------------------------------------------------
(* What the marks mean *)

(* The edge e as the walk sees it: dirty by what it is made from, or by    *)
(* its own outputs, compared with the newest of its inputs.                *)
ByInput(e) == e \in deps_missing \/ \E i \in RegularNow(e, loaded) : dirty[i]
Newest(e) == MostRecent(RegularNow(e, loaded), mtime)
ByItself(e) ==
  \E o \in Outputs[e] :
    RecomputeOutputDirty(e, o, Newest(e), exists[o] = "exists", mtime[o], entry[o])
Stale(e) == ByInput(e) \/ ByItself(e)

InputsReady(e) ==
  \A f \in Edge : Outputs[f] \cap InputsNow(e, loaded) # {} => outputs_ready[f]

(* The marks of a finished edge.  A name that only phony edges make has    *)
(* the mtime of the newest input.                                          *)
Settled(e) ==
  /\ \A o \in Outputs[e] : exists[o] # "unknown" /\ (dirty[o] <=> Stale(e))
  /\ outputs_ready[e] <=>
       InputsReady(e) /\ (Stale(e) => e \in Phony /\ InputsNow(e, loaded) = {})
  /\ e \in Phony /\ ~ByInput(e) =>
       \A o \in Outputs[e] : exists[o] = "missing" => mtime[o] = PhonyMtime(FALSE, 0, Newest(e))

(* The marks of nodes: none before a node is known; sources are dirty when *)
(* missing; a missing file has no mtime but what a phony edge gave it.     *)
NodesMarked ==
  \A n \in Node :
    /\ ~Known(n) => ~dirty[n]
    /\ Known(n) /\ InEdge[n] = NoEdge => (dirty[n] <=> exists[n] = "missing")
    /\ exists[n] = "missing" => mtime[n] = 0 \/ (InEdge[n] \in Phony /\ Known(n))

Marks == NodesMarked /\ \A e \in Done : Settled(e)

(* What is known is not looked at again.                                   *)
KnownFixed ==
  /\ \A n \in Node : Known(n) => /\ dirty'[n] = dirty[n] /\ entry'[n] = entry[n]
                                 /\ mtime'[n] = mtime[n] /\ exists'[n] = exists[n]
  /\ \A e \in Done : outputs_ready'[e] = outputs_ready[e]

(* The newest input, before and after a step.                              *)
LEMMA NewestIs ==
  /\ \A R, files : MostRecent(R, files) = NewestOf(R, files, dirty)
  /\ \A e : Newest(e) = NewestOf(RegularNow(e, loaded), mtime, dirty)
  /\ \A e : Newest(e)' = NewestOf(RegularNow(e, loaded'), mtime', dirty')
BY DEF MostRecent, NewestOf, Newest, RegularNow

LEMMA SameNewest ==
  ASSUME NEW R, NEW files, NEW gs, NEW marks, NEW ms,
         \A i \in R : ms[i] = marks[i] /\ gs[i] = files[i]
  PROVE  NewestOf(R, files, marks) = NewestOf(R, gs, ms)
<1> DEFINE s == {files[i] : i \in {i \in R : ~marks[i]}}
           t == {gs[i] : i \in {i \in R : ~ms[i]}}
<1>1. s = t
  OBVIOUS
<1>2. /\ NewestOf(R, files, marks) = IF s = {} THEN NoInput ELSE CHOOSE x \in s : \A u \in s : u <= x
      /\ NewestOf(R, gs, ms) = IF t = {} THEN NoInput ELSE CHOOSE x \in t : \A u \in t : u <= x
  BY DEF NewestOf
<1> HIDE DEF s, t
<1> QED BY <1>1, <1>2

(* The nodes a finished edge is about.                                     *)
LEMMA DoneKnown ==
  ASSUME Walk, NEW e \in Done
  PROVE  /\ e \in Edge /\ mark[e] = "done"
         /\ \A o \in Outputs[e] : o \in Node /\ Known(o)
         /\ \A n \in InputsNow(e, loaded) : n \in Node /\ Known(n)
         /\ RegularNow(e, loaded) \subseteq InputsNow(e, loaded)
         /\ \A f \in Edge : Outputs[f] \cap InputsNow(e, loaded) # {} => f \in Done
<1>1. e \in Edge /\ mark[e] = "done"
  BY DEF Done
<1>2. \A o \in Outputs[e] : o \in Node /\ Known(o)
  BY <1>1, GraphFacts, InEdgeOf DEF Known
<1>3. \A n \in InputsNow(e, loaded) : n \in Node /\ Known(n)
  BY <1>1, GraphFacts DEF Walk, Visited
<1>4. \A f \in Edge : Outputs[f] \cap InputsNow(e, loaded) # {} => f \in Done
  BY <1>3, InEdgeOf DEF Known, Done
<1> QED BY <1>1, <1>2, <1>3, <1>4 DEF InputsNow

LEMMA SettledStays ==
  ASSUME Walk, NEW e \in Done, Settled(e), KnownFixed,
         InputsNow(e, loaded') = InputsNow(e, loaded),
         RegularNow(e, loaded') = RegularNow(e, loaded),
         e \in deps_missing' <=> e \in deps_missing
  PROVE  Settled(e)'
<1> DEFINE R == RegularNow(e, loaded)
           I == InputsNow(e, loaded)
<1>1. \A n \in Outputs[e] \cup I : dirty'[n] = dirty[n] /\ mtime'[n] = mtime[n]
                                /\ exists'[n] = exists[n] /\ entry'[n] = entry[n]
  BY DoneKnown DEF KnownFixed
<1>2. R \subseteq I
  BY DoneKnown
<1>3. Newest(e)' = Newest(e)
  <2>1. \A i \in R : dirty'[i] = dirty[i] /\ mtime'[i] = mtime[i]
    BY <1>1, <1>2
  <2>2. NewestOf(R, mtime, dirty) = NewestOf(R, mtime', dirty')
    BY <2>1, SameNewest
  <2> QED BY <2>2, NewestIs
<1>4. ByInput(e)' <=> ByInput(e)
  BY <1>1, <1>2 DEF ByInput
<1>5. \A o \in Outputs[e] :
        RecomputeOutputDirty(e, o, Newest(e), exists[o] = "exists", mtime[o], entry[o])'
        <=> RecomputeOutputDirty(e, o, Newest(e), exists[o] = "exists", mtime[o], entry[o])
  BY <1>1, <1>3 DEF RecomputeOutputDirty
<1>6. Stale(e)' <=> Stale(e)
  BY <1>4, <1>5 DEF Stale, ByItself
<1>7. InputsReady(e)' <=> InputsReady(e)
  <2>1. \A f \in Edge : Outputs[f] \cap I # {} => outputs_ready'[f] = outputs_ready[f]
    BY DoneKnown DEF KnownFixed
  <2> QED BY <2>1 DEF InputsReady
<1>8. outputs_ready'[e] = outputs_ready[e]
  BY DEF KnownFixed
<1>9. \A o \in Outputs[e] : exists'[o] # "unknown" /\ (dirty'[o] <=> Stale(e)')
  BY <1>1, <1>6 DEF Settled
<1>10. outputs_ready'[e] <=>
         InputsReady(e)' /\ (Stale(e)' => e \in Phony /\ InputsNow(e, loaded') = {})
  BY <1>6, <1>7, <1>8 DEF Settled
<1>11. e \in Phony /\ ~ByInput(e)' =>
         \A o \in Outputs[e] : exists'[o] = "missing" => mtime'[o] = PhonyMtime(FALSE, 0, Newest(e)')
  BY <1>1, <1>3, <1>4 DEF Settled
<1> QED BY <1>9, <1>10, <1>11 DEF Settled, PhonyMtime

LEMMA MissingStats ==
  ASSUME Typed, NEW ns \in SUBSET Node, NEW m \in StatsOf(ns), NEW n \in Node
  PROVE  Exists(m)[n] = "missing" => exists[n] = "missing" \/ Mtime(m)[n] = 0
<1> DEFINE unknown == {k \in ns : exists[k] = "unknown"}
<1>1. DOMAIN m = unknown
  BY DEF StatsOf
<1>2. Mtime(m)[n] = IF n \in unknown THEN m[n] ELSE mtime[n]
  BY <1>1 DEF Mtime
<1>3. Exists(m)[n] = IF n \notin unknown THEN exists[n] ELSE IF m[n] = 0 THEN "missing" ELSE "exists"
  BY <1>1 DEF Exists
<1> QED BY <1>2, <1>3

LEMMA MarksStay ==
  ASSUME Walk, Marks, KnownFixed, NodesMarked', Done' \subseteq Done,
         \A e \in Done : /\ InputsNow(e, loaded') = InputsNow(e, loaded)
                         /\ RegularNow(e, loaded') = RegularNow(e, loaded)
                         /\ e \in deps_missing' <=> e \in deps_missing
  PROVE  Marks'
<1>1. ASSUME NEW e \in Done PROVE Settled(e)'
  <2>1. Settled(e)
    BY DEF Marks
  <2> QED BY <1>1, <2>1, SettledStays
<1>2. \A e \in Done' : Settled(e)'
  BY <1>1
<1> QED BY <1>2 DEF Marks

(* What is known has been statted.                                         *)
LEMMA KnownStatted ==
  ASSUME Marks, NEW n \in Node, Known(n)
  PROVE  exists[n] # "unknown"
<1>1. CASE InEdge[n] = NoEdge
  BY <1>1 DEF Known
<1>2. CASE InEdge[n] # NoEdge
  <2>1. InEdge[n] \in Done /\ n \in Outputs[InEdge[n]]
    BY <1>2, InEdgeOf DEF Known, Done
  <2> QED BY <2>1 DEF Marks, Settled
<1> QED BY <1>1, <1>2

LEMMA VisitMarks ==
  ASSUME Walk, Marks, NEW n \in Node, VisitLeaf(n)
  PROVE  Marks'
<1>1. PICK m \in StatsOf({n}) : /\ mtime' = Mtime(m) /\ exists' = Exists(m)
                                /\ dirty' = [dirty EXCEPT ![n] = m[n] = 0]
  BY DEF VisitLeaf
<1>2. InEdge[n] = NoEdge /\ ~Known(n) /\ exists[n] = "unknown"
  BY DEF VisitLeaf, Known
<1>3. UNCHANGED <<mark, loaded, deps_missing, outputs_ready, entry>>
  BY DEF VisitLeaf
<1>4. \A k \in Node \ {n} : mtime'[k] = mtime[k] /\ exists'[k] = exists[k]
  BY <1>1, StatsFacts DEF Walk, Typed
<1>5. \A k \in Node \ {n} : dirty'[k] = dirty[k]
  BY <1>1 DEF Walk, Typed, TypeOK
<1>6. DOMAIN m = {n} /\ m[n] \in Nat
  <2>1. DOMAIN m = {k \in {n} : exists[k] = "unknown"} /\ m[n] \in MtimesOf[n]
    BY <1>2 DEF StatsOf
  <2> QED BY <1>2, <2>1, ScanConstants
<1>7. /\ exists'[n] = IF m[n] = 0 THEN "missing" ELSE "exists"
      /\ mtime'[n] = m[n]
      /\ dirty'[n] <=> m[n] = 0
  BY <1>1, <1>6 DEF Exists, Mtime, Walk, Typed, TypeOK
<1>8. KnownFixed
  BY <1>2, <1>3, <1>4, <1>5 DEF KnownFixed
<1>9. NodesMarked'
  <2> SUFFICES ASSUME NEW k \in Node
               PROVE  /\ ~Known(k)' => ~dirty'[k]
                      /\ Known(k)' /\ InEdge[k] = NoEdge => (dirty'[k] <=> exists'[k] = "missing")
                      /\ exists'[k] = "missing" => mtime'[k] = 0 \/ (InEdge[k] \in Phony /\ Known(k)')
    BY DEF NodesMarked
  <2>1. CASE k = n
    BY <1>2, <1>7, <2>1 DEF Known
  <2>2. CASE k # n
    <3>1. Known(k)' <=> Known(k)
      BY <1>3, <1>4, <2>2 DEF Known
    <3> QED BY <1>4, <1>5, <2>2, <3>1 DEF Marks, NodesMarked
  <2> QED BY <2>1, <2>2
<1>10. Done' = Done
  BY <1>3 DEF Done
<1> QED BY <1>3, <1>8, <1>9, <1>10, MarksStay

LEMMA EnterMarks ==
  ASSUME Walk, Marks, NEW n \in Node, EntersEdge(n)
  PROVE  Marks'
<1> DEFINE e == InEdge[n]
<1>1. PICK deps \in {loaded, loaded \cup ({e} \cap HasDeps)} : \E missing \in BOOLEAN :
        Push(n, deps, missing)
  BY EnterFacts DEF Walk
<1>2. /\ mark' = [mark EXCEPT ![e] = "inStack"] /\ loaded' = deps
      /\ outputs_ready' = [outputs_ready EXCEPT ![e] = TRUE]
      /\ dirty' = dirty /\ entry' = entry
      /\ \A f : f # e => (f \in deps_missing' <=> f \in deps_missing)
  BY <1>1 DEF Push
<1>3. e \in Edge /\ mark[e] = "none" /\ e # NoEdge
  BY EnterFacts, GraphFacts DEF Walk
<1>4. Done' \subseteq Done /\ e \notin Done
  BY <1>2, <1>3 DEF Done, Walk, Typed, TypeOK
<1>5. /\ \A k \in Node : exists[k] # "unknown" => mtime'[k] = mtime[k] /\ exists'[k] = exists[k]
      /\ \A k \in Node \ {MainOutput[e]} : mtime'[k] = mtime[k] /\ exists'[k] = exists[k]
  BY EnterStats DEF Walk
<1>6. KnownFixed
  <2>1. \A f \in Done : outputs_ready'[f] = outputs_ready[f]
    BY <1>2, <1>4 DEF Done, Walk, Typed, TypeOK
  <2> QED BY <1>2, <1>5, <2>1, KnownStatted DEF KnownFixed
<1>7. KnownStays
  BY EnterKnown DEF Walk
<1>8. ASSUME NEW k \in Node
      PROVE  exists'[k] = "missing" => exists[k] = "missing" \/ mtime'[k] = 0
  <2>1. PICK ns \in {{}, {MainOutput[e]}} : \E m \in StatsOf(ns) :
          mtime' = Mtime(m) /\ exists' = Exists(m)
    BY EnterFacts DEF Walk
  <2>2. PICK m \in StatsOf(ns) : mtime' = Mtime(m) /\ exists' = Exists(m)
    BY <2>1
  <2>3. ns \in SUBSET Node
    BY <1>3, GraphFacts
  <2> QED BY <2>2, <2>3, MissingStats DEF Walk
<1>9. NodesMarked'
  <2> SUFFICES ASSUME NEW k \in Node
               PROVE  /\ ~Known(k)' => ~dirty'[k]
                      /\ Known(k)' /\ InEdge[k] = NoEdge => (dirty'[k] <=> exists'[k] = "missing")
                      /\ exists'[k] = "missing" => mtime'[k] = 0 \/ (InEdge[k] \in Phony /\ Known(k)')
    BY DEF NodesMarked
  <2>1. Known(k) => Known(k)'
    BY <1>7 DEF KnownStays
  <2>2. InEdge[k] = NoEdge => exists'[k] = exists[k] /\ (Known(k)' <=> Known(k))
    <3>1. MainOutput[e] \in Outputs[e] /\ InEdge[MainOutput[e]] # NoEdge
      BY <1>3, GraphFacts, InEdgeOf
    <3> QED BY <1>5, <3>1 DEF Known
  <2>3. exists[k] = "missing" => mtime'[k] = mtime[k]
    BY <1>5
  <2> QED BY <1>2, <1>8, <2>1, <2>2, <2>3 DEF Marks, NodesMarked
<1>10. \A f \in Done : /\ InputsNow(f, loaded') = InputsNow(f, loaded)
                       /\ RegularNow(f, loaded') = RegularNow(f, loaded)
                       /\ f \in deps_missing' <=> f \in deps_missing
  <2> SUFFICES ASSUME NEW f \in Done
               PROVE  /\ InputsNow(f, loaded') = InputsNow(f, loaded)
                      /\ RegularNow(f, loaded') = RegularNow(f, loaded)
                      /\ f \in deps_missing' <=> f \in deps_missing
    OBVIOUS
  <2>1. f # e
    BY <1>4
  <2>2. InputsNow(f, deps) = InputsNow(f, loaded) /\ RegularNow(f, deps) = RegularNow(f, loaded)
    BY <1>1, <2>1 DEF InputsNow, RegularNow
  <2>3. loaded' = deps /\ (f \in deps_missing' <=> f \in deps_missing)
    BY <1>2, <2>1
  <2> QED BY <2>2, <2>3
<1> QED BY <1>4, <1>6, <1>9, <1>10, MarksStay

(* Leaving the edge e: files are statted, and the log is asked.            *)
LeavesEdge(e) ==
  \E m \in StatsOf(Outputs[e]),
     log \in [Outputs[e] -> (UNION {EntriesOf[o] : o \in Outputs[e]}) \cup {NoEntry}] :
    LET outs == Outputs[e]
        R == RegularNow(e, loaded)
        I == InputsNow(e, loaded)
        files == Mtime(m)
        there == Exists(m)
        newest == MostRecent(R, files)
        isDirty == ByInput(e) \/ \E o \in outs :
          RecomputeOutputDirty(e, o, newest, there[o] = "exists", files[o], log[o])
    IN  /\ exists' = there
        /\ mtime' = [n \in Node |->
             IF n \in outs /\ e \in Phony /\ ~ByInput(e)
             THEN PhonyMtime(there[n] = "exists", files[n], newest) ELSE files[n]]
        /\ entry' = [n \in Node |-> IF n \in outs THEN log[n] ELSE entry[n]]
        /\ dirty' = [n \in Node |-> dirty[n] \/ (n \in outs /\ isDirty)]
        /\ outputs_ready' = [outputs_ready EXCEPT ![e] =
             InputsReady(e) /\ (isDirty => e \in Phony /\ I = {})]

LEMMA LeaveUnfolds ==
  ASSUME Leave
  PROVE  LeavesEdge(InEdge[Top.node])
BY DEF Leave, LeavesEdge, ByInput, InputsReady

LEMMA LeaveMarks ==
  ASSUME Walk, Marks, Leave
  PROVE  Marks'
<1>a. InEdge[Top.node] \in Edge
  BY LeaveFacts DEF Walk
<1>b. PICK e \in Edge : e = InEdge[Top.node]
  BY <1>a
<1> DEFINE outs == Outputs[e]
           R == RegularNow(e, loaded)
           I == InputsNow(e, loaded)
           byInput == ByInput(e)
           ready == InputsReady(e)
<1>1. /\ stack # << >> /\ Top.left = {} /\ e \in Edge
      /\ \A k \in Node : exists[k] # "unknown" => exists'[k] = exists[k]
      /\ \A k \in Node : exists[k] # "unknown" /\ ~(k \in outs /\ e \in Phony) => mtime'[k] = mtime[k]
      /\ \A k \in Node \ outs : dirty'[k] = dirty[k]
      /\ mark' = [mark EXCEPT ![e] = "done"]
      /\ UNCHANGED <<loaded, deps_missing>>
  BY <1>b, LeaveFacts DEF Walk
<1>2. LeavesEdge(e)
  BY <1>b, LeaveUnfolds
<1>3. PICK m \in StatsOf(outs),
         log \in [outs -> (UNION {EntriesOf[o] : o \in outs}) \cup {NoEntry}] :
    LET files == Mtime(m)
        there == Exists(m)
        newest == MostRecent(R, files)
        isDirty == byInput \/ \E o \in outs :
          RecomputeOutputDirty(e, o, newest, there[o] = "exists", files[o], log[o])
    IN  /\ exists' = there
        /\ mtime' = [n \in Node |->
             IF n \in outs /\ e \in Phony /\ ~byInput
             THEN PhonyMtime(there[n] = "exists", files[n], newest) ELSE files[n]]
        /\ entry' = [n \in Node |-> IF n \in outs THEN log[n] ELSE entry[n]]
        /\ dirty' = [n \in Node |-> dirty[n] \/ (n \in outs /\ isDirty)]
        /\ outputs_ready' = [outputs_ready EXCEPT ![e] =
             ready /\ (isDirty => e \in Phony /\ I = {})]
  BY <1>2 DEF LeavesEdge
<1> DEFINE files == Mtime(m)
           newest == MostRecent(R, files)
           OutDirty(o) == RecomputeOutputDirty(e, o, newest, Exists(m)[o] = "exists", files[o], log[o])
           isDirty == byInput \/ \E o \in outs : OutDirty(o)
<1>4. /\ exists' = Exists(m)
      /\ mtime' = [n \in Node |->
           IF n \in outs /\ e \in Phony /\ ~byInput
           THEN PhonyMtime(Exists(m)[n] = "exists", files[n], newest) ELSE files[n]]
      /\ entry' = [n \in Node |-> IF n \in outs THEN log[n] ELSE entry[n]]
      /\ dirty' = [n \in Node |-> dirty[n] \/ (n \in outs /\ isDirty)]
      /\ outputs_ready' = [outputs_ready EXCEPT ![e] =
           ready /\ (isDirty => e \in Phony /\ I = {})]
  BY <1>3
<1>5. mark[e] = "inStack" /\ e \notin Done /\ e # NoEdge
  BY <1>1, <1>b, TopFacts, GraphFacts DEF Walk, InProgress, Done
<1>6. /\ outs \in SUBSET Node /\ R \in SUBSET Node /\ I \in SUBSET Node /\ R \subseteq I
      /\ \A o \in outs : InEdge[o] = e /\ ~Known(o)
  BY <1>1, <1>5, GraphFacts, InEdgeOf DEF InputsNow, Known
<1>7. \A i \in I : Known(i)
  <2>1. PICK k \in Nat : k = Len(stack)
    BY DEF Walk, Typed, TypeOK
  <2>2. k \in DOMAIN stack /\ EdgeAt(k) = e /\ stack[k].left = {}
    BY <1>1, <1>b, <2>1, TopFacts DEF Walk
  <2>3. k + 1 \notin DOMAIN stack
    BY <2>1 DEF Walk, Typed, TypeOK
  <2> QED BY <2>2, <2>3 DEF Walk, Visited
<1>8. ASSUME NEW k \in Node, Known(k)
      PROVE  /\ k \notin outs /\ dirty'[k] = dirty[k] /\ entry'[k] = entry[k]
             /\ mtime'[k] = mtime[k] /\ exists'[k] = exists[k]
  <2>1. k \notin outs /\ exists[k] # "unknown"
    BY <1>6, <1>8, KnownStatted
  <2>2. entry'[k] = entry[k]
    BY <1>4, <2>1
  <2> QED BY <1>1, <2>1, <2>2
<1> HIDE DEF outs, R, I, ready, byInput, files, newest, OutDirty
<1>9. KnownFixed
  <2>1. \A f \in Done : outputs_ready'[f] = outputs_ready[f]
    BY <1>4, <1>5 DEF Done, Walk, Typed, TypeOK
  <2> QED BY <1>8, <2>1 DEF KnownFixed
<1>10. ASSUME NEW f \in Done PROVE Settled(f)'
  <2>1. Settled(f) /\ UNCHANGED <<loaded, deps_missing>>
    BY <1>1 DEF Marks
  <2> QED BY <1>9, <2>1, SettledStays
<1>11. /\ \A o \in outs : exists'[o] # "unknown"
       /\ \A k \in Node : files[k] \in Nat \cup {-1}
  <2>1. m \in StatsOf(outs) /\ outs \in SUBSET Node
    BY <1>2, <1>6 DEF outs
  <2> QED BY <1>4, <2>1, StatsFacts DEF Walk, Typed, files
<1>12. \A k \in Node : exists'[k] = "missing" => exists[k] = "missing" \/ files[k] = 0
  <2>1. m \in StatsOf(outs) /\ outs \in SUBSET Node
    BY <1>2, <1>6 DEF outs
  <2> QED BY <1>4, <2>1, MissingStats DEF Walk, files
<1>13. \A k \in Node : exists[k] # "unknown" => files[k] = mtime[k]
  <2>1. m \in StatsOf(outs) /\ outs \in SUBSET Node
    BY <1>2, <1>6 DEF outs
  <2> QED BY <2>1, StatsFacts DEF Walk, Typed, files
<1>14. \A o \in outs : exists'[o] = "missing" => files[o] = 0
  BY <1>6, <1>12, <1>13 DEF Marks, NodesMarked
<1>15. NodesMarked'
  <2> SUFFICES ASSUME NEW k \in Node
               PROVE  /\ ~Known(k)' => ~dirty'[k]
                      /\ Known(k)' /\ InEdge[k] = NoEdge => (dirty'[k] <=> exists'[k] = "missing")
                      /\ exists'[k] = "missing" => mtime'[k] = 0 \/ (InEdge[k] \in Phony /\ Known(k)')
    BY DEF NodesMarked
  <2>1. CASE k \in outs
    <3>1. Known(k)' /\ InEdge[k] = e /\ InEdge[k] # NoEdge
      BY <1>1, <1>5, <1>6, <2>1 DEF Known, Walk, Typed, TypeOK
    <3>2. e \notin Phony => mtime'[k] = files[k]
      BY <1>4
    <3> QED BY <1>14, <2>1, <3>1, <3>2
  <2>2. CASE k \notin outs
    <3>1. InEdge[k] # e
      BY <1>1, <1>5, <2>2, InEdgeOf DEF outs
    <3>2. exists'[k] = exists[k] /\ mtime'[k] = mtime[k]
      <4>1. m \in StatsOf(outs) /\ outs \in SUBSET Node
        BY <1>2, <1>6 DEF outs
      <4>2. exists'[k] = exists[k] /\ files[k] = mtime[k]
        BY <1>4, <2>2, <4>1, StatsFacts DEF Walk, Typed, files
      <4> QED BY <1>4, <2>2, <4>2
    <3>3. dirty'[k] = dirty[k]
      BY <1>1, <2>2 DEF outs
    <3>4. Known(k)' <=> Known(k)
      BY <1>1, <3>1, <3>2, InEdgeOf DEF Known, Walk, Typed, TypeOK
    <3>5. /\ ~Known(k) => ~dirty[k]
          /\ Known(k) /\ InEdge[k] = NoEdge => (dirty[k] <=> exists[k] = "missing")
          /\ exists[k] = "missing" => mtime[k] = 0 \/ (InEdge[k] \in Phony /\ Known(k))
      BY DEF Marks, NodesMarked
    <3> QED BY <3>2, <3>3, <3>4, <3>5
  <2> QED BY <2>1, <2>2
<1>16. R = RegularNow(e, loaded') /\ I = InputsNow(e, loaded')
  BY <1>1 DEF R, I, InputsNow, RegularNow
<1>17. newest = Newest(e)'
  <2>1. \A i \in R : dirty'[i] = dirty[i] /\ mtime'[i] = files[i]
    <3> SUFFICES ASSUME NEW i \in R PROVE dirty'[i] = dirty[i] /\ mtime'[i] = files[i]
      OBVIOUS
    <3>1. i \in Node /\ Known(i)
      BY <1>6, <1>7
    <3> QED BY <1>8, <1>13, <3>1, KnownStatted
  <2>2. NewestOf(R, files, dirty) = NewestOf(R, mtime', dirty')
    BY <2>1, SameNewest
  <2>3. newest = NewestOf(R, files, dirty)
    BY NewestIs DEF newest
  <2>4. Newest(e)' = NewestOf(R, mtime', dirty')
    BY <1>16, NewestIs
  <2> QED BY <2>2, <2>3, <2>4
<1>18. ByInput(e)' <=> byInput
  <2>1. \A i \in R : dirty'[i] = dirty[i]
    BY <1>6, <1>7, <1>8
  <2>2. deps_missing' = deps_missing
    BY <1>1
  <2> QED BY <1>16, <2>1, <2>2 DEF ByInput, byInput, R
<1>19. ASSUME NEW o \in outs
       PROVE  RecomputeOutputDirty(e, o, Newest(e), exists[o] = "exists", mtime[o], entry[o])'
              <=> OutDirty(o)
  <2>1. exists'[o] = Exists(m)[o] /\ entry'[o] = log[o]
    BY <1>4, <1>6
  <2>2. e \notin Phony => mtime'[o] = files[o]
    BY <1>4, <1>6
  <2>3. InputsNow(e, loaded') = InputsNow(e, loaded)
    BY <1>1
  <2> QED BY <1>17, <2>1, <2>2, <2>3 DEF RecomputeOutputDirty, OutDirty
<1>20. Stale(e)' <=> isDirty
  <2>1. ByItself(e)' <=> \E o \in outs : OutDirty(o)
    BY <1>19 DEF ByItself, outs
  <2> QED BY <1>18, <2>1 DEF Stale
<1> HIDE DEF isDirty
<1>21. \A o \in outs : exists'[o] # "unknown" /\ (dirty'[o] <=> Stale(e)')
  <2>1. \A o \in outs : ~dirty[o]
    BY <1>6 DEF Marks, NodesMarked
  <2> QED BY <1>4, <1>6, <1>11, <1>20, <2>1
<1>22. InputsReady(e)' <=> ready
  <2>1. ASSUME NEW f \in Edge, Outputs[f] \cap I # {} PROVE outputs_ready'[f] = outputs_ready[f]
    <3>1. f \in Done
      BY <1>6, <1>7, <2>1, InEdgeOf DEF Known, Done
    <3> QED BY <1>9, <3>1 DEF KnownFixed
  <2> QED BY <1>16, <2>1 DEF InputsReady, ready, I
<1>23. outputs_ready'[e] <=>
         InputsReady(e)' /\ (Stale(e)' => e \in Phony /\ InputsNow(e, loaded') = {})
  <2>1. outputs_ready'[e] <=> ready /\ (isDirty => e \in Phony /\ I = {})
    BY <1>1, <1>4 DEF Walk, Typed, TypeOK
  <2> QED BY <1>16, <1>20, <1>22, <2>1
<1>24. e \in Phony /\ ~ByInput(e)' =>
         \A o \in outs : exists'[o] = "missing" => mtime'[o] = PhonyMtime(FALSE, 0, Newest(e)')
  <2> SUFFICES ASSUME e \in Phony, ~byInput, NEW o \in outs, exists'[o] = "missing"
               PROVE  mtime'[o] = PhonyMtime(FALSE, 0, newest)
    BY <1>17, <1>18
  <2>1. files[o] = 0
    BY <1>14
  <2>2. mtime'[o] = PhonyMtime(FALSE, files[o], newest)
    BY <1>4, <1>6 DEF PhonyMtime
  <2> QED BY <2>1, <2>2
<1>25. Settled(e)'
  BY <1>21, <1>23, <1>24 DEF Settled, outs, PhonyMtime
<1>26. Done' \subseteq Done \cup {e}
  BY <1>1 DEF Done, Walk, Typed, TypeOK
<1> QED BY <1>10, <1>15, <1>25, <1>26 DEF Marks

LEMMA MarksPreserved == Walk /\ Marks /\ [Next]_vars => Marks'
<1> SUFFICES ASSUME Walk, Marks, [Next]_vars PROVE Marks'
  OBVIOUS
<1>1. CASE \/ NextTarget \/ ScanDone \/ ReadFails \/ UNCHANGED vars
           \/ \E n \in Node : Skip(n) \/ RefuseCycle(n)
  <2>1. UNCHANGED <<mark, loaded, deps_missing, outputs_ready, dirty, mtime, exists, entry>>
    BY <1>1 DEF NextTarget, ScanDone, ReadFails, vars, Skip, RefuseCycle, fileVars
  <2>2. KnownFixed /\ Done' = Done
    BY <2>1 DEF KnownFixed, Done
  <2>3. NodesMarked'
    BY <2>1 DEF Marks, NodesMarked, Known
  <2> QED BY <2>1, <2>2, <2>3, MarksStay
<1>2. CASE \E n \in Node : VisitLeaf(n)
  BY <1>2, VisitMarks
<1>3. CASE \E n \in Node : EntersEdge(n)
  BY <1>3, EnterMarks
<1>4. CASE Leave
  BY <1>4, LeaveMarks
<1>5. CASE Reset
  <2>1. /\ \A n \in Node : exists'[n] = "unknown" /\ ~dirty'[n]
        /\ \A e \in Edge : mark'[e] = "none"
    BY <1>5 DEF Reset
  <2>2. \A n \in Node : ~Known(n)'
    BY <2>1, InEdgeOf DEF Known
  <2>3. Done' = {}
    BY <2>1 DEF Done
  <2> QED BY <2>1, <2>2, <2>3 DEF Marks, NodesMarked
<1> QED BY <1>1, <1>2, <1>3, <1>4, <1>5 DEF Next, Step, Stopped, EntersEdge

LEMMA InitMarks == Init => Marks
<1> SUFFICES ASSUME Init PROVE Marks
  OBVIOUS
<1>1. /\ \A n \in Node : exists[n] = "unknown" /\ ~dirty[n]
      /\ \A e \in Edge : mark[e] = "none"
  BY DEF Init
<1>2. \A n \in Node : ~Known(n)
  BY <1>1, InEdgeOf DEF Known
<1>3. Done = {}
  BY <1>1 DEF Done
<1> QED BY <1>1, <1>2, <1>3 DEF Marks, NodesMarked

---------------------------------------------------------------------------
(* What a name stands for *)

(* A name that is no file, which a phony edge makes, stands for what it is *)
(* made from; a set of nodes is closed when it has that, too.              *)
StandsFor(n) == exists[n] # "exists" /\ InEdge[n] \in Phony
ClosedNodes ==
  {C \in SUBSET Node : \A k \in C : StandsFor(k) => RegularInputs[InEdge[k]] \subseteq C}
Behind(n) == {k \in Node : \A C \in ClosedNodes : n \in C => k \in C}
MtimesBehind(n) == {mtime[k] : k \in {k \in Behind(n) : exists[k] = "exists"}} \cup {0}

LEMMA PhonyInputs ==
  ASSUME NEW n \in Node, InEdge[n] \in Phony
  PROVE  InEdge[n] \in Edge /\ RegularInputs[InEdge[n]] \in SUBSET Node
BY GraphFacts, GraphTyped

LEMMA BehindFacts ==
  ASSUME NEW n \in Node
  PROVE  /\ n \in Behind(n) /\ Behind(n) \in SUBSET Node /\ Behind(n) \in ClosedNodes
         /\ ~StandsFor(n) => Behind(n) = {n}
         /\ StandsFor(n) =>
              /\ \A i \in RegularInputs[InEdge[n]] : Behind(i) \subseteq Behind(n)
              /\ \A k \in Behind(n) : k = n \/ \E i \in RegularInputs[InEdge[n]] : k \in Behind(i)
<1>1. n \in Behind(n) /\ Behind(n) \in SUBSET Node
  BY DEF Behind
<1>2. ASSUME NEW j \in Node PROVE Behind(j) \in ClosedNodes
  <2>1. ASSUME NEW k \in Behind(j), StandsFor(k), NEW i \in RegularInputs[InEdge[k]]
        PROVE  i \in Behind(j)
    <3>1. k \in Node /\ i \in Node
      BY <2>1, PhonyInputs DEF Behind, StandsFor
    <3>2. ASSUME NEW C \in ClosedNodes, j \in C PROVE i \in C
      <4>1. k \in C
        BY <3>2 DEF Behind
      <4> QED BY <2>1, <4>1 DEF ClosedNodes
    <3> QED BY <3>1, <3>2 DEF Behind
  <2>2. Behind(j) \in SUBSET Node
    BY DEF Behind
  <2> QED BY <2>1, <2>2 DEF ClosedNodes
<1>3. ASSUME ~StandsFor(n) PROVE Behind(n) = {n}
  <2>1. {n} \in ClosedNodes
    BY <1>3 DEF ClosedNodes
  <2> QED BY <1>1, <2>1 DEF Behind
<1>4. ASSUME StandsFor(n) PROVE \A i \in RegularInputs[InEdge[n]] : Behind(i) \subseteq Behind(n)
  <2>1. \A i \in RegularInputs[InEdge[n]] : i \in Behind(n)
    BY <1>1, <1>2, <1>4 DEF ClosedNodes
  <2> QED BY <1>2, <2>1 DEF Behind
<1>5. ASSUME StandsFor(n), NEW k \in Behind(n)
      PROVE  k = n \/ \E i \in RegularInputs[InEdge[n]] : k \in Behind(i)
  <2> DEFINE C == {n} \cup {j \in Node : \E i \in RegularInputs[InEdge[n]] : j \in Behind(i)}
  <2>1. \A i \in RegularInputs[InEdge[n]] : i \in Node /\ i \in Behind(i)
    BY <1>5, PhonyInputs DEF StandsFor, Behind
  <2>2. ASSUME NEW j \in C, StandsFor(j), NEW x \in RegularInputs[InEdge[j]] PROVE x \in C
    <3>1. j \in Node /\ x \in Node
      BY <2>2, PhonyInputs DEF StandsFor
    <3>2. CASE j = n
      BY <2>1, <2>2, <3>1, <3>2
    <3>3. CASE j # n
      <4>1. PICK i \in RegularInputs[InEdge[n]] : j \in Behind(i)
        BY <3>3
      <4>2. i \in Node
        BY <2>1
      <4>3. x \in Behind(i)
        BY <1>2, <2>2, <4>1, <4>2 DEF ClosedNodes
      <4> QED BY <3>1, <4>3
    <3> QED BY <3>2, <3>3
  <2>3. C \in ClosedNodes
    BY <2>2 DEF ClosedNodes
  <2>4. k \in C
    BY <2>3 DEF Behind
  <2> QED BY <2>4
<1> QED BY <1>1, <1>2, <1>3, <1>4, <1>5

(* The newest of a finite set of mtimes and 0.                             *)
Latest(S) == CHOOSE t \in S : \A u \in S : u <= t

LEMMA LatestBehind ==
  ASSUME TypeOK, NEW n \in Node
  PROVE  LET S == MtimesBehind(n) IN
         /\ S \in SUBSET Nat /\ 0 \in S
         /\ Latest(S) \in S /\ \A u \in S : u <= Latest(S)
<1> DEFINE S == MtimesBehind(n)
           there == {k \in Behind(n) : exists[k] = "exists"}
           times == {mtime[k] : k \in there}
           f == [k \in there |-> mtime[k]]
<1>1. there \in SUBSET Node
  BY DEF Behind
<1>2. IsFiniteSet(there)
  BY <1>1, ScanConstants, FS_Subset
<1>3. f \in Surjection(there, times)
  BY DEF Surjection
<1>4. IsFiniteSet(times)
  <2> HIDE DEF there, times, f
  <2> QED BY <1>2, <1>3, FS_Surjection
<1>5. \A k \in there : mtime[k] \in Nat
  <2> SUFFICES ASSUME NEW k \in there PROVE mtime[k] \in Nat
    OBVIOUS
  <2>1. k \in Node /\ exists[k] = "exists"
    BY <1>1
  <2> QED BY <2>1 DEF TypeOK
<1>6. times \in SUBSET Nat
  BY <1>5
<1>7. S = times \cup {0}
  BY DEF MtimesBehind
<1> HIDE DEF there, times, f, S
<1>8. IsFiniteSet(S) /\ S \in SUBSET Int /\ S \in SUBSET Nat /\ 0 \in S
  <2>1. IsFiniteSet({0})
    BY FS_Singleton
  <2>2. IsFiniteSet(times \cup {0})
    BY <1>4, <2>1, FS_Union
  <2> QED BY <1>6, <1>7, <2>2
<1>9. \E t \in S : \A u \in S : u <= t
  BY <1>8, GreatestElement
<1>10. Latest(S) \in S /\ \A u \in S : u <= Latest(S)
  BY <1>9 DEF Latest
<1> QED BY <1>8, <1>10 DEF S

(* Latest is what NewestBehind is defined to be.                           *)
NewestFrom(g, n) ==
  IF exists[n] = "exists" THEN mtime[n]
  ELSE IF InEdge[n] \notin Phony THEN 0
  ELSE LET times == {g[i] : i \in RegularInputs[InEdge[n]]}
       IN  CHOOSE t \in times \cup {0} : \A u \in times : u <= t

LEMMA LatestSolves ==
  ASSUME TypeOK, NEW n \in Node, NEW g, \A k \in Node : g[k] = Latest(MtimesBehind(k))
  PROVE  g[n] = NewestFrom(g, n)
<1>1. \A k \in Node : /\ MtimesBehind(k) \in SUBSET Nat /\ 0 \in MtimesBehind(k)
                      /\ g[k] \in MtimesBehind(k) /\ \A u \in MtimesBehind(k) : u <= g[k]
  BY LatestBehind
<1>2. CASE exists[n] = "exists"
  <2>1. Behind(n) = {n}
    BY <1>2, BehindFacts DEF StandsFor
  <2>2. MtimesBehind(n) = {mtime[n], 0} /\ mtime[n] \in Nat
    <3>1. mtime[n] \in Nat
      BY <1>2 DEF TypeOK
    <3> QED BY <1>2, <2>1, <3>1 DEF MtimesBehind
  <2>3. g[n] = mtime[n]
    BY <1>1, <2>2
  <2> QED BY <1>2, <2>3 DEF NewestFrom
<1>3. CASE exists[n] # "exists" /\ InEdge[n] \notin Phony
  <2>1. Behind(n) = {n}
    BY <1>3, BehindFacts DEF StandsFor
  <2>2. MtimesBehind(n) = {0}
    BY <1>3, <2>1 DEF MtimesBehind
  <2>3. g[n] = 0
    BY <1>1, <2>2
  <2> QED BY <1>3, <2>3 DEF NewestFrom
<1>4. CASE exists[n] # "exists" /\ InEdge[n] \in Phony
  <2> DEFINE R == RegularInputs[InEdge[n]]
             times == {g[i] : i \in R}
             P(t) == t \in times \cup {0} /\ \A u \in times : u <= t
  <2>1. R \in SUBSET Node /\ StandsFor(n)
    BY <1>4, PhonyInputs DEF StandsFor
  <2>2. \A i \in R : MtimesBehind(i) \subseteq MtimesBehind(n)
    <3>1. \A i \in R : Behind(i) \subseteq Behind(n)
      BY <2>1, BehindFacts
    <3> QED BY <3>1 DEF MtimesBehind
  <2>3. \A u \in MtimesBehind(n) : u = 0 \/ \E i \in R : u \in MtimesBehind(i)
    <3> SUFFICES ASSUME NEW u \in MtimesBehind(n), u # 0
                 PROVE  \E i \in R : u \in MtimesBehind(i)
      OBVIOUS
    <3>1. PICK k \in Behind(n) : exists[k] = "exists" /\ u = mtime[k]
      BY DEF MtimesBehind
    <3>2. PICK i \in R : k \in Behind(i)
      BY <1>4, <2>1, <3>1, BehindFacts
    <3> QED BY <3>1, <3>2 DEF MtimesBehind
  <2> HIDE DEF R
  <2>4. \A u \in times : u \in Nat /\ u <= g[n]
    BY <1>1, <2>1, <2>2
  <2>5. g[n] \in times \cup {0}
    <3>1. CASE g[n] = 0
      BY <3>1
    <3>2. CASE g[n] # 0
      <4>1. PICK i \in R : g[n] \in MtimesBehind(i)
        BY <1>1, <2>3, <3>2
      <4>2. g[n] <= g[i] /\ g[i] <= g[n] /\ g[i] \in Nat /\ g[n] \in Nat
        BY <1>1, <2>1, <2>4, <4>1
      <4>3. g[n] = g[i]
        BY <4>2
      <4> QED BY <4>3
    <3> QED BY <3>1, <3>2
  <2>6. g[n] \in Nat
    BY <1>1
  <2> HIDE DEF times
  <2>7. P(g[n])
    BY <2>4, <2>5
  <2>8. \A t : P(t) => t = g[n]
    <3> SUFFICES ASSUME NEW t, P(t) PROVE t = g[n]
      OBVIOUS
    <3>1. t \in Nat /\ t <= g[n]
      BY <2>4, <2>6
    <3>2. CASE g[n] \in times
      BY <2>6, <3>1, <3>2
    <3>3. CASE g[n] = 0
      BY <3>1, <3>3
    <3> QED BY <2>5, <3>2, <3>3
  <2>9. g[n] = CHOOSE t \in times \cup {0} : \A u \in times : u <= t
    BY <2>7, <2>8
  <2>10. NewestFrom(g, n) = CHOOSE t \in times \cup {0} : \A u \in times : u <= t
    BY <1>4 DEF NewestFrom, times, R
  <2> QED BY <2>9, <2>10
<1> QED BY <1>2, <1>3, <1>4

(* NewestBehind has a value, also where phony edges go in circles.         *)
LEMMA NewestBehindIs ==
  ASSUME TypeOK
  PROVE  \A n \in Node : NewestBehind[n] = NewestFrom(NewestBehind, n)
<1> DEFINE Body(g) == [n \in Node |-> NewestFrom(g, n)]
           f == [n \in Node |-> Latest(MtimesBehind(n))]
<1>1. f = Body(f)
  <2>1. \A n \in Node : f[n] = Latest(MtimesBehind(n))
    OBVIOUS
  <2> HIDE DEF f
  <2>2. \A n \in Node : f[n] = NewestFrom(f, n)
    BY <2>1, LatestSolves
  <2>3. f = [n \in Node |-> f[n]]
    BY DEF f
  <2> QED BY <2>2, <2>3
<1>2. NewestBehind = CHOOSE g : g = Body(g)
  BY DEF NewestBehind, NewestFrom
<1> HIDE DEF Body, f
<1>3. NewestBehind = Body(NewestBehind)
  BY <1>1, <1>2
<1> QED BY <1>3 DEF Body

---------------------------------------------------------------------------
(* The contract *)

(* Deps that are not missing are all among the inputs.                     *)
LEMMA AllInputsLoaded ==
  ASSUME DepsLoaded, NEW e \in Done, e \notin deps_missing
  PROVE  RegularNow(e, loaded) = RegularInputs[e] /\ InputsNow(e, loaded) = Inputs(e)
<1>1. e \in Edge /\ mark[e] # "none"
  BY DEF Done
<1>2. e \in HasDeps => e \in loaded
  BY <1>1 DEF DepsLoaded
<1>3. e \notin HasDeps => Discovered[e] = {}
  BY <1>1, ScanConstants
<1>4. RegularNow(e, loaded) = RegularInputs[e]
  BY <1>2, <1>3 DEF RegularNow
<1> QED BY <1>4 DEF InputsNow, Inputs

(* The inputs of a finished edge none of whose inputs is dirty.            *)
LEMMA CleanInputs ==
  ASSUME Walk, Marks, DepsLoaded, NEW e \in Done, ~ByInput(e)
  PROVE  LET R == RegularInputs[e] IN
         /\ R = RegularNow(e, loaded) /\ R \in SUBSET Node /\ InputsNow(e, loaded) = Inputs(e)
         /\ \A i \in R : Known(i) /\ ~dirty[i] /\ mtime[i] \in Nat
         /\ Newest(e) \in Nat \cup {-1}
         /\ R = {} => Newest(e) = -1
         /\ R # {} => \E i \in R : Newest(e) = mtime[i]
         /\ \A i \in R : mtime[i] <= Newest(e)
<1> DEFINE R == RegularInputs[e]
<1>1. e \notin deps_missing /\ \A i \in RegularNow(e, loaded) : ~dirty[i]
  BY DEF ByInput
<1>2. R = RegularNow(e, loaded) /\ InputsNow(e, loaded) = Inputs(e)
  BY <1>1, AllInputsLoaded
<1>3. R \in SUBSET Node
  BY GraphFacts DEF Done
<1>4. \A i \in R : Known(i) /\ ~dirty[i]
  BY <1>1, <1>2, DoneKnown
<1>5. \A i \in R : mtime[i] \in Nat
  <2> SUFFICES ASSUME NEW i \in R PROVE mtime[i] \in Nat
    OBVIOUS
  <2>1. i \in Node /\ exists[i] # "unknown"
    BY <1>3, <1>4, KnownStatted
  <2> QED BY <2>1 DEF Walk, Typed, TypeOK
<1>6. Newest(e) = NewestOf(R, mtime, dirty) /\ mtime \in [Node -> Nat \cup {-1}]
  BY <1>2, NewestIs DEF Walk, Typed, TypeOK
<1> HIDE DEF R
<1>7. {i \in R : ~dirty[i]} = R
  BY <1>4
<1>8. /\ Newest(e) \in Nat \cup {-1}
      /\ R = {} => Newest(e) = -1
      /\ R # {} => \E i \in R : Newest(e) = mtime[i]
      /\ \A i \in R : mtime[i] <= Newest(e)
  BY <1>3, <1>6, <1>7, NewestTyped
<1> QED BY <1>2, <1>3, <1>4, <1>5, <1>8 DEF R

LEMMA SourceNewest ==
  ASSUME Walk, Marks, NEW n \in Node, Known(n), exists[n] = "exists" \/ (InEdge[n] = NoEdge /\ ~dirty[n])
  PROVE  NewestBehind[n] = mtime[n]
<1>1. exists[n] = "exists"
  <2>1. exists[n] # "unknown"
    BY KnownStatted
  <2> QED BY <2>1 DEF Marks, NodesMarked, Walk, Typed, TypeOK
<1>2. NewestBehind[n] = NewestFrom(NewestBehind, n)
  BY NewestBehindIs DEF Walk, Typed
<1> QED BY <1>1, <1>2 DEF NewestFrom

(* If the newest behind a clean name is not its mtime, so it is for one of *)
(* the inputs.                                                             *)
LEMMA NewestFromInputs ==
  ASSUME Walk, Marks, DepsLoaded, NEW e \in Done, NEW o \in Outputs[e], ~dirty[o],
         NewestBehind[o] # mtime[o]
  PROVE  /\ ~ByInput(e)
         /\ \E i \in RegularInputs[e] : NewestBehind[i] # mtime[i]
<1> DEFINE R == RegularInputs[e]
           new == Newest(e)
<1>1. Settled(e) /\ o \in Node /\ Known(o) /\ e \in Edge /\ InEdge[o] = e
  BY DoneKnown, InEdgeOf DEF Marks
<1>2. ~ByInput(e) /\ ~ByItself(e)
  BY <1>1 DEF Settled, Stale
<1>3. exists[o] = "missing"
  BY <1>1, KnownStatted, SourceNewest DEF Walk, Typed, TypeOK
<1>4. e \in Phony
  <2>1. ~RecomputeOutputDirty(e, o, Newest(e), exists[o] = "exists", mtime[o], entry[o])
    BY <1>2 DEF ByItself
  <2> QED BY <1>3, <2>1 DEF RecomputeOutputDirty
<1>5. mtime[o] = IF new > 0 THEN new ELSE 0
  BY <1>1, <1>2, <1>3, <1>4 DEF Settled, PhonyMtime
<1>6. /\ R \in SUBSET Node /\ \A i \in R : mtime[i] \in Nat /\ mtime[i] <= new
      /\ new \in Nat \cup {-1}
      /\ R = {} => new = -1
      /\ R # {} => \E i \in R : new = mtime[i]
  BY <1>2, CleanInputs
<1>7. ASSUME \A i \in R : NewestBehind[i] = mtime[i] PROVE FALSE
  <2> DEFINE times == {NewestBehind[i] : i \in R}
             P(t) == t \in times \cup {0} /\ \A u \in times : u <= t
             v == IF new > 0 THEN new ELSE 0
  <2>1. NewestBehind[o] = CHOOSE t \in times \cup {0} : \A u \in times : u <= t
    <3>1. NewestBehind[o] = NewestFrom(NewestBehind, o)
      BY <1>1, NewestBehindIs DEF Walk, Typed
    <3> QED BY <1>1, <1>3, <1>4, <3>1 DEF NewestFrom
  <2>2. times = {mtime[i] : i \in R}
    BY <1>7
  <2>3. /\ \A u \in times : u \in Nat /\ u <= new
        /\ new \in times \/ new = -1
    BY <1>6, <2>2
  <2> HIDE DEF R, new, times
  <2>4. v \in Nat /\ P(v)
    BY <1>6, <2>3
  <2>5. \A t : P(t) => t = v
    <3> SUFFICES ASSUME NEW t, P(t) PROVE t = v
      OBVIOUS
    <3>1. t \in Nat
      BY <2>3
    <3>2. new \in times => new <= t
      OBVIOUS
    <3>3. t = 0 \/ t <= new
      BY <2>3
    <3> QED BY <1>6, <2>3, <3>1, <3>2, <3>3
  <2>6. v = CHOOSE t \in times \cup {0} : \A u \in times : u <= t
    BY <2>4, <2>5
  <2> QED BY <1>5, <2>1, <2>6
<1> QED BY <1>2, <1>7

(* What is compared is what should be: a clean node has the mtime of the   *)
(* newest behind it.                                                       *)
LEMMA CleanIsNewest ==
  ASSUME Walk, Marks, DepsLoaded, NoCycleDone, NEW n \in Node, Known(n), ~dirty[n]
  PROVE  NewestBehind[n] = mtime[n]
<1> DEFINE Bad == {e \in Done : \E o \in Outputs[e] : ~dirty[o] /\ NewestBehind[o] # mtime[o]}
<1>1. ASSUME NEW e \in Bad PROVE \E f \in Bad : Outputs[f] \cap InputsNow(e, loaded) # {}
  <2>1. PICK o \in Outputs[e] : ~dirty[o] /\ NewestBehind[o] # mtime[o]
    OBVIOUS
  <2>2. ~ByInput(e) /\ e \in Done /\ \E i \in RegularInputs[e] : NewestBehind[i] # mtime[i]
    BY <2>1, NewestFromInputs
  <2>3. PICK i \in RegularInputs[e] : NewestBehind[i] # mtime[i]
    BY <2>2
  <2>4. i \in Node /\ Known(i) /\ ~dirty[i] /\ i \in InputsNow(e, loaded)
    BY <2>2, CleanInputs DEF Inputs
  <2>5. InEdge[i] # NoEdge
    BY <2>3, <2>4, SourceNewest
  <2>6. InEdge[i] \in Done /\ i \in Outputs[InEdge[i]]
    BY <2>4, <2>5, InEdgeOf DEF Known, Done
  <2>7. InEdge[i] \in Bad
    BY <2>3, <2>4, <2>6
  <2> QED BY <2>4, <2>6, <2>7
<1>2. Bad = {}
  BY <1>1 DEF NoCycleDone, HasCycle
<1>3. CASE InEdge[n] = NoEdge
  BY <1>3, SourceNewest
<1>4. CASE InEdge[n] # NoEdge
  <2>1. InEdge[n] \in Done /\ n \in Outputs[InEdge[n]]
    BY <1>4, InEdgeOf DEF Known, Done
  <2> QED BY <1>2, <2>1
<1> QED BY <1>3, <1>4

(* The comparison with the newest input is the one with all of them.       *)
LEMMA OutOfDateIs ==
  ASSUME Walk, Marks, DepsLoaded, NoCycleDone, NEW e \in Done, ~ByInput(e)
  PROVE  ByItself(e) <=> OutOfDate(e)
<1> DEFINE R == RegularInputs[e]
           new == Newest(e)
           NewerThan(t) == \E i \in R : NewestBehind[i] > t
<1>1. /\ R \in SUBSET Node /\ InputsNow(e, loaded) = Inputs(e)
      /\ \A i \in R : Known(i) /\ ~dirty[i] /\ mtime[i] \in Nat /\ mtime[i] <= new
      /\ new \in Nat \cup {-1}
      /\ R = {} => new = -1
      /\ R # {} => \E i \in R : new = mtime[i]
  BY CleanInputs
<1>2. \A i \in R : NewestBehind[i] = mtime[i]
  BY <1>1, CleanIsNewest
<1>3. ASSUME NEW t \in Nat PROVE NewerThan(t) <=> t < new
  <2> HIDE DEF R, new
  <2> QED BY <1>1, <1>2
<1>4. ASSUME NEW o \in Outputs[e]
      PROVE  RecomputeOutputDirty(e, o, new, exists[o] = "exists", mtime[o], entry[o]) <=>
               IF e \in Phony
               THEN exists[o] = "missing" /\ Inputs(e) \cup Validations[e] = {}
               ELSE \/ exists[o] = "missing"
                    \/ NewerThan(mtime[o]) /\ ~(entry[o].found /\ e \in Restat)
                    \/ entry[o].found /\ NewerThan(entry[o].mtime)
                    \/ e \notin Generator /\ (entry[o].found => ~entry[o].same)
  <2>1. o \in Node /\ Known(o) /\ exists[o] # "unknown"
    BY DoneKnown, KnownStatted
  <2>2. /\ mtime[o] \in Nat /\ exists[o] \in {"missing", "exists"}
        /\ entry[o].mtime \in Nat /\ entry[o].found \in BOOLEAN /\ entry[o].same \in BOOLEAN
    BY <2>1 DEF Walk, Typed, TypeOK, LogEntry
  <2>3. /\ NewerThan(mtime[o]) <=> mtime[o] < new
        /\ NewerThan(entry[o].mtime) <=> entry[o].mtime < new
    BY <1>3, <2>2
  <2> HIDE DEF NewerThan, new
  <2> QED BY <1>1, <2>2, <2>3 DEF RecomputeOutputDirty
<1> QED BY <1>4 DEF ByItself, OutOfDate

LEMMA MarksKeepContract ==
  ASSUME Walk, Marks, DepsLoaded, NoCycleDone, \A e \in Phony : Discovered[e] = {}
  PROVE  ContractKept
<1> DEFINE stale == {e \in Done : e \notin deps_missing /\ OutOfDate(e)}
<1>1. ASSUME NEW e \in Done
      PROVE  KeepsContract(e, dirty, outputs_ready, stale, deps_missing)
  <2> DEFINE isDirty == EdgeDirty(e, dirty, stale, deps_missing)
  <2>1. e \in Edge /\ Settled(e)
    BY DEF Marks, Done
  <2>2. CASE e \in deps_missing
    <3>1. isDirty /\ Stale(e)
      BY <2>2 DEF EdgeDirty, Stale, ByInput
    <3>2. \A o \in Outputs[e] : dirty[o] = isDirty
      BY <2>1, <3>1, GraphFacts DEF Settled, Walk, Typed, TypeOK
    <3>3. e \in Phony => InputsNow(e, loaded) = Inputs(e)
      BY DEF InputsNow, RegularNow, Inputs
    <3>4. outputs_ready[e] <=> AllInputsReady(e, outputs_ready)
                               /\ (isDirty => e \in Phony /\ Inputs(e) = {})
      <4>1. CASE e \in Phony
        <5>1. InputsReady(e) <=> AllInputsReady(e, outputs_ready)
          BY <2>1, <3>3, <4>1 DEF InputsReady, AllInputsReady, Producers
        <5> QED BY <2>1, <3>1, <3>3, <4>1, <5>1 DEF Settled
      <4>2. CASE e \notin Phony
        BY <2>1, <3>1, <4>2 DEF Settled
      <4> QED BY <4>1, <4>2
    <3> QED BY <2>1, <3>2, <3>4 DEF KeepsContract, Walk, Typed, TypeOK
  <2>3. CASE e \notin deps_missing
    <3>1. RegularNow(e, loaded) = RegularInputs[e] /\ InputsNow(e, loaded) = Inputs(e)
      BY <2>3, AllInputsLoaded
    <3>2. isDirty <=> Stale(e)
      <4>1. ByInput(e) <=> \E i \in RegularInputs[e] : dirty[i]
        BY <2>3, <3>1 DEF ByInput
      <4>2. ~ByInput(e) => (ByItself(e) <=> e \in stale)
        BY <2>3, OutOfDateIs
      <4> HIDE DEF stale
      <4> QED BY <2>3, <4>1, <4>2 DEF Stale, EdgeDirty
    <3>3. \A o \in Outputs[e] : dirty[o] = isDirty
      <4> HIDE DEF isDirty
      <4>1. \A o \in Outputs[e] : dirty[o] \in BOOLEAN /\ (dirty[o] <=> isDirty)
        BY <2>1, <3>2, GraphFacts DEF Settled, Walk, Typed, TypeOK
      <4>2. isDirty \in BOOLEAN
        BY DEF isDirty, EdgeDirty
      <4> QED BY <4>1, <4>2
    <3>4. InputsReady(e) <=> AllInputsReady(e, outputs_ready)
      BY <2>1, <3>1 DEF InputsReady, AllInputsReady, Producers
    <3>5. outputs_ready[e] <=> AllInputsReady(e, outputs_ready)
                               /\ (isDirty => e \in Phony /\ Inputs(e) = {})
      <4> HIDE DEF isDirty
      <4> QED BY <2>1, <3>1, <3>2, <3>4 DEF Settled
    <3> QED BY <2>1, <3>3, <3>5 DEF KeepsContract, Walk, Typed, TypeOK
  <2> QED BY <2>2, <2>3
<1>2. \A n \in Node : InEdge[n] = NoEdge /\ exists[n] # "unknown"
                      => dirty[n] = (exists[n] = "missing")
  <2> SUFFICES ASSUME NEW n \in Node, InEdge[n] = NoEdge, exists[n] # "unknown"
               PROVE  dirty[n] = (exists[n] = "missing")
    OBVIOUS
  <2>1. dirty[n] \in BOOLEAN /\ (dirty[n] <=> exists[n] = "missing")
    BY DEF Marks, NodesMarked, Known, Walk, Typed, TypeOK
  <2> QED BY <2>1
<1> QED BY <1>1, <1>2 DEF ContractKept, Done

(* The marks are those of ScanContract: an edge is dirty exactly when its  *)
(* files or its log entry are out of date by a definition that knows no    *)
(* walk, when its deps are missing, or a regular input is dirty, and ready *)
(* when it and all below are clean (scan.go:147-190).  For every graph     *)
(* whose phony edges have no deps record: they run no command.             *)
THEOREM ContractIsKept == (\A e \in Phony : Discovered[e] = {}) => (Spec => []ContractKept)
<1> SUFFICES ASSUME \A e \in Phony : Discovered[e] = {} PROVE Spec => []ContractKept
  OBVIOUS
<1>1. Init => Marks /\ DepsLoaded /\ CycleShown /\ NoCycleDone
  <2> SUFFICES ASSUME Init PROVE DepsLoaded /\ CycleShown /\ NoCycleDone
    BY InitMarks
  <2>1. pc = "scan" /\ Done = {} /\ \A e \in Edge : mark[e] = "none"
    BY DEF Init, Done
  <2> QED BY <2>1, GraphFacts DEF CycleShown, NoCycleDone, HasCycle, DepsLoaded
<1>2. Walk /\ Marks /\ DepsLoaded /\ NoCycleDone => ContractKept
  BY MarksKeepContract
<1> QED BY <1>1, <1>2, WalkAlways, MarksPreserved, DepsPreserved, CyclesPreserved, PTL DEF Spec
=============================================================================
