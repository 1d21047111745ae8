---------------------------- MODULE DepsLogProofs ----------------------------
(***************************************************************************)
(* What a session that loads the deps log knows, wherever earlier sessions *)
(* died, and what a repair keeps, for any outputs and lists of deps.       *)
(***************************************************************************)
EXTENDS DepsLog, SequenceLemmas

---------------------------------------------------------------------------
(* Words, paths and deps *)

(* Words as they come in any file: the size of a record covers what every  *)
(* record has.                                                             *)
Wd == {w \in Words : /\ w.kind = "node" => w.value >= 1
                     /\ w.kind = "deps" => w.value >= 3}
Path == Seq(Wd)
Dep == [mtime : Wd \X Wd, nodes : Seq(Path)]
DepOrNone == Dep \cup {NoDeps}
PathWord == [kind : {"path"}, value : Nat]

LEMMA WordFacts ==
  ASSUME NEW k \in Kinds, NEW v \in Nat,
         k = "node" => v >= 1, k = "deps" => v >= 3
  PROVE  W(k, v) \in Wd /\ W(k, v).kind = k /\ W(k, v).value = v
BY DEF W, Wd, Words

LEMMA WordsAreTyped ==
  /\ \A w \in Wd : w.kind \in Kinds /\ w.value \in Nat
  /\ \A w \in Wd : w.kind = "node" => w.value >= 1
  /\ \A w \in Wd : w.kind = "deps" => w.value >= 3
  /\ PathWord \subseteq Wd /\ Zero \in Wd
BY DEF Wd, Words, Kinds, PathWord, Zero, W

LEMMA HeaderTyped ==
  /\ Header \in Seq(Wd) /\ Len(Header) = 2
  /\ Header[1].kind = "signature" /\ Header[2].kind = "version"
  /\ Header[1] \in Wd /\ Header[2] \in Wd
<1>1. W("signature", 0) \in Wd /\ W("version", 4) \in Wd
      /\ W("signature", 0).kind = "signature" /\ W("version", 4).kind = "version"
  BY WordFacts DEF Kinds
<1> QED BY <1>1 DEF Header

LEMMA PathsTyped == \A n \in Node : PathOf[n] \in Seq(PathWord) /\ PathOf[n] \in Path
<1> SUFFICES ASSUME NEW n \in Node PROVE PathOf[n] \in Seq(PathWord) /\ PathOf[n] \in Path
  OBVIOUS
<1>1. PathOf[n] \in Seq(PathWord)
  BY DepsLogConstants DEF PathWord
<1>2. PathWord \subseteq Wd
  BY WordsAreTyped
<1> QED BY <1>1, <1>2 DEF Path

---------------------------------------------------------------------------
(* Ids *)

LEMMA IdOfFacts ==
  ASSUME NEW S, NEW m \in Seq(S), NEW p
  PROVE  /\ p \in ToSet(m) => IdOf(p, m) \in 0 .. Len(m) - 1 /\ m[IdOf(p, m) + 1] = p
         /\ p \notin ToSet(m) => IdOf(p, m) = -1
<1> DEFINE I == {i \in 1 .. Len(m) : m[i] = p}
<1>1. IdOf(p, m) = (IF I # {} THEN Min(I) ELSE 0) - 1
  BY DEF IdOf, SelectInSeq
<1>2. p \in ToSet(m) <=> I # {}
  BY DEF ToSet
<1>3. ASSUME I # {} PROVE Min(I) \in I
  <2>1. \E x \in I : \A y \in I : x <= y
    <3>1. I \subseteq Nat
      OBVIOUS
    <3> HIDE DEF I
    <3> QED BY <1>3, <3>1, LeastElement
  <2> HIDE DEF I
  <2> QED BY <2>1 DEF Min
<1>4. CASE I # {}
  <2>1. Min(I) \in 1 .. Len(m) /\ m[Min(I)] = p
    BY <1>3, <1>4
  <2> HIDE DEF I
  <2> QED BY <1>1, <1>2, <1>4, <2>1
<1>5. CASE I = {}
  <2> HIDE DEF I
  <2> QED BY <1>1, <1>2, <1>5
<1> QED BY <1>4, <1>5

LEMMA IdUnique ==
  ASSUME NEW S, NEW m \in Seq(S), IsInjective(m), NEW i \in 1 .. Len(m)
  PROVE  IdOf(m[i], m) = i - 1
<1>1. m[i] \in ToSet(m) /\ DOMAIN m = 1 .. Len(m)
  BY DEF ToSet
<1>2. IdOf(m[i], m) \in 0 .. Len(m) - 1 /\ m[IdOf(m[i], m) + 1] = m[i]
  BY <1>1, IdOfFacts
<1>3. IdOf(m[i], m) + 1 = i
  BY <1>1, <1>2 DEF IsInjective
<1> QED BY <1>2, <1>3

Extends(m, t) == Len(m) <= Len(t) /\ \A i \in 1 .. Len(m) : t[i] = m[i]

(* What is known of path when nodes_ is m and deps_ is d.                  *)
Got(path, m, d) ==
  LET id == IdOf(path, m)
  IN IF id \in 0 .. Len(d) - 1 THEN d[id + 1] ELSE NoDeps

LEMMA GotNow == \A path : GetDeps(path) = Got(path, nodes, deps)
BY DEF GetDeps, Got

LEMMA IdExtends ==
  ASSUME NEW S, NEW m \in Seq(S), NEW t \in Seq(S), IsInjective(t), Extends(m, t),
         NEW p \in ToSet(m)
  PROVE  IdOf(p, t) = IdOf(p, m)
<1>1. IdOf(p, m) \in 0 .. Len(m) - 1 /\ m[IdOf(p, m) + 1] = p
  BY IdOfFacts
<1>2. IdOf(p, m) + 1 \in 1 .. Len(m) /\ IdOf(p, m) + 1 \in 1 .. Len(t)
  BY <1>1 DEF Extends
<1>3. t[IdOf(p, m) + 1] = p
  BY <1>1, <1>2 DEF Extends
<1> QED BY <1>1, <1>2, <1>3, IdUnique

(* More nodes change nothing of what is known.                             *)
LEMMA GotExtends ==
  ASSUME NEW S, NEW m \in Seq(S), NEW t \in Seq(S), IsInjective(t), Extends(m, t),
         NEW D, NEW d \in Seq(D), Len(d) <= Len(m), NEW p
  PROVE  Got(p, t, d) = Got(p, m, d)
<1>1. CASE p \in ToSet(m)
  BY <1>1, IdExtends DEF Got
<1>2. CASE p \notin ToSet(m)
  <2>1. IdOf(p, m) = -1
    BY <1>2, IdOfFacts
  <2>2. IdOf(p, t) \notin 0 .. Len(d) - 1
    <3> SUFFICES ASSUME IdOf(p, t) \in 0 .. Len(d) - 1 PROVE FALSE
      OBVIOUS
    <3>1. p \in ToSet(t)
      BY IdOfFacts
    <3>2. t[IdOf(p, t) + 1] = p
      BY <3>1, IdOfFacts
    <3>3. IdOf(p, t) + 1 \in 1 .. Len(m)
      OBVIOUS
    <3>4. m[IdOf(p, t) + 1] = p
      BY <3>2, <3>3 DEF Extends
    <3> QED BY <1>2, <3>3, <3>4 DEF ToSet
  <2>3. ~ (IdOf(p, m) \in 0 .. Len(d) - 1)
    BY <2>1
  <2> QED BY <2>2, <2>3 DEF Got
<1> QED BY <1>1, <1>2

LEMMA UpdateTyped ==
  ASSUME NEW D, NEW old \in Seq(D), NoDeps \in D, NEW id \in Nat, NEW x \in D
  PROVE  /\ UpdateDeps(old, id, x) \in Seq(D)
         /\ Len(UpdateDeps(old, id, x)) = IF id < Len(old) THEN Len(old) ELSE id + 1
         /\ \A i \in 1 .. Len(UpdateDeps(old, id, x)) :
              UpdateDeps(old, id, x)[i] = IF i = id + 1 THEN x
                                          ELSE IF i <= Len(old) THEN old[i] ELSE NoDeps
<1> DEFINE n == IF id < Len(old) THEN Len(old) ELSE id + 1
           u == UpdateDeps(old, id, x)
<1>1. n \in Nat
  OBVIOUS
<1>2. u = [i \in 1 .. n |-> IF i = id + 1 THEN x ELSE IF i <= Len(old) THEN old[i] ELSE NoDeps]
  BY DEF UpdateDeps
<1> HIDE DEF u, n
<1>3. \A i \in 1 .. n : i <= Len(old) => old[i] \in D
  BY <1>1
<1>4. u \in [1 .. n -> D]
  BY <1>2, <1>3
<1>5. u \in Seq(D) /\ Len(u) = n
  BY <1>1, <1>4
<1> QED BY <1>2, <1>5 DEF n, u

LEMMA GotUpdated ==
  ASSUME NEW S, NEW m \in Seq(S), IsInjective(m), NEW out \in ToSet(m),
         NEW D, NEW d \in Seq(D), NoDeps \in D, NEW x \in D, NEW p
  PROVE  Got(p, m, UpdateDeps(d, IdOf(out, m), x)) = IF p = out THEN x ELSE Got(p, m, d)
<1> DEFINE id == IdOf(out, m)
           u == UpdateDeps(d, id, x)
<1>1. id \in Nat /\ id + 1 \in 1 .. Len(m) /\ m[id + 1] = out
  BY IdOfFacts
<1>2. /\ Len(u) = IF id < Len(d) THEN Len(d) ELSE id + 1
      /\ \A i \in 1 .. Len(u) : u[i] = IF i = id + 1 THEN x
                                       ELSE IF i <= Len(d) THEN d[i] ELSE NoDeps
  <2>1. id \in Nat
    BY <1>1
  <2> HIDE DEF id
  <2>2. Len(u) = IF id < Len(d) THEN Len(d) ELSE id + 1
    BY <2>1, UpdateTyped
  <2>3. ASSUME NEW i \in 1 .. Len(u)
        PROVE  u[i] = IF i = id + 1 THEN x ELSE IF i <= Len(d) THEN d[i] ELSE NoDeps
    BY <2>1, <2>3, UpdateTyped
  <2> HIDE DEF u
  <2> QED BY <2>2, <2>3
<1>3. Len(d) \in Nat
  OBVIOUS
<1> HIDE DEF u
<1>4. CASE p = out
  <2>1. id \in 0 .. Len(u) - 1 /\ id + 1 \in 1 .. Len(u)
    BY <1>1, <1>2, <1>3
  <2>2. u[id + 1] = x
    BY <1>2, <2>1
  <2> QED BY <1>4, <2>1, <2>2 DEF Got, u
<1>5. CASE p # out
  <2>1. IdOf(p, m) # id /\ IdOf(p, m) \in Int
    <3>1. CASE p \in ToSet(m)
      BY <1>1, <1>5, <3>1, IdOfFacts
    <3>2. CASE p \notin ToSet(m)
      <4>1. IdOf(p, m) = -1
        BY <3>2, IdOfFacts
      <4> HIDE DEF id
      <4> QED BY <1>1, <4>1
    <3> QED BY <3>1, <3>2
  <2> DEFINE k == IdOf(p, m)
  <2> HIDE DEF id, k
  <2>2. Got(p, m, u) = IF k \in 0 .. Len(u) - 1 THEN u[k + 1] ELSE NoDeps
    BY DEF Got, k
  <2>3. Got(p, m, d) = IF k \in 0 .. Len(d) - 1 THEN d[k + 1] ELSE NoDeps
    BY DEF Got, k
  <2>4. k # id /\ k \in Int
    BY <2>1 DEF k
  <2>5. CASE k \in 0 .. Len(d) - 1
    <3>1. k \in 0 .. Len(u) - 1 /\ k + 1 \in 1 .. Len(u) /\ k + 1 # id + 1 /\ k + 1 <= Len(d)
      BY <1>1, <1>2, <1>3, <2>4, <2>5
    <3>2. u[k + 1] = d[k + 1]
      BY <1>2, <3>1
    <3> QED BY <1>5, <2>2, <2>3, <2>5, <3>1, <3>2 DEF u, id
  <2>6. CASE ~ (k \in 0 .. Len(d) - 1)
    <3>1. k \in 0 .. Len(u) - 1 => u[k + 1] = NoDeps
      <4> SUFFICES ASSUME k \in 0 .. Len(u) - 1 PROVE u[k + 1] = NoDeps
        OBVIOUS
      <4>1. k + 1 \in 1 .. Len(u) /\ k + 1 # id + 1 /\ ~ (k + 1 <= Len(d))
        BY <1>1, <1>2, <1>3, <2>4, <2>6
      <4> QED BY <1>2, <4>1
    <3> QED BY <1>5, <2>2, <2>3, <2>6, <3>1 DEF u, id
  <2> QED BY <2>5, <2>6
<1> QED BY <1>4, <1>5

---------------------------------------------------------------------------
(* New ids *)

LEMMA WithIdsUnfolds ==
  ASSUME NEW S, NEW paths \in Seq(S), NEW known \in Seq(S)
  PROVE  \E ids : /\ ids[0] = known /\ WithIds(paths, known) = ids[Len(paths)]
                  /\ \A i \in 1 .. Len(paths) :
                       ids[i] = IF Contains(ids[i - 1], paths[i]) THEN ids[i - 1]
                                ELSE Append(ids[i - 1], paths[i])
<1> DEFINE n == Len(paths)
           Body(f) == [i \in 0 .. n |->
                         IF i = 0 THEN known
                         ELSE IF Contains(f[i - 1], paths[i]) THEN f[i - 1]
                         ELSE Append(f[i - 1], paths[i])]
           step == [i \in 1 .. n |-> [x \in Seq(S) |-> IF Contains(x, paths[i]) THEN x
                                                       ELSE Append(x, paths[i])]]
           ids == CHOOSE f : f = Body(f)
<1>1. n \in Nat /\ \A i \in 1 .. n : paths[i] \in S
  OBVIOUS
<1>2. step \in [1 .. n -> [Seq(S) -> Seq(S)]]
  <2> SUFFICES ASSUME NEW i \in 1 .. n
               PROVE  [x \in Seq(S) |-> IF Contains(x, paths[i]) THEN x
                                        ELSE Append(x, paths[i])] \in [Seq(S) -> Seq(S)]
    OBVIOUS
  <2>1. \A x \in Seq(S) : Append(x, paths[i]) \in Seq(S)
    BY <1>1, AppendProperties
  <2> QED BY <2>1
<1>3. PICK g \in [0 .. n -> Seq(S)] :
        g[0] = known /\ \A i \in 1 .. n : g[i] = step[i][g[i - 1]]
  <2> DEFINE U == Seq(S)
  <2>1. known \in U /\ step \in [1 .. n -> [U -> U]] /\ n \in Nat
    BY <1>1, <1>2
  <2> HIDE DEF step, n, U
  <2>2. \E g \in [0 .. n -> U] : Unfolds(g, n, known, step)
    BY <2>1, RecursiveFunction
  <2> QED BY <2>2 DEF U, Unfolds
<1>4. \A i \in 1 .. n : g[i - 1] \in Seq(S)
  <2>1. \A i \in 1 .. n : i - 1 \in 0 .. n
    BY <1>1
  <2> HIDE DEF step, n
  <2> QED BY <1>3, <2>1
<1>5. g = Body(g)
  <2>1. \A i \in 1 .. n : step[i][g[i - 1]] = IF Contains(g[i - 1], paths[i]) THEN g[i - 1]
                                              ELSE Append(g[i - 1], paths[i])
    BY <1>4
  <2>2. \A i \in 0 .. n : g[i] = IF i = 0 THEN known
                                 ELSE IF Contains(g[i - 1], paths[i]) THEN g[i - 1]
                                 ELSE Append(g[i - 1], paths[i])
    <3> HIDE DEF step, n
    <3>1. \A i \in 0 .. n : i = 0 \/ i \in 1 .. n
      BY <1>1
    <3> QED BY <1>3, <2>1, <3>1
  <2> HIDE DEF step
  <2> QED BY <1>3, <2>2
<1>6. ids = Body(ids)
  <2> HIDE DEF Body
  <2> QED BY <1>5
<1>7. WithIds(paths, known) = ids[n]
  BY DEF WithIds
<1> HIDE DEF ids, step
<1>8. ids[0] = known
  BY <1>1, <1>6
<1>9. \A i \in 1 .. n : ids[i] = IF Contains(ids[i - 1], paths[i]) THEN ids[i - 1]
                                 ELSE Append(ids[i - 1], paths[i])
  <2>1. \A i \in 1 .. n : i \in 0 .. n /\ i # 0
    BY <1>1
  <2> QED BY <1>6, <2>1
<1> QED BY <1>7, <1>8, <1>9

LEMMA ContainsInSet ==
  ASSUME NEW S, NEW s \in Seq(S), NEW x
  PROVE  Contains(s, x) <=> x \in ToSet(s)
BY DEF Contains, ToSet

(* RecordId for each path that has no id: the nodes stay in place, none is *)
(* there twice, and all the paths have one.                                *)
LEMMA WithIdsFacts ==
  ASSUME NEW S, NEW paths \in Seq(S), NEW known \in Seq(S), IsInjective(known)
  PROVE  /\ WithIds(paths, known) \in Seq(S) /\ IsInjective(WithIds(paths, known))
         /\ Extends(known, WithIds(paths, known))
         /\ ToSet(WithIds(paths, known)) = ToSet(known) \cup ToSet(paths)
<1> DEFINE n == Len(paths)
           seen(i) == {paths[j] : j \in 1 .. i}
           Good(m, i) == /\ m \in Seq(S) /\ IsInjective(m) /\ Extends(known, m)
                         /\ ToSet(m) = ToSet(known) \cup seen(i)
<1>1. n \in Nat /\ (\A i \in 1 .. n : paths[i] \in S) /\ seen(n) = ToSet(paths)
  BY DEF ToSet
<1>2. PICK ids : /\ ids[0] = known /\ WithIds(paths, known) = ids[n]
                 /\ \A i \in 1 .. n :
                      ids[i] = IF Contains(ids[i - 1], paths[i]) THEN ids[i - 1]
                               ELSE Append(ids[i - 1], paths[i])
  BY WithIdsUnfolds
<1> DEFINE T == {i \in 0 .. n : Good(ids[i], i)}
<1>3. 0 \in T
  <2>1. seen(0) = {} /\ Extends(known, known)
    BY DEF Extends
  <2> QED BY <1>1, <1>2, <2>1
<1>4. ASSUME NEW i \in 0 .. n - 1, i \in T PROVE i + 1 \in T
  <2> DEFINE m == ids[i]
             x == paths[i + 1]
  <2>1. i + 1 \in 1 .. n /\ i + 1 \in 0 .. n /\ i \in Nat /\ (i + 1) - 1 = i
    BY <1>1
  <2>2. Good(m, i) /\ x \in S
    BY <1>1, <1>4, <2>1
  <2>3. ids[i + 1] = IF Contains(m, x) THEN m ELSE Append(m, x)
    BY <1>2, <2>1
  <2>4. seen(i + 1) = seen(i) \cup {x}
    <3>1. 1 .. i + 1 = (1 .. i) \cup {i + 1}
      BY <2>1
    <3> QED BY <3>1
  <2> HIDE DEF m, x, seen
  <2>5. CASE x \in ToSet(m)
    <3>1. ids[i + 1] = m
      BY <2>2, <2>3, <2>5, ContainsInSet
    <3> QED BY <2>1, <2>2, <2>4, <2>5, <3>1
  <2>6. CASE x \notin ToSet(m)
    <3>1. ids[i + 1] = Append(m, x)
      BY <2>2, <2>3, <2>6, ContainsInSet
    <3>2. Append(m, x) \in Seq(S) /\ ToSet(Append(m, x)) = ToSet(m) \cup {x}
      BY <2>2, ToSetAppend
    <3>3. IsInjective(Append(m, x))
      BY <2>2, <2>6, DistinctAppend
    <3>4. Extends(known, Append(m, x))
      <4>1. Len(Append(m, x)) = Len(m) + 1 /\ \A j \in 1 .. Len(m) : Append(m, x)[j] = m[j]
        BY <2>2, AppendProperties
      <4>2. Len(known) \in Nat /\ Len(m) \in Nat
        BY <2>2
      <4>3. 1 .. Len(known) \subseteq 1 .. Len(m)
        BY <2>2, <4>2 DEF Extends
      <4> QED BY <2>2, <4>1, <4>2, <4>3 DEF Extends
    <3> QED BY <2>1, <2>2, <2>4, <3>1, <3>2, <3>3, <3>4
  <2> QED BY <2>5, <2>6
<1>5. Good(ids[n], n)
  <2>1. n \in T
    <3> HIDE DEF T
    <3>1. \A i \in 0 .. n : i \in T
      BY <1>1, <1>3, <1>4, IntervalInduction
    <3> QED BY <1>1, <3>1
  <2> QED BY <2>1
<1> QED BY <1>1, <1>2, <1>5

---------------------------------------------------------------------------
(* Records *)

LEMMA NodeRecordTyped ==
  ASSUME NEW p \in Path, NEW id \in Nat
  PROVE  /\ NodeRecord(p, id) \in Seq(Wd) /\ Len(NodeRecord(p, id)) = Len(p) + 2
         /\ NodeRecord(p, id)[1] = W("node", Len(p) + 1)
         /\ \A i \in 1 .. Len(p) : NodeRecord(p, id)[i + 1] = p[i]
         /\ NodeRecord(p, id)[Len(p) + 2] = W("sum", id)
<1>1. W("node", Len(p) + 1) \in Wd /\ W("sum", id) \in Wd /\ p \in Seq(Wd)
  <2>1. p \in Seq(Wd) /\ Len(p) + 1 \in Nat /\ Len(p) + 1 >= 1
    BY DEF Path
  <2> QED BY <2>1, WordFacts DEF Kinds
<1> DEFINE a == W("node", Len(p) + 1)
           z == W("sum", id)
<1> HIDE DEF a, z
<1>2. NodeRecord(p, id) = <<a>> \o p \o <<z>>
  BY DEF NodeRecord, a, z
<1>3. <<a>> \o p \in Seq(Wd) /\ Len(<<a>> \o p) = Len(p) + 1
      /\ (<<a>> \o p)[1] = a /\ \A i \in 1 .. Len(p) : (<<a>> \o p)[i + 1] = p[i]
  <2>1. <<a>> \in Seq(Wd) /\ Len(<<a>>) = 1 /\ <<a>>[1] = a /\ Len(p) \in Nat
    BY <1>1 DEF a
  <2>2. /\ <<a>> \o p \in Seq(Wd) /\ Len(<<a>> \o p) = Len(<<a>>) + Len(p)
        /\ \A i \in 1 .. Len(<<a>>) + Len(p) :
             (<<a>> \o p)[i] = IF i <= Len(<<a>>) THEN <<a>>[i] ELSE p[i - Len(<<a>>)]
    BY <1>1, <2>1, ConcatProperties
  <2>3. \A i \in 1 .. Len(p) : i + 1 \in 1 .. 1 + Len(p) /\ ~(i + 1 <= 1) /\ (i + 1) - 1 = i
    BY <2>1
  <2>4. 1 \in 1 .. 1 + Len(p)
    BY <2>1
  <2>5. (<<a>> \o p)[1] = a
    BY <2>1, <2>2, <2>4
  <2>6. \A i \in 1 .. Len(p) : (<<a>> \o p)[i + 1] = p[i]
    BY <2>1, <2>2, <2>3
  <2> QED BY <2>1, <2>2, <2>5, <2>6
<1> DEFINE b == <<a>> \o p
<1> HIDE DEF b
<1>4. b \o <<z>> = Append(b, z) /\ Append(b, z) \in Seq(Wd) /\ Len(Append(b, z)) = Len(b) + 1
      /\ (\A i \in 1 .. Len(b) : Append(b, z)[i] = b[i]) /\ Append(b, z)[Len(b) + 1] = z
  <2>1. b \in Seq(Wd) /\ z \in Wd
    BY <1>1, <1>3 DEF b, z
  <2> QED BY <2>1, AppendProperties
<1>5. Len(p) \in Nat /\ \A i \in 1 .. Len(p) : i + 1 \in 1 .. Len(p) + 1
  BY <1>1
<1> QED BY <1>2, <1>3, <1>4, <1>5 DEF b, a, z

LEMMA DepsRecordTyped ==
  ASSUME NEW m \in Seq(Path), NEW out \in ToSet(m), NEW d \in Dep, ToSet(d.nodes) \subseteq ToSet(m)
  PROVE  LET r == DepsRecord(out, d, m) IN
         /\ r \in Seq(Wd) /\ Len(r) = Len(d.nodes) + 4 /\ Len(d.nodes) \in Nat
         /\ r[1] = W("deps", 3 + Len(d.nodes)) /\ r[2] = W("id", IdOf(out, m))
         /\ r[3] = d.mtime[1] /\ r[4] = d.mtime[2]
         /\ \A i \in 1 .. Len(d.nodes) : r[i + 4] = W("id", IdOf(d.nodes[i], m))
<1> DEFINE n == Len(d.nodes)
           a == W("deps", 3 + n)
           b == W("id", IdOf(out, m))
           x == d.mtime[1]
           y == d.mtime[2]
           h == <<a, b, x, y>>
           t == [i \in 1 .. n |-> W("id", IdOf(d.nodes[i], m))]
           r == DepsRecord(out, d, m)
<1>1. n \in Nat /\ x \in Wd /\ y \in Wd /\ d.nodes \in Seq(Path)
  BY DEF Dep
<1>2. a \in Wd /\ b \in Wd
  <2>1. IdOf(out, m) \in Nat /\ 3 + n \in Nat /\ 3 + n >= 3
    BY <1>1, IdOfFacts
  <2> QED BY <2>1, WordFacts DEF Kinds
<1>3. t \in Seq(Wd) /\ Len(t) = n
  <2>1. ASSUME NEW i \in 1 .. n PROVE W("id", IdOf(d.nodes[i], m)) \in Wd
    <3>1. d.nodes[i] \in ToSet(m)
      <4>1. d.nodes[i] \in ToSet(d.nodes)
        BY <1>1 DEF ToSet
      <4> QED BY <4>1
    <3>2. IdOf(d.nodes[i], m) \in Nat
      BY <3>1, IdOfFacts
    <3> QED BY <3>2, WordFacts DEF Kinds
  <2> DEFINE id(i) == W("id", IdOf(d.nodes[i], m))
  <2> HIDE DEF id, n
  <2>2. \A i \in 1 .. n : id(i) \in Wd
    BY <2>1 DEF id
  <2>3. [i \in 1 .. n |-> id(i)] \in Seq(Wd) /\ Len([i \in 1 .. n |-> id(i)]) = n
    BY <1>1, <2>2
  <2> QED BY <2>3 DEF id
<1>4. r = h \o t
  BY DEF DepsRecord
<1>5. \A i \in 1 .. n : t[i] = W("id", IdOf(d.nodes[i], m))
  OBVIOUS
<1> HIDE DEF a, b, x, y, t, r, n
<1>6. h \in Seq(Wd) /\ Len(h) = 4 /\ h[1] = a /\ h[2] = b /\ h[3] = x /\ h[4] = y
  BY <1>1, <1>2
<1> HIDE DEF h
<1>7. /\ r \in Seq(Wd) /\ Len(r) = 4 + n
      /\ \A i \in 1 .. 4 + n : r[i] = IF i <= 4 THEN h[i] ELSE t[i - 4]
  <2>1. /\ h \o t \in Seq(Wd) /\ Len(h \o t) = Len(h) + Len(t)
        /\ \A i \in 1 .. Len(h) + Len(t) :
             (h \o t)[i] = IF i <= Len(h) THEN h[i] ELSE t[i - Len(h)]
    BY <1>3, <1>6, ConcatProperties
  <2> QED BY <1>3, <1>4, <1>6, <2>1
<1>8. r[1] = a /\ r[2] = b /\ r[3] = x /\ r[4] = y
  BY <1>1, <1>6, <1>7
<1>9. ASSUME NEW i \in 1 .. n PROVE r[i + 4] = t[i]
  <2>1. i + 4 \in 1 .. 4 + n /\ ~(i + 4 <= 4) /\ (i + 4) - 4 = i
    BY <1>1
  <2> QED BY <1>7, <2>1
<1>10. Len(r) = n + 4
  BY <1>1, <1>7
<1> QED BY <1>1, <1>5, <1>7, <1>8, <1>9, <1>10 DEF a, b, x, y, r, n

(* ids[i] has the records of the nodes behind old, up to the i-th.         *)
Layout(ids, old, new) ==
  \A i \in 0 .. Len(new) :
    /\ ids[i] \in Seq(Wd)
    /\ ids[i] = IF i <= Len(old) THEN << >> ELSE ids[i - 1] \o NodeRecord(new[i], i - 1)

LEMMA RecordsUnfold ==
  ASSUME NEW old \in Seq(Path), NEW new \in Seq(Path), NEW out, NEW d
  PROVE  \E ids : /\ Records(out, d, old, new) = ids[Len(new)] \o DepsRecord(out, d, new)
                  /\ Layout(ids, old, new)
<1> DEFINE n == Len(new)
           k == Len(old)
           Body(f) == [i \in 0 .. n |-> IF i <= k THEN << >>
                                        ELSE f[i - 1] \o NodeRecord(new[i], i - 1)]
           U == Seq(Wd)
           step == [i \in 1 .. n |-> [x \in U |-> IF i <= k THEN << >>
                                                  ELSE x \o NodeRecord(new[i], i - 1)]]
           ids == CHOOSE f : f = Body(f)
<1>1. n \in Nat /\ k \in Nat /\ << >> \in U
  OBVIOUS
<1>2. step \in [1 .. n -> [U -> U]]
  <2> SUFFICES ASSUME NEW i \in 1 .. n, NEW x \in U
               PROVE  (IF i <= k THEN << >> ELSE x \o NodeRecord(new[i], i - 1)) \in U
    OBVIOUS
  <2>1. new[i] \in Path /\ i - 1 \in Nat
    OBVIOUS
  <2>2. NodeRecord(new[i], i - 1) \in U
    BY <2>1, NodeRecordTyped
  <2>3. x \o NodeRecord(new[i], i - 1) \in U
    BY <2>2, ConcatProperties
  <2> QED BY <1>1, <2>3
<1>3. PICK g \in [0 .. n -> U] : Unfolds(g, n, << >>, step)
  <2> HIDE DEF step, n, U
  <2> QED BY <1>1, <1>2, RecursiveFunction
<1>4. \A i \in 1 .. n : i - 1 \in 0 .. n /\ i \in 0 .. n /\ i # 0
  BY <1>1
<1>5. \A i \in 1 .. n : step[i][g[i - 1]] = IF i <= k THEN << >>
                                            ELSE g[i - 1] \o NodeRecord(new[i], i - 1)
  <2>1. \A i \in 1 .. n : g[i - 1] \in U
    <3> HIDE DEF step, n, U
    <3> QED BY <1>3, <1>4
  <2> HIDE DEF U, n
  <2> QED BY <2>1
<1>6. g = Body(g)
  <2>1. \A i \in 0 .. n : i = 0 \/ i \in 1 .. n
    BY <1>1
  <2>2. 0 <= k
    BY <1>1
  <2> HIDE DEF step, n, U, k
  <2>3. \A i \in 0 .. n : g[i] = IF i <= k THEN << >> ELSE g[i - 1] \o NodeRecord(new[i], i - 1)
    BY <1>3, <1>5, <2>1, <2>2 DEF Unfolds
  <2> QED BY <1>3, <2>3
<1>7. ids = Body(ids)
  <2> HIDE DEF Body
  <2> QED BY <1>6
<1>8. Records(out, d, old, new) = ids[n] \o DepsRecord(out, d, new)
  BY DEF Records
<1> HIDE DEF ids, step
<1>9. \A i \in 0 .. n : ids[i] = IF i <= k THEN << >> ELSE ids[i - 1] \o NodeRecord(new[i], i - 1)
  BY <1>7
<1>10. \A i \in 0 .. n : ids[i] \in U
  <2> DEFINE T == {i \in 0 .. n : ids[i] \in U}
  <2>1. 0 \in T
    <3>1. 0 \in 0 .. n /\ 0 <= k
      BY <1>1
    <3> QED BY <1>1, <1>9, <3>1
  <2>2. ASSUME NEW i \in 0 .. n - 1, i \in T PROVE i + 1 \in T
    <3>1. i + 1 \in 1 .. n /\ i + 1 \in 0 .. n /\ (i + 1) - 1 = i /\ i \in Nat
      BY <1>1
    <3>2. ids[i + 1] = IF i + 1 <= k THEN << >> ELSE ids[i] \o NodeRecord(new[i + 1], i)
      BY <1>9, <3>1
    <3>3. NodeRecord(new[i + 1], i) \in U
      BY <3>1, NodeRecordTyped
    <3>4. ids[i] \o NodeRecord(new[i + 1], i) \in U
      BY <2>2, <3>3, ConcatProperties
    <3> QED BY <1>1, <3>1, <3>2, <3>4
  <2> HIDE DEF T
  <2>3. \A i \in 0 .. n : i \in T
    BY <1>1, <2>1, <2>2, IntervalInduction
  <2> QED BY <2>3 DEF T
<1> QED BY <1>8, <1>9, <1>10 DEF Layout

---------------------------------------------------------------------------
(* Logs: what Load has read behind each record *)

State == {s \in [at : Nat, nodes : Seq(Path), deps : Seq(DepOrNone)] :
            IsInjective(s.nodes) /\ Len(s.deps) <= Len(s.nodes)}
Start == [at |-> 2, nodes |-> << >>, deps |-> << >>]

(* r is in f behind the first at words.                                    *)
Holds(f, at, r) == at + Len(r) <= Len(f) /\ \A i \in 1 .. Len(r) : f[at + i] = r[i]

NodeStep(f, s, t) ==
  \E p \in Path :
    /\ p \notin ToSet(s.nodes)
    /\ Holds(f, s.at, NodeRecord(p, Len(s.nodes)))
    /\ t = [at |-> s.at + Len(p) + 2, nodes |-> Append(s.nodes, p), deps |-> s.deps]

DepsStep(f, s, t) ==
  \E out \in ToSet(s.nodes), d \in Dep :
    /\ ToSet(d.nodes) \subseteq ToSet(s.nodes)
    /\ Holds(f, s.at, DepsRecord(out, d, s.nodes))
    /\ t = [at |-> s.at + Len(d.nodes) + 4, nodes |-> s.nodes,
            deps |-> UpdateDeps(s.deps, IdOf(out, s.nodes), d)]

RecordStep(f, s, t) == NodeStep(f, s, t) \/ DepsStep(f, s, t)

(* f begins with a header and complete records; L has the state of Load in *)
(* front of each of them and behind the last.                              *)
Log(f, L) ==
  /\ L \in Seq(State) /\ L # << >> /\ L[1] = Start /\ Holds(f, 0, Header)
  /\ \A i \in 1 .. Len(L) - 1 : RecordStep(f, L[i], L[i + 1])
  /\ \A i, j \in 1 .. Len(L) : i < j => L[i].at < L[j].at
  /\ \A i \in 1 .. Len(L) : L[i].at <= Len(f)
Final(L) == L[Len(L)]

Agree(f, g, n) == n <= Len(f) /\ n <= Len(g) /\ \A i \in 1 .. n : f[i] = g[i]

LEMMA StartIsState == Start \in State
<1>1. << >> \in Seq(Path) /\ << >> \in Seq(DepOrNone) /\ Len(<< >>) = 0 /\ IsInjective(<< >>)
  BY DEF IsInjective
<1> QED BY <1>1 DEF Start, State

LEMMA StateFacts ==
  ASSUME NEW s \in State
  PROVE  /\ s.at \in Nat /\ s.nodes \in Seq(Path) /\ s.deps \in Seq(DepOrNone)
         /\ IsInjective(s.nodes) /\ Len(s.deps) <= Len(s.nodes)
         /\ s = [at |-> s.at, nodes |-> s.nodes, deps |-> s.deps]
BY DEF State

LEMMA HoldsSame ==
  ASSUME NEW f \in Seq(Wd), NEW g \in Seq(Wd), NEW a \in Nat, NEW r \in Seq(Wd),
         Holds(f, a, r), Agree(f, g, a + Len(r))
  PROVE  Holds(g, a, r)
<1>1. a + Len(r) <= Len(g)
  BY DEF Agree
<1>2. ASSUME NEW i \in 1 .. Len(r) PROVE g[a + i] = r[i]
  <2>1. a + i \in 1 .. a + Len(r)
    OBVIOUS
  <2>2. f[a + i] = g[a + i]
    BY <2>1 DEF Agree
  <2> QED BY <2>2 DEF Holds
<1> QED BY <1>1, <1>2 DEF Holds

LEMMA NodeStepFacts ==
  ASSUME NEW f \in Seq(Wd), NEW s \in State, NEW p \in Path, p \notin ToSet(s.nodes),
         Holds(f, s.at, NodeRecord(p, Len(s.nodes))), NEW t,
         t = [at |-> s.at + Len(p) + 2, nodes |-> Append(s.nodes, p), deps |-> s.deps]
  PROVE  t \in State /\ s.at < t.at /\ t.at <= Len(f)
         /\ t.at = s.at + Len(NodeRecord(p, Len(s.nodes)))
<1>1. s.nodes \in Seq(Path) /\ s.deps \in Seq(DepOrNone) /\ s.at \in Nat /\ Len(s.nodes) \in Nat
      /\ IsInjective(s.nodes) /\ Len(s.deps) <= Len(s.nodes) /\ Len(p) \in Nat
      /\ Len(s.deps) \in Nat
  BY StateFacts DEF Path
<1>2. Len(NodeRecord(p, Len(s.nodes))) = Len(p) + 2
  BY <1>1, NodeRecordTyped
<1>3. t.at = s.at + Len(p) + 2 /\ t.at <= Len(f)
  BY <1>1, <1>2 DEF Holds
<1>4. Append(s.nodes, p) \in Seq(Path) /\ Len(Append(s.nodes, p)) = Len(s.nodes) + 1
  BY <1>1, AppendProperties
<1>5. IsInjective(Append(s.nodes, p))
  BY <1>1, DistinctAppend
<1>6. t \in State
  <2> DEFINE a == s.at + Len(p) + 2
             m == Append(s.nodes, p)
  <2>1. a \in Nat /\ m \in Seq(Path) /\ IsInjective(m) /\ Len(s.deps) <= Len(m)
        /\ t = [at |-> a, nodes |-> m, deps |-> s.deps]
    BY <1>1, <1>4, <1>5
  <2> HIDE DEF a, m
  <2>2. t.at = a /\ t.nodes = m /\ t.deps = s.deps
    BY <2>1
  <2>3. t \in [at : Nat, nodes : Seq(Path), deps : Seq(DepOrNone)]
    BY <1>1, <2>1
  <2>4. IsInjective(t.nodes) /\ Len(t.deps) <= Len(t.nodes)
    BY <2>1, <2>2
  <2> QED BY <2>3, <2>4 DEF State
<1>7. s.at < t.at
  BY <1>1, <1>3
<1>8. t.at = s.at + Len(NodeRecord(p, Len(s.nodes)))
  <2> DEFINE l == Len(NodeRecord(p, Len(s.nodes)))
             n == Len(p)
  <2>1. l = n + 2 /\ t.at = s.at + n + 2 /\ s.at \in Nat /\ n \in Nat
    BY <1>1, <1>2, <1>3
  <2> DEFINE a == s.at
  <2>2. a \in Nat /\ t.at = a + n + 2
    BY <2>1
  <2> HIDE DEF l, n, a
  <2>3. a + n + 2 = a + l
    BY <2>1, <2>2
  <2>4. t.at = s.at + l
    BY <2>2, <2>3 DEF a
  <2> QED BY <2>4 DEF l
<1> QED BY <1>3, <1>6, <1>7, <1>8

LEMMA DepsStepFacts ==
  ASSUME NEW f \in Seq(Wd), NEW s \in State, NEW out \in ToSet(s.nodes), NEW d \in Dep,
         ToSet(d.nodes) \subseteq ToSet(s.nodes),
         Holds(f, s.at, DepsRecord(out, d, s.nodes)), NEW t,
         t = [at |-> s.at + Len(d.nodes) + 4, nodes |-> s.nodes,
              deps |-> UpdateDeps(s.deps, IdOf(out, s.nodes), d)]
  PROVE  t \in State /\ s.at < t.at /\ t.at <= Len(f)
         /\ t.at = s.at + Len(DepsRecord(out, d, s.nodes))
<1>1. s.nodes \in Seq(Path) /\ s.deps \in Seq(DepOrNone) /\ s.at \in Nat /\ Len(s.nodes) \in Nat
      /\ IsInjective(s.nodes) /\ Len(s.deps) <= Len(s.nodes) /\ Len(s.deps) \in Nat
  BY StateFacts
<1>2. Len(DepsRecord(out, d, s.nodes)) = Len(d.nodes) + 4 /\ Len(d.nodes) \in Nat
  BY <1>1, DepsRecordTyped
<1>3. t.at = s.at + Len(d.nodes) + 4 /\ t.at <= Len(f) /\ t.at \in Nat
  BY <1>1, <1>2 DEF Holds
<1> DEFINE id == IdOf(out, s.nodes)
           u == UpdateDeps(s.deps, id, d)
<1>4. id \in Nat /\ id < Len(s.nodes)
  BY <1>1, IdOfFacts
<1>5. u \in Seq(DepOrNone) /\ Len(u) = IF id < Len(s.deps) THEN Len(s.deps) ELSE id + 1
  <2>1. NoDeps \in DepOrNone /\ d \in DepOrNone
    BY DEF DepOrNone
  <2> HIDE DEF id
  <2>2. UpdateDeps(s.deps, id, d) \in Seq(DepOrNone)
    BY <1>1, <1>4, <2>1, UpdateTyped
  <2>3. Len(UpdateDeps(s.deps, id, d)) = IF id < Len(s.deps) THEN Len(s.deps) ELSE id + 1
    <3> DEFINE D == DepOrNone
               old == s.deps
    <3>1. old \in Seq(D) /\ NoDeps \in D /\ d \in D
      BY <1>1, <2>1
    <3> HIDE DEF D, old
    <3>2. Len(UpdateDeps(old, id, d)) = IF id < Len(old) THEN Len(old) ELSE id + 1
      BY <1>4, <3>1, UpdateTyped
    <3> QED BY <3>2 DEF old
  <2> QED BY <2>2, <2>3
<1> HIDE DEF u, id
<1>6. Len(u) <= Len(s.nodes)
  BY <1>1, <1>4, <1>5
<1>7. t \in State
  BY <1>1, <1>3, <1>5, <1>6 DEF State, u, id
<1> QED BY <1>1, <1>2, <1>3, <1>7

LEMMA StepFacts ==
  ASSUME NEW f \in Seq(Wd), NEW s \in State, NEW t, RecordStep(f, s, t)
  PROVE  t \in State /\ s.at < t.at /\ t.at <= Len(f)
<1>1. CASE NodeStep(f, s, t)
  <2>1. PICK p \in Path :
          /\ p \notin ToSet(s.nodes)
          /\ Holds(f, s.at, NodeRecord(p, Len(s.nodes)))
          /\ t = [at |-> s.at + Len(p) + 2, nodes |-> Append(s.nodes, p), deps |-> s.deps]
    BY <1>1 DEF NodeStep
  <2> QED BY <2>1, NodeStepFacts
<1>2. CASE DepsStep(f, s, t)
  <2>1. PICK out \in ToSet(s.nodes), d \in Dep :
          /\ ToSet(d.nodes) \subseteq ToSet(s.nodes)
          /\ Holds(f, s.at, DepsRecord(out, d, s.nodes))
          /\ t = [at |-> s.at + Len(d.nodes) + 4, nodes |-> s.nodes,
                  deps |-> UpdateDeps(s.deps, IdOf(out, s.nodes), d)]
    BY <1>2 DEF DepsStep
  <2> QED BY <2>1, DepsStepFacts
<1> QED BY <1>1, <1>2 DEF RecordStep

LEMMA StepSame ==
  ASSUME NEW f \in Seq(Wd), NEW g \in Seq(Wd), NEW s \in State, NEW t,
         RecordStep(f, s, t), Agree(f, g, t.at)
  PROVE  RecordStep(g, s, t)
<1>1. s.at \in Nat /\ s.nodes \in Seq(Path) /\ Len(s.nodes) \in Nat
  BY StateFacts
<1>2. CASE NodeStep(f, s, t)
  <2>1. PICK p \in Path :
          /\ p \notin ToSet(s.nodes)
          /\ Holds(f, s.at, NodeRecord(p, Len(s.nodes)))
          /\ t = [at |-> s.at + Len(p) + 2, nodes |-> Append(s.nodes, p), deps |-> s.deps]
    BY <1>2 DEF NodeStep
  <2>2. NodeRecord(p, Len(s.nodes)) \in Seq(Wd)
    BY <1>1, NodeRecordTyped
  <2>3. t.at = s.at + Len(NodeRecord(p, Len(s.nodes)))
    BY <2>1, NodeStepFacts
  <2>4. Holds(g, s.at, NodeRecord(p, Len(s.nodes)))
    BY <1>1, <2>1, <2>2, <2>3, HoldsSame
  <2> QED BY <2>1, <2>4 DEF RecordStep, NodeStep
<1>3. CASE DepsStep(f, s, t)
  <2>1. PICK out \in ToSet(s.nodes), d \in Dep :
          /\ ToSet(d.nodes) \subseteq ToSet(s.nodes)
          /\ Holds(f, s.at, DepsRecord(out, d, s.nodes))
          /\ t = [at |-> s.at + Len(d.nodes) + 4, nodes |-> s.nodes,
                  deps |-> UpdateDeps(s.deps, IdOf(out, s.nodes), d)]
    BY <1>3 DEF DepsStep
  <2>2. DepsRecord(out, d, s.nodes) \in Seq(Wd)
        /\ Len(DepsRecord(out, d, s.nodes)) = Len(d.nodes) + 4 /\ Len(d.nodes) \in Nat
    BY <1>1, <2>1, DepsRecordTyped
  <2>3. t.at = s.at + Len(DepsRecord(out, d, s.nodes))
    <3> DEFINE l == Len(DepsRecord(out, d, s.nodes))
               n == Len(d.nodes)
               a == s.at
    <3>1. l = n + 4 /\ n \in Nat
      BY <2>2
    <3>2. t.at = a + n + 4 /\ a \in Nat
      BY <1>1, <2>1
    <3> HIDE DEF l, n, a
    <3>3. t.at = a + l
      BY <3>1, <3>2
    <3> QED BY <3>3 DEF l, a
  <2>4. Holds(g, s.at, DepsRecord(out, d, s.nodes))
    BY <1>1, <2>1, <2>2, <2>3, HoldsSame
  <2> QED BY <2>1, <2>4 DEF RecordStep, DepsStep
<1> QED BY <1>2, <1>3 DEF RecordStep

LEMMA LogFacts ==
  ASSUME NEW f \in Seq(Wd), NEW L, Log(f, L)
  PROVE  /\ L \in Seq(State) /\ Len(L) \in Nat /\ Len(L) >= 1 /\ L[1] = Start
         /\ \A i \in 1 .. Len(L) : L[i] \in State /\ L[i].at \in Nat /\ L[i].at >= 2
                                   /\ L[i].at <= Len(f)
         /\ Final(L) \in State
<1>1. L \in Seq(State) /\ Len(L) \in Nat /\ Len(L) >= 1 /\ L[1] = Start
  BY DEF Log
<1>2. \A i \in 1 .. Len(L) : L[i] \in State
  BY <1>1
<1>3. ASSUME NEW i \in 1 .. Len(L) PROVE L[i].at \in Nat /\ L[i].at >= 2 /\ L[i].at <= Len(f)
  <2>1. L[i].at \in Nat /\ L[i].at <= Len(f)
    BY <1>2, StateFacts DEF Log
  <2>2. L[1].at = 2 /\ 1 \in 1 .. Len(L)
    BY <1>1 DEF Start
  <2>3. i = 1 \/ 1 < i
    BY <1>1
  <2>4. 1 < i => L[1].at < L[i].at
    BY <2>2 DEF Log
  <2> QED BY <2>1, <2>2, <2>3, <2>4
<1> QED BY <1>1, <1>2, <1>3 DEF Final

LEMMA LogStart ==
  ASSUME NEW f \in Seq(Wd), Holds(f, 0, Header)
  PROVE  Log(f, <<Start>>) /\ Final(<<Start>>) = Start /\ Len(<<Start>>) = 1
<1>1. <<Start>> \in Seq(State) /\ Len(<<Start>>) = 1 /\ <<Start>>[1] = Start
  BY StartIsState
<1>2. Start.at <= Len(f)
  BY HeaderTyped DEF Start, Holds
<1> DEFINE L == <<Start>>
<1> HIDE DEF L
<1>3. L \in Seq(State) /\ Len(L) = 1 /\ L[1] = Start /\ L # << >>
  BY <1>1 DEF L
<1>4. \A i \in 1 .. Len(L) : i = 1
  BY <1>3
<1>5. Log(f, L)
  <2>1. \A i \in 1 .. Len(L) - 1 : RecordStep(f, L[i], L[i + 1])
    BY <1>3
  <2>2. \A i, j \in 1 .. Len(L) : i < j => L[i].at < L[j].at
    BY <1>4
  <2>3. \A i \in 1 .. Len(L) : L[i].at <= Len(f)
    BY <1>2, <1>3, <1>4
  <2> QED BY <1>3, <2>1, <2>2, <2>3 DEF Log
<1> QED BY <1>3, <1>5 DEF L, Final

(* Its beginning up to a record is a log, whatever follows.                *)
LEMMA LogSame ==
  ASSUME NEW f \in Seq(Wd), NEW g \in Seq(Wd), NEW L, Log(f, L),
         NEW k \in 1 .. Len(L), Agree(f, g, L[k].at)
  PROVE  LET M == SubSeq(L, 1, k) IN
         /\ Log(g, M) /\ Len(M) = k /\ Final(M) = L[k]
         /\ \A i \in 1 .. k : M[i] = L[i]
<1> DEFINE M == SubSeq(L, 1, k)
<1>1. /\ L \in Seq(State) /\ Len(L) \in Nat /\ Len(L) >= 1 /\ L[1] = Start
      /\ \A i \in 1 .. Len(L) : L[i] \in State /\ L[i].at \in Nat /\ L[i].at >= 2
                                /\ L[i].at <= Len(f)
  BY LogFacts
<1>2. M \in Seq(State) /\ Len(M) = k /\ \A i \in 1 .. k : M[i] = L[i]
  BY <1>1, SubSeqProperties
<1> HIDE DEF M
<1>3. k \in Nat /\ k >= 1 /\ k <= Len(L) /\ \A i \in 1 .. k : i \in 1 .. Len(L)
  BY <1>1
<1>4. \A i \in 1 .. k : L[i].at <= L[k].at
  <2> SUFFICES ASSUME NEW i \in 1 .. k PROVE L[i].at <= L[k].at
    OBVIOUS
  <2>1. i = k \/ i < k
    BY <1>3
  <2>2. i < k => L[i].at < L[k].at
    BY <1>3 DEF Log
  <2> QED BY <1>1, <1>3, <2>1, <2>2
<1>5. Holds(g, 0, Header)
  <2>1. Holds(f, 0, Header) /\ Header \in Seq(Wd) /\ Len(Header) = 2
    BY HeaderTyped DEF Log
  <2>2. Agree(f, g, 2)
    <3>1. 2 <= L[k].at /\ L[k].at \in Nat
      BY <1>1
    <3>2. \A i \in 1 .. 2 : i \in 1 .. L[k].at
      BY <3>1
    <3> QED BY <3>1, <3>2 DEF Agree
  <2>3. Agree(f, g, 0 + Len(Header)) /\ 0 \in Nat
    BY <2>1, <2>2
  <2> QED BY <2>1, <2>3, HoldsSame
<1>6. ASSUME NEW i \in 1 .. k - 1 PROVE RecordStep(g, L[i], L[i + 1])
  <2>1. i \in 1 .. Len(L) - 1 /\ i \in 1 .. Len(L) /\ i + 1 \in 1 .. k /\ i + 1 \in 1 .. Len(L)
    BY <1>3
  <2>2. RecordStep(f, L[i], L[i + 1])
    BY <2>1 DEF Log
  <2>3. Agree(f, g, L[i + 1].at)
    <3>1. L[i + 1].at <= L[k].at /\ L[i + 1].at \in Nat /\ L[k].at \in Nat
      BY <1>1, <1>4, <2>1
    <3>2. \A j \in 1 .. L[i + 1].at : j \in 1 .. L[k].at
      BY <3>1
    <3> QED BY <3>1, <3>2 DEF Agree
  <2> QED BY <1>1, <2>1, <2>2, <2>3, StepSame
<1>7. \A i \in 1 .. k : L[i].at <= Len(g)
  <2>1. L[k].at <= Len(g) /\ Len(g) \in Nat /\ L[k].at \in Nat
    BY <1>1 DEF Agree
  <2> QED BY <1>1, <1>3, <1>4, <2>1
<1>8. Log(g, M)
  <2>1. M # << >> /\ M[1] = Start
    BY <1>1, <1>2, <1>3
  <2>2. ASSUME NEW i \in 1 .. k - 1 PROVE RecordStep(g, M[i], M[i + 1])
    <3>1. i \in 1 .. k /\ i + 1 \in 1 .. k
      BY <1>3
    <3> QED BY <1>2, <1>6, <3>1
  <2>3. \A i, j \in 1 .. k : i < j => M[i].at < M[j].at
    <3>1. \A i, j \in 1 .. k : i < j => L[i].at < L[j].at
      BY <1>3 DEF Log
    <3> QED BY <1>2, <3>1
  <2>4. \A i \in 1 .. k : M[i].at <= Len(g)
    BY <1>2, <1>7
  <2> QED BY <1>2, <1>5, <2>1, <2>2, <2>3, <2>4 DEF Log
<1>9. Final(M) = L[k]
  BY <1>2, <1>3 DEF Final
<1> QED BY <1>2, <1>8, <1>9 DEF M

(* One more record.                                                        *)
LEMMA LogStep ==
  ASSUME NEW f \in Seq(Wd), NEW L, Log(f, L), NEW t, RecordStep(f, Final(L), t)
  PROVE  LET M == Append(L, t) IN
         /\ Log(f, M) /\ Len(M) = Len(L) + 1 /\ Final(M) = t
         /\ \A i \in 1 .. Len(L) : M[i] = L[i]
<1> DEFINE M == Append(L, t)
           n == Len(L)
<1>1. /\ L \in Seq(State) /\ n \in Nat /\ n >= 1 /\ L[1] = Start
      /\ \A i \in 1 .. n : L[i] \in State /\ L[i].at \in Nat /\ L[i].at >= 2
                           /\ L[i].at <= Len(f)
  BY LogFacts
<1>2. L[n] \in State /\ L[n] = Final(L)
  BY <1>1 DEF Final
<1>3. t \in State /\ L[n].at < t.at /\ t.at <= Len(f) /\ t.at \in Nat
  BY <1>2, StepFacts, StateFacts
<1>4. M \in Seq(State) /\ Len(M) = n + 1 /\ (\A i \in 1 .. n : M[i] = L[i]) /\ M[n + 1] = t
  BY <1>1, <1>3, AppendProperties
<1> HIDE DEF M
<1>5. \A i \in 1 .. n + 1 : i \in 1 .. n \/ i = n + 1
  BY <1>1
<1>6. ASSUME NEW i \in 1 .. n PROVE RecordStep(f, M[i], M[i + 1])
  <2>1. CASE i = n
    BY <1>1, <1>2, <1>4, <2>1
  <2>2. CASE i # n
    <3>1. i \in 1 .. n - 1 /\ i + 1 \in 1 .. n
      BY <1>1, <2>2
    <3>2. RecordStep(f, L[i], L[i + 1])
      BY <3>1 DEF Log
    <3> QED BY <1>4, <3>1, <3>2
  <2> QED BY <2>1, <2>2
<1>7. ASSUME NEW i \in 1 .. n + 1, NEW j \in 1 .. n + 1, i < j PROVE M[i].at < M[j].at
  <2>1. i \in 1 .. n
    BY <1>1, <1>7
  <2>2. CASE j \in 1 .. n
    <3>1. L[i].at < L[j].at
      BY <1>7, <2>1, <2>2 DEF Log
    <3> QED BY <1>4, <2>1, <2>2, <3>1
  <2>3. CASE j = n + 1
    <3>1. L[i].at <= L[n].at
      <4>1. i = n \/ i < n
        BY <1>1, <2>1
      <4>2. n \in 1 .. n
        BY <1>1
      <4>3. i < n => L[i].at < L[n].at
        BY <2>1, <4>2 DEF Log
      <4> QED BY <1>1, <2>1, <4>1, <4>2, <4>3
    <3>2. L[i].at \in Nat /\ L[n].at \in Nat
      BY <1>1, <2>1
    <3> QED BY <1>3, <1>4, <2>1, <2>3, <3>1, <3>2
  <2> QED BY <1>5, <2>2, <2>3
<1>8. \A i \in 1 .. n + 1 : M[i].at <= Len(f)
  BY <1>1, <1>3, <1>4, <1>5
<1>9. Log(f, M)
  <2>1. M # << >> /\ M[1] = Start
    BY <1>1, <1>4
  <2>2. Holds(f, 0, Header) /\ Len(M) - 1 = n
    BY <1>1, <1>4 DEF Log
  <2> QED BY <1>4, <1>6, <1>7, <1>8, <2>1, <2>2 DEF Log
<1> QED BY <1>1, <1>4, <1>9 DEF M, Final

---------------------------------------------------------------------------
(* Appending records *)

PayloadKinds == {"path", "sum", "id", "mtime"}
PlainRecord(r) == IsSize(r[1]) /\ \A i \in 2 .. Len(r) : r[i].kind \in PayloadKinds

(* From the k-th state on, the records of f have sizes at their beginnings *)
(* and nowhere else.                                                       *)
PlainFrom(f, L, k) ==
  \A j \in k .. Len(L) - 1 :
    /\ IsSize(f[L[j].at + 1])
    /\ \A i \in L[j].at + 2 .. L[j + 1].at : f[i].kind \in PayloadKinds

(* The states from k to n differ from the k-th by more nodes only.         *)
Quiet(L, k, n) ==
  \A j \in k .. n : L[j].deps = L[k].deps /\ Extends(L[k].nodes, L[j].nodes)

LEMMA HoldsConcat ==
  ASSUME NEW f \in Seq(Wd), NEW r \in Seq(Wd)
  PROVE  /\ f \o r \in Seq(Wd) /\ Len(f \o r) = Len(f) + Len(r)
         /\ Holds(f \o r, Len(f), r) /\ Agree(f, f \o r, Len(f))
<1> DEFINE g == f \o r
<1>1. /\ g \in Seq(Wd) /\ Len(g) = Len(f) + Len(r)
      /\ \A i \in 1 .. Len(f) + Len(r) : g[i] = IF i <= Len(f) THEN f[i] ELSE r[i - Len(f)]
  BY ConcatProperties
<1>2. Len(f) \in Nat /\ Len(r) \in Nat
  OBVIOUS
<1> HIDE DEF g
<1>3. \A i \in 1 .. Len(r) : g[Len(f) + i] = r[i]
  <2> SUFFICES ASSUME NEW i \in 1 .. Len(r) PROVE g[Len(f) + i] = r[i]
    OBVIOUS
  <2>1. Len(f) + i \in 1 .. Len(f) + Len(r) /\ ~(Len(f) + i <= Len(f)) /\ (Len(f) + i) - Len(f) = i
    BY <1>2
  <2> QED BY <1>1, <2>1
<1>4. \A i \in 1 .. Len(f) : f[i] = g[i]
  <2> SUFFICES ASSUME NEW i \in 1 .. Len(f) PROVE f[i] = g[i]
    OBVIOUS
  <2>1. i \in 1 .. Len(f) + Len(r) /\ i <= Len(f)
    BY <1>2
  <2> QED BY <1>1, <2>1
<1> QED BY <1>1, <1>2, <1>3, <1>4 DEF Holds, Agree, g

LEMMA AppendRecord ==
  ASSUME NEW f \in Seq(Wd), NEW L, Log(f, L), Final(L).at = Len(f),
         NEW r \in Seq(Wd), NEW t, RecordStep(f \o r, Final(L), t),
         t.at = Len(f) + Len(r), NEW k \in 1 .. Len(L)
  PROVE  LET M == Append(L, t) IN
         /\ Log(f \o r, M) /\ Len(M) = Len(L) + 1 /\ Final(M) = t
         /\ \A i \in 1 .. Len(L) : M[i] = L[i]
         /\ PlainFrom(f, L, k) /\ PlainRecord(r) => PlainFrom(f \o r, M, k)
<1> DEFINE M == Append(L, t)
           g == f \o r
           n == Len(L)
<1>1. g \in Seq(Wd) /\ Len(g) = Len(f) + Len(r) /\ Holds(g, Len(f), r) /\ Agree(f, g, Len(f))
      /\ Len(f) \in Nat /\ Len(r) \in Nat
  BY HoldsConcat
<1>2. /\ L \in Seq(State) /\ n \in Nat /\ n >= 1
      /\ \A i \in 1 .. n : L[i].at \in Nat /\ L[i].at <= Len(f)
      /\ L[n] = Final(L) /\ L[n].at = Len(f)
  BY LogFacts DEF Final
<1> DEFINE K == SubSeq(L, 1, n)
<1>3. Log(g, K) /\ Len(K) = n /\ Final(K) = L[n] /\ \A i \in 1 .. n : K[i] = L[i]
  <2>1. n \in 1 .. Len(L)
    BY <1>2
  <2> HIDE DEF g, n
  <2> QED BY <1>1, <1>2, <2>1, LogSame
<1>4. K = L
  <2>1. K \in Seq(State)
    BY <1>3 DEF Log
  <2> HIDE DEF K
  <2> QED BY <1>2, <1>3, <2>1, SeqEqual
<1>5. Log(g, M) /\ Len(M) = n + 1 /\ Final(M) = t /\ \A i \in 1 .. n : M[i] = L[i]
  <2>1. Log(g, L) /\ RecordStep(g, Final(L), t)
    BY <1>3, <1>4
  <2> HIDE DEF g
  <2> QED BY <1>1, <2>1, LogStep
<1> HIDE DEF g, M, K
<1>6. ASSUME PlainFrom(f, L, k), PlainRecord(r) PROVE PlainFrom(g, M, k)
  <2> SUFFICES ASSUME NEW j \in k .. n
               PROVE  /\ IsSize(g[M[j].at + 1])
                      /\ \A i \in M[j].at + 2 .. M[j + 1].at : g[i].kind \in PayloadKinds
    BY <1>2, <1>5 DEF PlainFrom
  <2>1. j \in 1 .. n
    BY <1>2
  <2>2. CASE j < n
    <3>1. j \in k .. n - 1 /\ j + 1 \in 1 .. n
      BY <1>2, <2>1, <2>2
    <3>2. /\ IsSize(f[L[j].at + 1])
          /\ \A i \in L[j].at + 2 .. L[j + 1].at : f[i].kind \in PayloadKinds
      BY <1>6, <3>1 DEF PlainFrom
    <3>3. L[j].at < L[j + 1].at
      BY <2>1, <3>1 DEF Log
    <3>4. M[j] = L[j] /\ M[j + 1] = L[j + 1]
      BY <1>5, <2>1, <3>1
    <3>5. L[j].at \in Nat /\ L[j + 1].at \in Nat /\ L[j + 1].at <= Len(f)
      BY <1>2, <2>1, <3>1
    <3>6. L[j].at + 1 \in 1 .. Len(f) /\ \A i \in L[j].at + 2 .. L[j + 1].at : i \in 1 .. Len(f)
      <4> DEFINE a == L[j].at
                 b == L[j + 1].at
                 l == Len(f)
      <4>1. a \in Nat /\ b \in Nat /\ l \in Nat /\ a < b /\ b <= l
        BY <1>1, <3>3, <3>5
      <4> HIDE DEF a, b, l
      <4>2. a + 1 \in 1 .. l /\ \A i \in a + 2 .. b : i \in 1 .. l
        BY <4>1
      <4> QED BY <4>2 DEF a, b, l
    <3>7. \A i \in 1 .. Len(f) : f[i] = g[i]
      BY <1>1 DEF Agree
    <3>8. IsSize(g[L[j].at + 1])
      BY <3>2, <3>6, <3>7
    <3>9. \A i \in L[j].at + 2 .. L[j + 1].at : g[i].kind \in PayloadKinds
      BY <3>2, <3>6, <3>7
    <3> QED BY <3>4, <3>8, <3>9
  <2>3. CASE j = n
    <3>1. M[j].at = Len(f) /\ M[j + 1].at = Len(f) + Len(r)
      BY <1>2, <1>5, <2>1, <2>3 DEF Final
    <3>2. \A i \in 1 .. Len(r) : g[Len(f) + i] = r[i]
      BY <1>1 DEF Holds
    <3>3. Len(r) >= 1
      <4>1. Final(L).at < t.at
        <5>1. Final(L) \in State /\ RecordStep(g, Final(L), t)
          BY LogFacts DEF g
        <5>2. Final(L).at < t.at
          BY <1>1, <5>1, StepFacts
        <5> QED BY <5>2
      <4> QED BY <1>1, <4>1
    <3>4. IsSize(g[Len(f) + 1])
      BY <1>1, <1>6, <3>2, <3>3 DEF PlainRecord
    <3>5. ASSUME NEW i \in Len(f) + 2 .. Len(f) + Len(r) PROVE g[i].kind \in PayloadKinds
      <4>1. i - Len(f) \in 2 .. Len(r) /\ i - Len(f) \in 1 .. Len(r) /\ Len(f) + (i - Len(f)) = i
        BY <1>1
      <4>2. g[i] = r[i - Len(f)]
        BY <3>2, <4>1
      <4> QED BY <1>6, <4>1, <4>2 DEF PlainRecord
    <3> QED BY <3>1, <3>4, <3>5
  <2> QED BY <1>2, <2>2, <2>3
<1> QED BY <1>5, <1>6 DEF g, M

(* What RecordDeps writes before the deps: the nodes behind the first m.   *)
NodesLogged(f, L, M, g, new, i) ==
  /\ Log(g, M) /\ Final(M).at = Len(g)
  /\ Len(M) >= Len(L) /\ M[Len(L)] = Final(L)
  /\ Len(Final(M).nodes) = i /\ Extends(Final(M).nodes, new)
  /\ Quiet(M, Len(L), Len(M))
  /\ (\A q \in Len(Final(L).nodes) + 1 .. Len(new) : new[q] \in Seq(PathWord))
       => PlainFrom(g, M, Len(L))

LEMMA ExtendsTransitive ==
  ASSUME NEW a, NEW b, NEW c, Len(a) \in Nat, Len(b) \in Nat, Len(c) \in Nat,
         Extends(a, b), Extends(b, c)
  PROVE  Extends(a, c)
<1>1. \A i \in 1 .. Len(a) : i \in 1 .. Len(b)
  BY DEF Extends
<1>2. Len(a) <= Len(c)
  BY DEF Extends
<1>3. \A i \in 1 .. Len(a) : c[i] = a[i]
  BY <1>1 DEF Extends
<1> QED BY <1>2, <1>3 DEF Extends

LEMMA QuietAppend ==
  ASSUME NEW L \in Seq(State), NEW t \in State, NEW k \in 1 .. Len(L), Quiet(L, k, Len(L)),
         t.deps = Final(L).deps, Extends(Final(L).nodes, t.nodes), NEW M \in Seq(State),
         Len(M) = Len(L) + 1, Final(M) = t, \A i \in 1 .. Len(L) : M[i] = L[i]
  PROVE  Quiet(M, k, Len(M))
<1>1. Len(L) \in Nat /\ k \in k .. Len(L) /\ Len(L) \in k .. Len(L) /\ Len(L) \in 1 .. Len(L)
  OBVIOUS
<1>2. M[k] = L[k] /\ M[Len(L) + 1] = t /\ L[k] \in State /\ Final(L) \in State
  BY <1>1 DEF Final
<1> SUFFICES ASSUME NEW j \in k .. Len(L) + 1
             PROVE  M[j].deps = L[k].deps /\ Extends(L[k].nodes, M[j].nodes)
  BY <1>2 DEF Quiet
<1>3. CASE j \in k .. Len(L)
  <2>1. M[j] = L[j]
    BY <1>1, <1>3
  <2> QED BY <1>3, <2>1 DEF Quiet
<1>4. CASE j = Len(L) + 1
  <2>1. Final(L).deps = L[k].deps /\ Extends(L[k].nodes, Final(L).nodes)
    BY <1>1 DEF Quiet, Final
  <2>2. Len(L[k].nodes) \in Nat /\ Len(Final(L).nodes) \in Nat /\ Len(t.nodes) \in Nat
    <3>1. \A s \in State : Len(s.nodes) \in Nat
      BY StateFacts
    <3> QED BY <1>2, <3>1
  <2>3. Extends(L[k].nodes, t.nodes)
    BY <2>1, <2>2, ExtendsTransitive
  <2> QED BY <1>2, <1>4, <2>1, <2>3
<1> QED BY <1>1, <1>3, <1>4

LEMMA NodeRecordPlain ==
  ASSUME NEW p \in Seq(PathWord), NEW id \in Nat
  PROVE  PlainRecord(NodeRecord(p, id))
<1>1. p \in Path
  BY WordsAreTyped DEF Path
<1> DEFINE r == NodeRecord(p, id)
           n == Len(p)
<1>2. /\ n \in Nat /\ Len(r) = n + 2 /\ r[1] = W("node", n + 1)
      /\ (\A i \in 1 .. n : r[i + 1] = p[i]) /\ r[n + 2] = W("sum", id)
  BY <1>1, NodeRecordTyped
<1>3. \A i \in 1 .. n : p[i].kind = "path"
  <2>1. \A i \in 1 .. n : p[i] \in PathWord
    OBVIOUS
  <2>2. \A w \in PathWord : w.kind = "path"
    BY DEF PathWord
  <2> QED BY <2>1, <2>2
<1> HIDE DEF r, n
<1>4. W("node", n + 1).kind = "node" /\ W("sum", id).kind = "sum"
  BY DEF W
<1>5. ASSUME NEW i \in 2 .. n + 2 PROVE r[i].kind \in PayloadKinds
  <2>1. CASE i = n + 2
    BY <1>2, <1>4, <2>1 DEF PayloadKinds
  <2>2. CASE i # n + 2
    <3>1. i - 1 \in 1 .. n /\ (i - 1) + 1 = i
      BY <1>2, <2>2
    <3>2. r[i] = p[i - 1]
      BY <1>2, <3>1
    <3> QED BY <1>3, <3>1, <3>2 DEF PayloadKinds
  <2> QED BY <2>1, <2>2
<1> QED BY <1>2, <1>4, <1>5 DEF PlainRecord, IsSize, r

LEMMA DepsRecordPlain ==
  ASSUME NEW m \in Seq(Path), NEW out \in ToSet(m), NEW d \in Dep, ToSet(d.nodes) \subseteq ToSet(m),
         d.mtime[1].kind = "mtime", d.mtime[2].kind = "mtime"
  PROVE  PlainRecord(DepsRecord(out, d, m))
<1> DEFINE r == DepsRecord(out, d, m)
           n == Len(d.nodes)
<1>1. /\ n \in Nat /\ Len(r) = n + 4 /\ r[1] = W("deps", 3 + n) /\ r[2] = W("id", IdOf(out, m))
      /\ r[3] = d.mtime[1] /\ r[4] = d.mtime[2]
      /\ \A i \in 1 .. n : r[i + 4] = W("id", IdOf(d.nodes[i], m))
  BY DepsRecordTyped
<1> HIDE DEF r, n
<1>2. \A v : W("deps", v).kind = "deps" /\ W("id", v).kind = "id"
  BY DEF W
<1>3. ASSUME NEW i \in 2 .. n + 4 PROVE r[i].kind \in PayloadKinds
  <2>1. CASE i \in {2, 3, 4}
    BY <1>1, <1>2, <2>1 DEF PayloadKinds
  <2>2. CASE i \notin {2, 3, 4}
    <3>1. i - 4 \in 1 .. n /\ (i - 4) + 4 = i
      BY <1>1, <2>2
    <3>2. r[i] = W("id", IdOf(d.nodes[i - 4], m))
      BY <1>1, <3>1
    <3> QED BY <1>2, <3>2 DEF PayloadKinds
  <2> QED BY <2>1, <2>2
<1> QED BY <1>1, <1>2, <1>3 DEF PlainRecord, IsSize, r

LEMMA AppendNode ==
  ASSUME NEW f \in Seq(Wd), NEW L, Log(f, L), NEW new \in Seq(Path), IsInjective(new),
         NEW g \in Seq(Wd), NEW i \in Nat, i < Len(new),
         NEW M, NodesLogged(f, L, M, g, new, i), Len(Final(L).nodes) <= i
  PROVE  \E N : NodesLogged(f, L, N, g \o NodeRecord(new[i + 1], i), new, i + 1)
<1> DEFINE k == Len(L)
           s == Final(M)
           p == new[i + 1]
           r == NodeRecord(p, i)
           t == [at |-> s.at + Len(p) + 2, nodes |-> Append(s.nodes, p), deps |-> s.deps]
           N == Append(M, t)
           h == g \o r
           plain == \A q \in Len(Final(L).nodes) + 1 .. Len(new) : new[q] \in Seq(PathWord)
<1>1. i + 1 \in 1 .. Len(new) /\ p \in Path /\ Len(new) \in Nat /\ Len(p) \in Nat
  BY DEF Path
<1>2. /\ Log(g, M) /\ s.at = Len(g) /\ Len(M) >= k /\ M[k] = Final(L)
      /\ Len(s.nodes) = i /\ Extends(s.nodes, new) /\ Quiet(M, k, Len(M))
      /\ plain => PlainFrom(g, M, k)
  BY DEF NodesLogged
<1>3. s \in State /\ s.nodes \in Seq(Path) /\ s.at \in Nat /\ M \in Seq(State) /\ Len(M) \in Nat
      /\ k \in 1 .. Len(M)
  <2>1. k \in Nat /\ k >= 1
    BY LogFacts
  <2>2. s \in State /\ M \in Seq(State) /\ Len(M) \in Nat
    BY <1>2, LogFacts
  <2>3. s.nodes \in Seq(Path) /\ s.at \in Nat
    BY <2>2, StateFacts
  <2>4. k \in 1 .. Len(M)
    BY <1>2, <2>1, <2>2
  <2> QED BY <2>2, <2>3, <2>4
<1>4. r \in Seq(Wd) /\ Len(r) = Len(p) + 2
  BY <1>1, NodeRecordTyped
<1>5. h \in Seq(Wd) /\ Len(h) = Len(g) + Len(r) /\ Holds(h, s.at, r)
  BY <1>2, <1>4, HoldsConcat
<1>6. p \notin ToSet(s.nodes)
  <2> SUFFICES ASSUME NEW j \in 1 .. i, s.nodes[j] = p PROVE FALSE
    BY <1>2, <1>3 DEF ToSet
  <2>1. new[j] = p /\ j \in 1 .. Len(new)
    BY <1>1, <1>2 DEF Extends
  <2>2. j = i + 1
    BY <1>1, <2>1 DEF IsInjective
  <2> QED BY <2>2
<1> HIDE DEF h, r, p, s, plain, k, N, t
<1>7. RecordStep(h, s, t)
  <2>1. Holds(h, s.at, NodeRecord(p, Len(s.nodes)))
    BY <1>2, <1>5 DEF r
  <2> QED BY <1>1, <1>6, <2>1 DEF RecordStep, NodeStep, t
<1>8. t.at = Len(g) + Len(r)
  <2>1. t.at = s.at + Len(p) + 2
    BY DEF t
  <2> QED BY <1>1, <1>2, <1>3, <1>4, <2>1
<1>9. /\ Log(h, N) /\ Len(N) = Len(M) + 1 /\ Final(N) = t
      /\ \A j \in 1 .. Len(M) : N[j] = M[j]
      /\ PlainFrom(g, M, k) /\ PlainRecord(r) => PlainFrom(h, N, k)
  <2>1. RecordStep(g \o r, Final(M), t) /\ Final(M).at = Len(g)
    BY <1>2, <1>7 DEF h, s
  <2> QED BY <1>2, <1>3, <1>4, <1>8, <2>1, AppendRecord DEF h, N
<1>10. t.at = Len(h)
  BY <1>5, <1>8
<1>11. t.nodes = Append(s.nodes, p) /\ t.deps = s.deps
  BY DEF t
<1>12. Len(t.nodes) = i + 1 /\ Extends(t.nodes, new) /\ Extends(s.nodes, t.nodes)
  <2>1. Len(t.nodes) = i + 1 /\ (\A j \in 1 .. i : t.nodes[j] = s.nodes[j]) /\ t.nodes[i + 1] = p
    BY <1>1, <1>2, <1>3, <1>11, AppendProperties
  <2>2. \A j \in 1 .. i : new[j] = s.nodes[j]
    BY <1>2 DEF Extends
  <2>3. \A j \in 1 .. i + 1 : j \in 1 .. i \/ j = i + 1
    OBVIOUS
  <2>4. new[i + 1] = p
    BY DEF p
  <2>5. i + 1 <= Len(new) /\ i <= i + 1
    BY <1>1
  <2>6. \A j \in 1 .. i + 1 : new[j] = t.nodes[j]
    BY <2>1, <2>2, <2>3, <2>4
  <2> QED BY <1>2, <2>1, <2>5, <2>6 DEF Extends
<1>13. Quiet(N, k, Len(N))
  <2>1. t \in State /\ N \in Seq(State)
    <3>1. N \in Seq(State)
      BY <1>9 DEF Log
    <3>2. t \in State
      BY <1>3, <1>5, <1>7, StepFacts
    <3> QED BY <3>1, <3>2
  <2>2. t.deps = Final(M).deps /\ Extends(Final(M).nodes, t.nodes)
    BY <1>11, <1>12 DEF s
  <2> QED BY <1>2, <1>3, <1>9, <2>1, <2>2, QuietAppend
<1>14. plain => PlainFrom(h, N, k)
  <2> SUFFICES ASSUME plain PROVE PlainRecord(r)
    BY <1>2, <1>9
  <2>1. p \in Seq(PathWord)
    <3>1. i + 1 \in Len(Final(L).nodes) + 1 .. Len(new)
      <4>1. Len(Final(L).nodes) \in Nat
        BY LogFacts, StateFacts
      <4> QED BY <1>1, <4>1
    <3> QED BY <3>1 DEF plain, p
  <2> QED BY <2>1, NodeRecordPlain DEF r
<1>15. Len(N) >= k /\ N[k] = Final(L)
  BY <1>2, <1>3, <1>9
<1>16. NodesLogged(f, L, N, h, new, i + 1)
  BY <1>9, <1>10, <1>12, <1>13, <1>14, <1>15 DEF NodesLogged, plain, k
<1> QED BY <1>16 DEF h, r, p

(* The records of the new nodes and the deps: between them, Load knows     *)
(* more nodes and the deps it knew before.                                 *)
RecordsLogged(f, L, g, M, out, d, new) ==
  /\ Log(g, M) /\ Len(M) > Len(L) /\ M[Len(L)] = Final(L)
  /\ Final(M) = [at |-> Len(g), nodes |-> new,
                 deps |-> UpdateDeps(Final(L).deps, IdOf(out, new), d)]
  /\ Quiet(M, Len(L), Len(M) - 1)
  /\ /\ \A q \in Len(Final(L).nodes) + 1 .. Len(new) : new[q] \in Seq(PathWord)
     /\ d.mtime[1].kind = "mtime" /\ d.mtime[2].kind = "mtime"
     => PlainFrom(g, M, Len(L))

LEMMA AppendNodes ==
  ASSUME NEW f \in Seq(Wd), NEW L, Log(f, L), Final(L).at = Len(f),
         NEW new \in Seq(Path), IsInjective(new), Extends(Final(L).nodes, new), NEW ids,
         Layout(ids, Final(L).nodes, new)
  PROVE  \E M : NodesLogged(f, L, M, f \o ids[Len(new)], new, Len(new))
<1> DEFINE old == Final(L).nodes
           k == Len(old)
           n == Len(new) - k
           Good(i) == \E M : NodesLogged(f, L, M, f \o ids[k + i], new, k + i)
           T == {i \in 0 .. n : Good(i)}
<1>1. k \in Nat /\ n \in Nat /\ k + n = Len(new) /\ Len(new) \in Nat
  <2>1. k \in Nat
    BY LogFacts, StateFacts
  <2> QED BY <2>1 DEF Extends
<1>2. L \in Seq(State) /\ Len(L) \in 1 .. Len(L) /\ Final(L) = L[Len(L)] /\ Len(L) \in Nat
  BY LogFacts DEF Final
<1> HIDE DEF old, k, n
<1>3. Good(0)
  <2>1. ids[k + 0] = << >>
    <3>1. k + 0 \in 0 .. Len(new) /\ k + 0 <= k
      BY <1>1
    <3> QED BY <3>1 DEF k, old, Layout
  <2>2. f \o ids[k + 0] = f
    BY <2>1, ConcatEmptySeq
  <2>3. Quiet(L, Len(L), Len(L))
    <3>1. \A j \in Len(L) .. Len(L) : j = Len(L)
      BY <1>2
    <3>2. Extends(old, old)
      BY <1>1 DEF Extends, k
    <3> QED BY <1>2, <3>1, <3>2 DEF Quiet, old
  <2>4. PlainFrom(f, L, Len(L))
    <3>1. Len(L) .. Len(L) - 1 = {}
      BY <1>2
    <3> QED BY <3>1 DEF PlainFrom
  <2>5. NodesLogged(f, L, L, f, new, k + 0)
    <3>1. Len(old) = k + 0
      BY <1>1 DEF k
    <3> QED BY <1>2, <2>3, <2>4, <3>1 DEF NodesLogged, old
  <2> QED BY <2>2, <2>5
<1>4. ASSUME NEW i \in 0 .. n - 1, Good(i) PROVE Good(i + 1)
  <2> DEFINE j == k + i
  <2>1. j \in Nat /\ j \in 0 .. Len(new) /\ j + 1 \in 0 .. Len(new) /\ j < Len(new) /\ k <= j
        /\ ~(j + 1 <= k) /\ (j + 1) - 1 = j /\ k + (i + 1) = j + 1 /\ j + 1 \in 1 .. Len(new)
    BY <1>1
  <2> HIDE DEF j
  <2>2. PICK M : NodesLogged(f, L, M, f \o ids[j], new, j)
    BY <1>4 DEF j
  <2>3. ids[j] \in Seq(Wd) /\ ids[j + 1] = ids[j] \o NodeRecord(new[j + 1], j)
    BY <2>1 DEF k, old, Layout
  <2>4. f \o ids[j] \in Seq(Wd)
    BY <2>3, ConcatProperties
  <2>5. \E N : NodesLogged(f, L, N, (f \o ids[j]) \o NodeRecord(new[j + 1], j), new, j + 1)
    BY <2>1, <2>2, <2>4, AppendNode DEF k, old
  <2>6. NodeRecord(new[j + 1], j) \in Seq(Wd)
    BY <2>1, NodeRecordTyped
  <2>7. (f \o ids[j]) \o NodeRecord(new[j + 1], j) = f \o ids[j + 1]
    <3> DEFINE a == ids[j]
               b == NodeRecord(new[j + 1], j)
    <3>1. a \in Seq(Wd) /\ b \in Seq(Wd) /\ ids[j + 1] = a \o b
      BY <2>3, <2>6
    <3> HIDE DEF a, b
    <3>2. (f \o a) \o b = f \o (a \o b)
      BY <3>1, ConcatAssociative
    <3> QED BY <3>1, <3>2 DEF a, b
  <2> QED BY <2>1, <2>5, <2>7
<1>5. Good(n)
  <2>1. 0 \in T
    BY <1>1, <1>3
  <2>2. ASSUME NEW i \in 0 .. n - 1, i \in T PROVE i + 1 \in T
    <3>1. i + 1 \in 0 .. n
      BY <1>1
    <3> QED BY <1>4, <2>2, <3>1
  <2> HIDE DEF T
  <2>3. \A i \in 0 .. n : i \in T
    BY <1>1, <2>1, <2>2, IntervalInduction
  <2>4. n \in T
    BY <1>1, <2>3
  <2> QED BY <2>4 DEF T
<1> QED BY <1>1, <1>5

LEMMA AppendDeps ==
  ASSUME NEW f \in Seq(Wd), NEW L, Log(f, L), NEW g \in Seq(Wd),
         NEW new \in Seq(Path), NEW M, NodesLogged(f, L, M, g, new, Len(new)),
         NEW out \in ToSet(new), NEW d \in Dep, ToSet(d.nodes) \subseteq ToSet(new)
  PROVE  \E N : RecordsLogged(f, L, g \o DepsRecord(out, d, new), N, out, d, new)
<1> DEFINE k == Len(L)
           s == Final(M)
           r == DepsRecord(out, d, new)
           u == UpdateDeps(s.deps, IdOf(out, new), d)
           t == [at |-> s.at + Len(d.nodes) + 4, nodes |-> s.nodes, deps |-> u]
           N == Append(M, t)
           h == g \o r
           plain == \A q \in Len(Final(L).nodes) + 1 .. Len(new) : new[q] \in Seq(PathWord)
<1>1. /\ Log(g, M) /\ s.at = Len(g) /\ Len(M) >= k /\ M[k] = Final(L)
      /\ Len(s.nodes) = Len(new) /\ Extends(s.nodes, new) /\ Quiet(M, k, Len(M))
      /\ plain => PlainFrom(g, M, k)
  BY DEF NodesLogged
<1>2. s \in State /\ s.nodes \in Seq(Path) /\ s.at \in Nat /\ M \in Seq(State) /\ Len(M) \in Nat
      /\ k \in 1 .. Len(M) /\ k \in Nat
  <2>1. k \in Nat /\ k >= 1
    BY LogFacts
  <2>2. s \in State /\ M \in Seq(State) /\ Len(M) \in Nat
    BY <1>1, LogFacts
  <2>3. s.nodes \in Seq(Path) /\ s.at \in Nat
    BY <2>2, StateFacts
  <2>4. k \in 1 .. Len(M)
    BY <1>1, <2>1, <2>2
  <2> QED BY <2>1, <2>2, <2>3, <2>4
<1>3. s.nodes = new
  <2>1. \A i \in 1 .. Len(new) : s.nodes[i] = new[i]
    BY <1>1 DEF Extends
  <2> QED BY <1>1, <1>2, <2>1, SeqEqual
<1>4. r \in Seq(Wd) /\ Len(r) = Len(d.nodes) + 4 /\ Len(d.nodes) \in Nat
  BY DepsRecordTyped
<1>5. h \in Seq(Wd) /\ Len(h) = Len(g) + Len(r) /\ Holds(h, s.at, r)
  BY <1>1, <1>4, HoldsConcat
<1> HIDE DEF h, r, s, plain, k, N, t, u
<1>6. RecordStep(h, s, t)
  <2>1. Holds(h, s.at, DepsRecord(out, d, s.nodes))
    BY <1>3, <1>5 DEF r
  <2>2. t = [at |-> s.at + Len(d.nodes) + 4, nodes |-> s.nodes,
             deps |-> UpdateDeps(s.deps, IdOf(out, s.nodes), d)]
    BY <1>3 DEF t, u
  <2> QED BY <1>3, <2>1, <2>2 DEF RecordStep, DepsStep
<1>7. t.at = Len(g) + Len(r) /\ t.at = Len(h)
  <2>1. t.at = s.at + Len(d.nodes) + 4
    BY DEF t
  <2> QED BY <1>1, <1>2, <1>4, <1>5, <2>1
<1>8. /\ Log(h, N) /\ Len(N) = Len(M) + 1 /\ Final(N) = t
      /\ \A j \in 1 .. Len(M) : N[j] = M[j]
      /\ PlainFrom(g, M, k) /\ PlainRecord(r) => PlainFrom(h, N, k)
  <2>1. RecordStep(g \o r, Final(M), t) /\ Final(M).at = Len(g)
    BY <1>1, <1>6 DEF h, s
  <2> QED BY <1>1, <1>2, <1>4, <1>7, <2>1, AppendRecord DEF h, N
<1>9. Quiet(N, k, Len(N) - 1)
  <2>1. \A j \in k .. Len(M) : N[j] = M[j] /\ k \in k .. Len(M)
    BY <1>2, <1>8
  <2>2. Len(N) - 1 = Len(M)
    BY <1>2, <1>8
  <2> QED BY <1>1, <2>1, <2>2 DEF Quiet
<1>10. s.deps = Final(L).deps
  <2>1. Len(M) \in k .. Len(M)
    BY <1>2
  <2> QED BY <1>1, <2>1 DEF Quiet, s, Final
<1>11. Final(N) = [at |-> Len(h), nodes |-> new,
                   deps |-> UpdateDeps(Final(L).deps, IdOf(out, new), d)]
  <2>1. t = [at |-> t.at, nodes |-> new, deps |-> u]
    BY <1>3 DEF t
  <2> QED BY <1>7, <1>8, <1>10, <2>1 DEF u
<1>12. ASSUME plain, d.mtime[1].kind = "mtime", d.mtime[2].kind = "mtime"
       PROVE  PlainFrom(h, N, k)
  <2>1. PlainRecord(r)
    BY <1>12, DepsRecordPlain DEF r
  <2> QED BY <1>1, <1>8, <1>12, <2>1
<1>13. Len(N) > k /\ N[k] = Final(L)
  BY <1>1, <1>2, <1>8
<1>14. RecordsLogged(f, L, h, N, out, d, new)
  BY <1>8, <1>9, <1>11, <1>12, <1>13 DEF RecordsLogged, plain, k
<1> QED BY <1>14 DEF h, r

LEMMA AppendRecords ==
  ASSUME NEW f \in Seq(Wd), NEW L, Log(f, L), Final(L).at = Len(f),
         NEW new \in Seq(Path), IsInjective(new), Extends(Final(L).nodes, new),
         NEW out \in ToSet(new), NEW d \in Dep, ToSet(d.nodes) \subseteq ToSet(new)
  PROVE  LET r == Records(out, d, Final(L).nodes, new) IN
         r \in Seq(Wd) /\ \E N : RecordsLogged(f, L, f \o r, N, out, d, new)
<1>1. Final(L).nodes \in Seq(Path)
  BY LogFacts, StateFacts
<1>2. PICK ids : /\ Records(out, d, Final(L).nodes, new) = ids[Len(new)] \o DepsRecord(out, d, new)
                 /\ Layout(ids, Final(L).nodes, new)
  BY <1>1, RecordsUnfold
<1> DEFINE a == ids[Len(new)]
           r == DepsRecord(out, d, new)
<1>3. a \in Seq(Wd) /\ r \in Seq(Wd) /\ f \o a \in Seq(Wd) /\ a \o r \in Seq(Wd)
  <2>1. a \in Seq(Wd)
    <3>1. Len(new) \in 0 .. Len(new)
      OBVIOUS
    <3> QED BY <1>2, <3>1 DEF Layout
  <2>2. r \in Seq(Wd)
    BY DepsRecordTyped
  <2> QED BY <2>1, <2>2, ConcatProperties
<1>4. PICK M : NodesLogged(f, L, M, f \o a, new, Len(new))
  BY <1>2, AppendNodes
<1> HIDE DEF a
<1>5. \E N : RecordsLogged(f, L, (f \o a) \o r, N, out, d, new)
  BY <1>3, <1>4, AppendDeps
<1>6. (f \o a) \o r = f \o (a \o r)
  BY <1>3, ConcatAssociative
<1> QED BY <1>2, <1>3, <1>5, <1>6 DEF a

---------------------------------------------------------------------------
(* Recompact *)

TypeInv ==
  /\ file \in Seq(Wd) /\ nodes \in Seq(Path) /\ IsInjective(nodes)
  /\ deps \in Seq(DepOrNone) /\ stored \in [Output -> DepOrNone]
  /\ load \in [at : Nat, buf : Seq(Wd), total : Nat, unique : Nat]
  /\ todo \in Seq(Wd) /\ (pc = "writing") = (todo # << >>)
  /\ call \in [out : Path, deps : DepOrNone]
  /\ pc = "writing" => call.deps \in Dep /\ \E o \in Output : call.out = PathOf[o]
  /\ pc \in PcValues /\ torn \in BOOLEAN /\ mended \in BOOLEAN
  /\ pc = "closed" => nodes = << >> /\ deps = << >>

LEMMA GotTyped ==
  ASSUME NEW m \in Seq(Path), NEW d \in Seq(DepOrNone), NEW p
  PROVE  /\ Got(p, m, d) \in DepOrNone
         /\ Got(p, m, d) # NoDeps => Got(p, m, d) \in Dep /\ p \in ToSet(m)
<1>1. ASSUME IdOf(p, m) \in 0 .. Len(d) - 1 PROVE d[IdOf(p, m) + 1] \in DepOrNone
  <2>1. IdOf(p, m) + 1 \in 1 .. Len(d)
    BY <1>1
  <2> QED BY <2>1
<1>2. Got(p, m, d) \in DepOrNone
  BY <1>1 DEF Got, DepOrNone
<1>3. ASSUME Got(p, m, d) # NoDeps PROVE p \in ToSet(m)
  <2>1. IdOf(p, m) \in 0 .. Len(d) - 1
    BY <1>3 DEF Got
  <2>2. p \notin ToSet(m) => IdOf(p, m) = -1
    BY IdOfFacts
  <2> QED BY <2>1, <2>2
<1> QED BY <1>2, <1>3 DEF DepOrNone

(* One record of deps and the nodes that it needs.                         *)
LEMMA WithIdsOf ==
  ASSUME NEW out \in Path, NEW list \in Seq(Path), NEW known \in Seq(Path), IsInjective(known)
  PROVE  LET new == WithIds(<<out>> \o list, known) IN
         /\ new \in Seq(Path) /\ IsInjective(new) /\ Extends(known, new)
         /\ out \in ToSet(new) /\ ToSet(list) \subseteq ToSet(new)
         /\ ToSet(new) = ToSet(known) \cup {out} \cup ToSet(list)
<1> DEFINE paths == <<out>> \o list
           new == WithIds(paths, known)
<1>1. paths \in Seq(Path) /\ ToSet(paths) = {out} \cup ToSet(list)
  <2>1. <<out>> \in Seq(Path) /\ ToSet(<<out>>) = {out}
    BY DEF ToSet
  <2> DEFINE h == <<out>>
  <2>2. h \in Seq(Path) /\ ToSet(h) = {out} /\ paths = h \o list
    BY <2>1
  <2> HIDE DEF h, paths
  <2>3. h \o list \in Seq(Path) /\ ToSet(h \o list) = ToSet(h) \cup ToSet(list)
    BY <2>2, ToSetConcat
  <2> QED BY <2>2, <2>3
<1> HIDE DEF paths
<1>2. /\ new \in Seq(Path) /\ IsInjective(new) /\ Extends(known, new)
      /\ ToSet(new) = ToSet(known) \cup ToSet(paths)
  BY <1>1, WithIdsFacts
<1> QED BY <1>1, <1>2 DEF paths

LogRecord == {x \in [file : Seq(Wd), nodes : Seq(Path), deps : Seq(DepOrNone)] : IsInjective(x.nodes)}

LEMMA RewrittenTyped ==
  ASSUME NEW x \in LogRecord, NEW p \in Path, GetDeps(p) \in Dep
  PROVE  Rewritten(x, p) \in LogRecord
<1> DEFINE d == GetDeps(p)
           new == WithIds(<<p>> \o d.nodes, x.nodes)
           r == Records(p, d, x.nodes, new)
           u == UpdateDeps(x.deps, IdOf(p, new), d)
<1>1. x.file \in Seq(Wd) /\ x.nodes \in Seq(Path) /\ x.deps \in Seq(DepOrNone) /\ IsInjective(x.nodes)
  BY DEF LogRecord
<1>2. d \in Dep /\ d.nodes \in Seq(Path)
  BY DEF Dep
<1> HIDE DEF d
<1>3. new \in Seq(Path) /\ IsInjective(new) /\ p \in ToSet(new) /\ ToSet(d.nodes) \subseteq ToSet(new)
  BY <1>1, <1>2, WithIdsOf
<1> HIDE DEF new
<1>4. r \in Seq(Wd)
  <2>1. PICK ids : r = ids[Len(new)] \o DepsRecord(p, d, new) /\ Layout(ids, x.nodes, new)
    BY <1>1, <1>3, RecordsUnfold
  <2>2. ids[Len(new)] \in Seq(Wd)
    <3>1. Len(new) \in 0 .. Len(new)
      BY <1>3
    <3> QED BY <2>1, <3>1 DEF Layout
  <2>3. DepsRecord(p, d, new) \in Seq(Wd)
    BY <1>2, <1>3, DepsRecordTyped
  <2> QED BY <2>1, <2>2, <2>3, ConcatProperties
<1>5. u \in Seq(DepOrNone)
  <2> DEFINE id == IdOf(p, new)
             D == DepOrNone
             old == x.deps
  <2>1. id \in Nat /\ NoDeps \in D /\ d \in D /\ old \in Seq(D)
    BY <1>1, <1>2, <1>3, IdOfFacts DEF DepOrNone
  <2> HIDE DEF id, D, old
  <2>2. UpdateDeps(old, id, d) \in Seq(D)
    BY <2>1, UpdateTyped
  <2> QED BY <2>2 DEF id, D, old
<1> HIDE DEF r, u
<1>6. Rewritten(x, p) = [file |-> x.file \o r, nodes |-> new, deps |-> u]
  BY DEF Rewritten, r, u, new, d
<1>7. x.file \o r \in Seq(Wd)
  BY <1>1, <1>4, ConcatProperties
<1> QED BY <1>3, <1>5, <1>6, <1>7 DEF LogRecord

EmptyLog == [file |-> Header, nodes |-> << >>, deps |-> << >>]

LEMMA NewLogUnfolds ==
  ASSUME TypeInv
  PROVE  \E log : /\ NewLog = log[Len(nodes)] /\ log[0] = EmptyLog
                  /\ \A i \in 0 .. Len(nodes) : log[i] \in LogRecord
                  /\ \A i \in 1 .. Len(nodes) :
                       log[i] = IF Kept(nodes[i]) THEN Rewritten(log[i - 1], nodes[i])
                                ELSE log[i - 1]
<1> DEFINE n == Len(nodes)
           Body(f) == [i \in 0 .. n |-> IF i = 0 THEN EmptyLog
                                        ELSE IF Kept(nodes[i]) THEN Rewritten(f[i - 1], nodes[i])
                                        ELSE f[i - 1]]
           step == [i \in 1 .. n |-> [x \in LogRecord |-> IF Kept(nodes[i]) THEN Rewritten(x, nodes[i])
                                                          ELSE x]]
           log == CHOOSE f : f = Body(f)
<1>1. n \in Nat /\ nodes \in Seq(Path) /\ deps \in Seq(DepOrNone)
  BY DEF TypeInv
<1>2. EmptyLog \in LogRecord
  <2>1. << >> \in Seq(Path) /\ << >> \in Seq(DepOrNone) /\ IsInjective(<< >>)
    BY DEF IsInjective
  <2> QED BY <2>1, HeaderTyped DEF EmptyLog, LogRecord
<1>3. \A i \in 1 .. n : nodes[i] \in Path /\ (Kept(nodes[i]) => GetDeps(nodes[i]) \in Dep)
  BY <1>1, GotNow, GotTyped DEF Kept
<1>4. step \in [1 .. n -> [LogRecord -> LogRecord]]
  BY <1>3, RewrittenTyped
<1>5. PICK g \in [0 .. n -> LogRecord] : Unfolds(g, n, EmptyLog, step)
  <2> HIDE DEF step, n
  <2> QED BY <1>1, <1>2, <1>4, RecursiveFunction
<1>6. \A i \in 1 .. n : i - 1 \in 0 .. n /\ i \in 0 .. n /\ i # 0
  BY <1>1
<1>7. \A i \in 1 .. n : step[i][g[i - 1]] = IF Kept(nodes[i]) THEN Rewritten(g[i - 1], nodes[i])
                                            ELSE g[i - 1]
  <2>1. \A i \in 1 .. n : g[i - 1] \in LogRecord
    <3> HIDE DEF step, n
    <3> QED BY <1>5, <1>6
  <2> HIDE DEF n
  <2> QED BY <2>1
<1>8. g = Body(g)
  <2>1. \A i \in 0 .. n : i = 0 \/ i \in 1 .. n
    BY <1>1
  <2> HIDE DEF step, n
  <2>2. \A i \in 0 .. n : g[i] = IF i = 0 THEN EmptyLog
                                 ELSE IF Kept(nodes[i]) THEN Rewritten(g[i - 1], nodes[i])
                                 ELSE g[i - 1]
    BY <1>5, <1>7, <2>1 DEF Unfolds
  <2> QED BY <1>5, <2>2
<1>9. log = Body(log)
  <2> HIDE DEF Body
  <2> QED BY <1>8
<1>10. NewLog = log[n]
  BY DEF NewLog, EmptyLog
<1> HIDE DEF log, step
<1>11. \A i \in 0 .. n : log[i] = IF i = 0 THEN EmptyLog
                                  ELSE IF Kept(nodes[i]) THEN Rewritten(log[i - 1], nodes[i])
                                  ELSE log[i - 1]
  BY <1>9
<1> DEFINE T == {i \in 0 .. n : log[i] \in LogRecord}
<1>12. 0 \in T
  <2>1. 0 \in 0 .. n
    BY <1>1
  <2> QED BY <1>2, <1>11, <2>1
<1>13. ASSUME NEW i \in 0 .. n - 1, i \in T PROVE i + 1 \in T
  <2>1. i + 1 \in 1 .. n /\ i + 1 \in 0 .. n /\ (i + 1) - 1 = i /\ i + 1 # 0
    BY <1>1
  <2>2. log[i + 1] = IF Kept(nodes[i + 1]) THEN Rewritten(log[i], nodes[i + 1]) ELSE log[i]
    BY <1>11, <2>1
  <2> QED BY <1>3, <1>13, <2>1, <2>2, RewrittenTyped
<1>14. \A i \in 0 .. n : log[i] \in LogRecord
  <2> HIDE DEF T
  <2>1. \A i \in 0 .. n : i \in T
    BY <1>1, <1>12, <1>13, IntervalInduction
  <2> QED BY <2>1 DEF T
<1>15. log[0] = EmptyLog
  <2>1. 0 \in 0 .. n
    BY <1>1
  <2> QED BY <1>11, <2>1
<1>16. \A i \in 1 .. n : log[i] = IF Kept(nodes[i]) THEN Rewritten(log[i - 1], nodes[i])
                                  ELSE log[i - 1]
  BY <1>6, <1>11
<1> QED BY <1>10, <1>14, <1>15, <1>16

(* What is known once a record of deps and the nodes it needs are there.   *)
LEMMA GotRecorded ==
  ASSUME NEW s \in State, NEW out \in Path, NEW d \in Dep, NEW new,
         new = WithIds(<<out>> \o d.nodes, s.nodes), NEW p
  PROVE  Got(p, new, UpdateDeps(s.deps, IdOf(out, new), d))
           = IF p = out THEN d ELSE Got(p, s.nodes, s.deps)
<1> DEFINE m == s.nodes
           e == s.deps
           D == DepOrNone
<1>1. m \in Seq(Path) /\ e \in Seq(D) /\ IsInjective(m) /\ Len(e) <= Len(m)
  BY StateFacts
<1>2. d.nodes \in Seq(Path) /\ NoDeps \in D /\ d \in D
  BY DEF Dep, DepOrNone
<1>3. new \in Seq(Path) /\ IsInjective(new) /\ Extends(m, new) /\ out \in ToSet(new)
  BY <1>1, <1>2, WithIdsOf
<1> HIDE DEF m, e, D
<1>4. Got(p, new, UpdateDeps(e, IdOf(out, new), d)) = IF p = out THEN d ELSE Got(p, new, e)
  BY <1>1, <1>2, <1>3, GotUpdated
<1>5. Got(p, new, e) = Got(p, m, e)
  BY <1>1, <1>3, GotExtends
<1> QED BY <1>4, <1>5 DEF m, e

(* The log x is one, and has the deps of those of the first i nodes that   *)
(* are kept.                                                               *)
KeptUpTo(x, i) ==
  /\ \E L : Log(x.file, L) /\ Final(L) = [at |-> Len(x.file), nodes |-> x.nodes, deps |-> x.deps]
  /\ \A p : Got(p, x.nodes, x.deps)
              = IF Kept(p) /\ \E j \in 1 .. i : p = nodes[j] THEN GetDeps(p) ELSE NoDeps

LEMMA EmptyLogKept == KeptUpTo(EmptyLog, 0)
<1>1. Holds(Header, 0, Header) /\ Header \in Seq(Wd) /\ Len(Header) = 2
  BY HeaderTyped DEF Holds
<1>2. EmptyLog.file = Header /\ EmptyLog.nodes = << >> /\ EmptyLog.deps = << >>
  BY DEF EmptyLog
<1>3. Log(Header, <<Start>>) /\ Final(<<Start>>) = Start
  BY <1>1, LogStart
<1>4. Final(<<Start>>) = [at |-> Len(EmptyLog.file), nodes |-> EmptyLog.nodes, deps |-> EmptyLog.deps]
  BY <1>1, <1>2, <1>3 DEF Start
<1>5. \A p : Got(p, << >>, << >>) = NoDeps
  <2> SUFFICES ASSUME NEW p PROVE Got(p, << >>, << >>) = NoDeps
    OBVIOUS
  <2>1. 0 .. Len(<< >>) - 1 = {}
    OBVIOUS
  <2> QED BY <2>1 DEF Got
<1>6. 1 .. 0 = {}
  OBVIOUS
<1> QED BY <1>2, <1>3, <1>4, <1>5, <1>6 DEF KeptUpTo

LEMMA KeptOneMore ==
  ASSUME TypeInv, NEW i \in 1 .. Len(nodes), NEW x \in LogRecord, KeptUpTo(x, i - 1)
  PROVE  KeptUpTo(IF Kept(nodes[i]) THEN Rewritten(x, nodes[i]) ELSE x, i)
<1> DEFINE q == nodes[i]
           d == GetDeps(q)
           f == x.file
<1>1. /\ nodes \in Seq(Path) /\ deps \in Seq(DepOrNone) /\ q \in Path
      /\ f \in Seq(Wd)
  BY DEF TypeInv, LogRecord
<1>2. \A p : (\E j \in 1 .. i : p = nodes[j]) <=> p = q \/ \E j \in 1 .. i - 1 : p = nodes[j]
  <2>1. \A j \in 1 .. i : j \in 1 .. i - 1 \/ j = i
    OBVIOUS
  <2>2. \A j \in 1 .. i - 1 : j \in 1 .. i
    OBVIOUS
  <2>3. i \in 1 .. i
    OBVIOUS
  <2> QED BY <2>1, <2>2, <2>3
<1>3. CASE ~ Kept(q)
  BY <1>2, <1>3 DEF KeptUpTo
<1>4. CASE Kept(q)
  <2>1. PICK L : Log(f, L) /\ Final(L) = [at |-> Len(f), nodes |-> x.nodes, deps |-> x.deps]
    BY DEF KeptUpTo
  <2> DEFINE s == Final(L)
             new == WithIds(<<q>> \o d.nodes, x.nodes)
             r == Records(q, d, x.nodes, new)
             u == UpdateDeps(x.deps, IdOf(q, new), d)
             y == [file |-> f \o r, nodes |-> new, deps |-> u]
  <2>2. s.at = Len(f) /\ s.nodes = x.nodes /\ s.deps = x.deps /\ s \in State
    BY <1>1, <2>1, LogFacts
  <2>3. d \in Dep /\ d.nodes \in Seq(Path)
    BY <1>1, <1>4, GotNow, GotTyped DEF Kept, Dep
  <2>4. x.nodes \in Seq(Path) /\ IsInjective(x.nodes)
    BY DEF LogRecord
  <2> HIDE DEF q, d, f, s
  <2>5. /\ new \in Seq(Path) /\ IsInjective(new) /\ Extends(x.nodes, new) /\ q \in ToSet(new)
        /\ ToSet(d.nodes) \subseteq ToSet(new)
    BY <1>1, <2>3, <2>4, WithIdsOf
  <2>6. Rewritten(x, q) = y
    BY DEF Rewritten, f, d
  <2>7. \A p : Got(p, new, u) = IF p = q THEN d ELSE Got(p, x.nodes, x.deps)
    <3>1. new = WithIds(<<q>> \o d.nodes, s.nodes) /\ u = UpdateDeps(s.deps, IdOf(q, new), d)
      BY <2>2
    <3> HIDE DEF new, u
    <3>2. \A p : Got(p, new, UpdateDeps(s.deps, IdOf(q, new), d))
                   = IF p = q THEN d ELSE Got(p, s.nodes, s.deps)
      <4> SUFFICES ASSUME NEW p
                   PROVE  Got(p, new, UpdateDeps(s.deps, IdOf(q, new), d))
                            = IF p = q THEN d ELSE Got(p, s.nodes, s.deps)
        OBVIOUS
      <4>1. s \in State /\ q \in Path /\ d \in Dep /\ new = WithIds(<<q>> \o d.nodes, s.nodes)
        BY <1>1, <2>2, <2>3, <3>1
      <4> QED BY <4>1, GotRecorded
    <3> QED BY <2>2, <3>1, <3>2
  <2> HIDE DEF new
  <2>8. \E N : RecordsLogged(f, L, f \o r, N, q, d, new)
    <3>1. Final(L).at = Len(f) /\ Extends(Final(L).nodes, new)
      BY <2>2, <2>5 DEF s
    <3>2. \E N : RecordsLogged(f, L, f \o Records(q, d, Final(L).nodes, new), N, q, d, new)
      BY <1>1, <2>1, <2>3, <2>5, <3>1, AppendRecords
    <3> QED BY <2>2, <3>2 DEF s
  <2> HIDE DEF r
  <2>9. \E N : Log(y.file, N) /\ Final(N) = [at |-> Len(y.file), nodes |-> y.nodes, deps |-> y.deps]
    <3>1. PICK N : Log(f \o r, N) /\ Final(N) = [at |-> Len(f \o r), nodes |-> new,
                                                 deps |-> UpdateDeps(Final(L).deps, IdOf(q, new), d)]
      BY <2>8 DEF RecordsLogged
    <3>2. Final(N) = [at |-> Len(f \o r), nodes |-> new, deps |-> u]
      BY <2>2, <3>1 DEF s
    <3> QED BY <3>1, <3>2
  <2> HIDE DEF u
  <2>10. \A p : Got(p, y.nodes, y.deps)
                 = IF Kept(p) /\ \E j \in 1 .. i : p = nodes[j] THEN GetDeps(p) ELSE NoDeps
    <3> SUFFICES ASSUME NEW p
                 PROVE  Got(p, new, u) = IF Kept(p) /\ (p = q \/ \E j \in 1 .. i - 1 : p = nodes[j])
                                         THEN GetDeps(p) ELSE NoDeps
      BY <1>2 DEF q
    <3>1. Got(p, x.nodes, x.deps) = IF Kept(p) /\ \E j \in 1 .. i - 1 : p = nodes[j]
                                    THEN GetDeps(p) ELSE NoDeps
      BY DEF KeptUpTo
    <3> QED BY <1>4, <2>7, <3>1 DEF q, d
  <2>11. KeptUpTo(y, i)
    <3> HIDE DEF y
    <3> QED BY <2>9, <2>10 DEF KeptUpTo
  <2> HIDE DEF y
  <2> QED BY <1>4, <2>6, <2>11 DEF q
<1> QED BY <1>3, <1>4

(* The new log is a log, and GetDeps answers from it for the outputs that  *)
(* are kept as it did before.                                              *)
LEMMA NewLogFacts ==
  ASSUME TypeInv
  PROVE  NewLog \in LogRecord /\ KeptUpTo(NewLog, Len(nodes))
<1>1. Len(nodes) \in Nat
  BY DEF TypeInv
<1>2. PICK log : /\ NewLog = log[Len(nodes)] /\ log[0] = EmptyLog
                 /\ \A i \in 0 .. Len(nodes) : log[i] \in LogRecord
                 /\ \A i \in 1 .. Len(nodes) :
                      log[i] = IF Kept(nodes[i]) THEN Rewritten(log[i - 1], nodes[i])
                               ELSE log[i - 1]
  BY NewLogUnfolds
<1> DEFINE n == Len(nodes)
           T == {i \in 0 .. n : KeptUpTo(log[i], i)}
<1>3. 0 \in T
  BY <1>1, <1>2, EmptyLogKept
<1>4. ASSUME NEW i \in 0 .. n - 1, i \in T PROVE i + 1 \in T
  <2>1. i + 1 \in 1 .. n /\ i + 1 \in 0 .. n /\ (i + 1) - 1 = i /\ i \in 0 .. n
    BY <1>1
  <2>2. log[i + 1] = IF Kept(nodes[i + 1]) THEN Rewritten(log[i], nodes[i + 1]) ELSE log[i]
    BY <1>2, <2>1
  <2>3. log[i] \in LogRecord /\ KeptUpTo(log[i], (i + 1) - 1)
    BY <1>2, <1>4, <2>1
  <2>4. KeptUpTo(log[i + 1], i + 1)
    BY <2>1, <2>2, <2>3, KeptOneMore
  <2> QED BY <2>1, <2>4
<1>5. KeptUpTo(log[n], n)
  <2> HIDE DEF T
  <2>1. \A i \in 0 .. n : i \in T
    BY <1>1, <1>3, <1>4, IntervalInduction
  <2>2. n \in T
    BY <1>1, <2>1
  <2> QED BY <2>2 DEF T
<1>6. n \in 0 .. n
  BY <1>1
<1> QED BY <1>2, <1>5, <1>6

---------------------------------------------------------------------------
(* Load reads what was written *)

LEMMA BufferTyped ==
  ASSUME TypeInv, load.at < Len(file)
  PROVE  /\ Word \in Wd /\ Length \in Nat /\ RecordEnd \in Nat /\ load.at < RecordEnd
         /\ Buffer \in Seq(Wd) /\ Len(Buffer) >= Length
         /\ \A i \in 1 .. Length :
              load.at + 1 + i <= Len(file) => Buffer[i] = file[load.at + 1 + i]
         /\ Word.kind \in {"node", "deps"} => Length = Word.value
<1>1. file \in Seq(Wd) /\ load.at \in Nat /\ load.buf \in Seq(Wd) /\ Len(file) \in Nat
      /\ Len(load.buf) \in Nat
  BY DEF TypeInv
<1>2. Word \in Wd
  <2>1. load.at + 1 \in 1 .. Len(file)
    BY <1>1
  <2> QED BY <1>1, <2>1 DEF Word
<1>3. Length \in Nat
  BY <1>2, WordsAreTyped DEF Length, Payload
<1> DEFINE n == Length
           a == load.at
           b == load.buf
           l == IF Len(b) < n THEN n ELSE Len(b)
           word(i) == IF i <= n /\ a + 1 + i <= Len(file) THEN file[a + 1 + i]
                      ELSE IF i <= Len(b) THEN b[i] ELSE Zero
<1>4. Buffer = [i \in 1 .. l |-> word(i)]
  BY DEF Buffer
<1>5. l \in Nat /\ l >= n
  BY <1>1, <1>3
<1>6. RecordEnd \in Nat /\ a < RecordEnd
  BY <1>1, <1>3 DEF RecordEnd
<1>7. Word.kind \in {"node", "deps"} => n = Word.value
  BY DEF Length, Payload
<1> HIDE DEF n, a, b
<1>8. a \in Nat /\ b \in Seq(Wd) /\ n \in Nat /\ Len(b) \in Nat
  BY <1>1, <1>3 DEF n, a, b
<1>9. \A i \in 1 .. l : word(i) \in Wd
  <2> SUFFICES ASSUME NEW i \in 1 .. l PROVE word(i) \in Wd
    OBVIOUS
  <2>1. ASSUME a + 1 + i <= Len(file) PROVE file[a + 1 + i] \in Wd
    <3>1. a + 1 + i \in 1 .. Len(file)
      BY <1>1, <1>8, <2>1
    <3> QED BY <1>1, <3>1
  <2>2. ASSUME i <= Len(b) PROVE b[i] \in Wd
    <3>1. i \in 1 .. Len(b)
      BY <1>8, <2>2
    <3> QED BY <1>8, <3>1
  <2> QED BY <2>1, <2>2, WordsAreTyped
<1>10. Buffer \in Seq(Wd) /\ Len(Buffer) = l
  <2> HIDE DEF l, word
  <2> QED BY <1>4, <1>5, <1>9
<1>11. ASSUME NEW i \in 1 .. n, a + 1 + i <= Len(file) PROVE Buffer[i] = file[a + 1 + i]
  <2>1. i \in 1 .. l /\ i <= n
    BY <1>5, <1>8
  <2>2. Buffer[i] = word(i)
    <3> HIDE DEF word, l
    <3> QED BY <1>4, <2>1
  <2> QED BY <1>11, <2>1, <2>2
<1>12. Len(Buffer) >= n
  BY <1>5, <1>10
<1> HIDE DEF l
<1> QED BY <1>2, <1>3, <1>6, <1>7, <1>10, <1>11, <1>12 DEF n, a

(* A record that is there is in the buffer, behind its size.               *)
LEMMA RecordBuffered ==
  ASSUME TypeInv, NEW r \in Seq(Wd), NEW n \in Nat, Len(r) = n + 1, Holds(file, load.at, r),
         r[1].kind \in {"node", "deps"}, r[1].value = n
  PROVE  /\ load.at < Len(file) /\ Word = r[1] /\ Length = n /\ RecordEnd = load.at + Len(r)
         /\ RecordEnd <= Len(file)
         /\ \A i \in 1 .. n : Buffer[i] = r[i + 1]
         /\ pc = "loading" => Reading
<1>1. load.at \in Nat /\ Len(file) \in Nat /\ file \in Seq(Wd)
  BY DEF TypeInv
<1>2. load.at + (n + 1) <= Len(file) /\ \A i \in 1 .. n + 1 : file[load.at + i] = r[i]
  BY DEF Holds
<1> DEFINE a == load.at
           l == Len(file)
<1>3. a < l /\ a \in Nat /\ l \in Nat /\ a + (n + 1) <= l
  BY <1>1, <1>2
<1> HIDE DEF a, l
<1>4. Word = r[1]
  <2>1. 1 \in 1 .. n + 1
    OBVIOUS
  <2> QED BY <1>2, <2>1 DEF Word
<1>5. Length = n
  BY <1>3, <1>4, BufferTyped DEF a, l
<1>6. RecordEnd = a + Len(r) /\ RecordEnd <= l
  <2>1. RecordEnd = a + 1 + n
    BY <1>5 DEF RecordEnd, a
  <2> QED BY <1>3, <2>1
<1>7. ASSUME NEW i \in 1 .. n PROVE Buffer[i] = r[i + 1]
  <2>1. a + 1 + i <= l /\ a + 1 + i = a + (i + 1) /\ i + 1 \in 1 .. n + 1
    BY <1>3
  <2>2. Buffer[i] = file[a + 1 + i]
    BY <1>3, <1>5, <2>1, BufferTyped DEF a, l
  <2> QED BY <1>2, <2>1, <2>2 DEF a
<1>8. ASSUME pc = "loading" PROVE Reading
  <2>1. ~ TooLarge(Word)
    BY <1>4 DEF TooLarge
  <2>2. n > 0 => a + 1 < l
    BY <1>3
  <2> QED BY <1>3, <1>5, <1>8, <2>1, <2>2 DEF Reading, a, l
<1> QED BY <1>3, <1>4, <1>5, <1>6, <1>7, <1>8 DEF a, l

Loaded(s) == load.at = s.at /\ nodes = s.nodes /\ deps = s.deps

(* One step of Load, and where it gets.                                    *)
LoadStep ==
  LoadNode \/ LoadDeps \/ NegativeId \/ SizeWraps \/ Unreadable \/ Refused \/ LoadEnds

LEMMA LoadsNode ==
  ASSUME TypeInv, pc = "loading", NEW s \in State, NEW t, NodeStep(file, s, t), Loaded(s), LoadStep
  PROVE  Loaded(t)' /\ pc' = "loading" /\ LoadNode
<1>1. PICK p \in Path :
        /\ p \notin ToSet(s.nodes)
        /\ Holds(file, s.at, NodeRecord(p, Len(s.nodes)))
        /\ t = [at |-> s.at + Len(p) + 2, nodes |-> Append(s.nodes, p), deps |-> s.deps]
  BY DEF NodeStep
<1> DEFINE id == Len(s.nodes)
           n == Len(p) + 1
           r == NodeRecord(p, id)
<1>2. load.at = s.at /\ nodes = s.nodes /\ deps = s.deps /\ id \in Nat /\ p \in Seq(Wd)
      /\ Len(p) \in Nat /\ n \in Nat /\ load.at \in Nat /\ nodes \in Seq(Path)
  BY DEF Loaded, TypeInv, Path
<1>3. /\ r \in Seq(Wd) /\ Len(r) = n + 1 /\ r[1] = W("node", n)
      /\ \A i \in 1 .. Len(p) : r[i + 1] = p[i]
      /\ r[n + 1] = W("sum", id)
  <2>1. /\ r \in Seq(Wd) /\ Len(r) = Len(p) + 2 /\ r[1] = W("node", Len(p) + 1)
        /\ \A i \in 1 .. Len(p) : r[i + 1] = p[i]
        /\ r[Len(p) + 2] = W("sum", id)
    BY <1>1, <1>2, NodeRecordTyped
  <2>2. n + 1 = Len(p) + 2
    BY <1>2
  <2> QED BY <2>1, <2>2
<1>4. r[1].kind = "node" /\ r[1].value = n
  BY <1>3 DEF W
<1>5. Holds(file, load.at, r)
  BY <1>1, <1>2
<1> HIDE DEF r, id, n
<1>6. /\ load.at < Len(file) /\ Word = r[1] /\ Length = n /\ RecordEnd = load.at + Len(r)
      /\ \A i \in 1 .. n : Buffer[i] = r[i + 1]
      /\ Reading
  BY <1>2, <1>3, <1>4, <1>5, RecordBuffered
<1>7. Buffer[n] = W("sum", id)
  <2>1. n \in 1 .. n
    BY <1>2 DEF n
  <2> QED BY <1>3, <1>6, <2>1
<1>8. SubSeq(Buffer, 1, n - 1) = p
  <2>1. n - 1 = Len(p) /\ Buffer \in Seq(Wd) /\ Len(Buffer) >= n /\ Len(Buffer) \in Nat
    BY <1>2, <1>6, BufferTyped DEF n
  <2> DEFINE q == SubSeq(Buffer, 1, n - 1)
  <2>2. 1 \in 1 .. Len(Buffer) + 1 /\ n - 1 \in 0 .. Len(Buffer)
    BY <1>2, <2>1 DEF n
  <2>3. q \in Seq(Wd) /\ Len(q) = n - 1 /\ \A i \in 1 .. n - 1 : q[i] = Buffer[i]
    <3>1. /\ SubSeq(Buffer, 1, n - 1) \in Seq(Wd)
          /\ Len(SubSeq(Buffer, 1, n - 1)) = IF 1 <= n - 1 THEN (n - 1) - 1 + 1 ELSE 0
          /\ \A i \in 1 .. (n - 1) - 1 + 1 : SubSeq(Buffer, 1, n - 1)[i] = Buffer[1 + i - 1]
      BY <2>1, <2>2, SubSeqProperties
    <3>2. n - 1 \in Nat /\ (IF 1 <= n - 1 THEN (n - 1) - 1 + 1 ELSE 0) = n - 1
          /\ (n - 1) - 1 + 1 = n - 1
      BY <1>2 DEF n
    <3>3. \A i \in 1 .. n - 1 : 1 + i - 1 = i
      OBVIOUS
    <3> QED BY <3>1, <3>2, <3>3
  <2> HIDE DEF q
  <2>4. \A i \in 1 .. Len(p) : q[i] = p[i]
    <3>1. \A i \in 1 .. Len(p) : i \in 1 .. n
      BY <1>2 DEF n
    <3> QED BY <1>3, <1>6, <2>1, <2>3, <3>1
  <2>5. q = p
    BY <1>2, <2>1, <2>3, <2>4, SeqEqual
  <2> QED BY <2>5 DEF q
<1>9. GoodNode
  <2>1. ~ Contains(nodes, p)
    BY <1>1, <1>2, ContainsInSet
  <2> QED BY <1>2, <1>6, <1>7, <1>8, <2>1 DEF GoodNode, id
<1>10. Word.kind = "node"
  BY <1>4, <1>6
<1>11. LoadNode
  <2>1. ~ LoadDeps /\ ~ NegativeId /\ ~ SizeWraps
    BY <1>10 DEF LoadDeps, NegativeId, SizeWraps
  <2>2. ~ Unreadable
    BY <1>6 DEF Unreadable
  <2>3. ~ Refused
    BY <1>9, <1>10 DEF Refused
  <2>4. ~ LoadEnds
    BY <1>6, BufferTyped DEF LoadEnds, TypeInv
  <2> QED BY <2>1, <2>2, <2>3, <2>4 DEF LoadStep
<1>12. nodes' = Append(nodes, p) /\ load'.at = RecordEnd /\ deps' = deps /\ pc' = "loading"
  <2>1. load' = [load EXCEPT !.at = RecordEnd, !.buf = Buffer]
        /\ nodes' = Append(nodes, SubSeq(Buffer, 1, Length - 1)) /\ deps' = deps /\ pc' = pc
    BY <1>11 DEF LoadNode
  <2>2. load'.at = RecordEnd
    BY <2>1 DEF TypeInv
  <2> QED BY <1>6, <1>8, <2>1, <2>2
<1>13. RecordEnd = t.at
  <2>1. t.at = s.at + Len(p) + 2
    BY <1>1
  <2> QED BY <1>2, <1>3, <1>6, <2>1 DEF n
<1>14. t.nodes = Append(s.nodes, p) /\ t.deps = s.deps
  BY <1>1
<1> QED BY <1>2, <1>11, <1>12, <1>13, <1>14 DEF Loaded

LEMMA IdsAreIds == \A v \in Nat : AsId(W("id", v)) = v
BY DEF AsId, W

LEMMA LoadsDeps ==
  ASSUME TypeInv, pc = "loading", NEW s \in State, NEW t, DepsStep(file, s, t), Loaded(s), LoadStep
  PROVE  Loaded(t)' /\ pc' = "loading" /\ LoadDeps
<1>1. PICK out \in ToSet(s.nodes), d \in Dep :
        /\ ToSet(d.nodes) \subseteq ToSet(s.nodes)
        /\ Holds(file, s.at, DepsRecord(out, d, s.nodes))
        /\ t = [at |-> s.at + Len(d.nodes) + 4, nodes |-> s.nodes,
                deps |-> UpdateDeps(s.deps, IdOf(out, s.nodes), d)]
  BY DEF DepsStep
<1> DEFINE k == Len(d.nodes)
           n == k + 3
           r == DepsRecord(out, d, nodes)
<1>2. load.at = s.at /\ nodes = s.nodes /\ deps = s.deps /\ load.at \in Nat /\ nodes \in Seq(Path)
  BY DEF Loaded, TypeInv
<1>3. /\ r \in Seq(Wd) /\ Len(r) = k + 4 /\ k \in Nat
      /\ r[1] = W("deps", 3 + k) /\ r[2] = W("id", IdOf(out, nodes))
      /\ r[3] = d.mtime[1] /\ r[4] = d.mtime[2]
      /\ \A i \in 1 .. k : r[i + 4] = W("id", IdOf(d.nodes[i], nodes))
  <2>1. out \in ToSet(nodes) /\ ToSet(d.nodes) \subseteq ToSet(nodes)
    BY <1>1, <1>2
  <2> QED BY <1>1, <1>2, <2>1, DepsRecordTyped
<1>4. r[1].kind = "deps" /\ r[1].value = n
  BY <1>3 DEF W
<1>5. Holds(file, load.at, r)
  BY <1>1, <1>2
<1>6. n \in Nat /\ Len(r) = n + 1
  BY <1>3
<1> HIDE DEF r
<1>7. /\ load.at < Len(file) /\ Word = r[1] /\ Length = n /\ RecordEnd = load.at + Len(r)
      /\ \A i \in 1 .. n : Buffer[i] = r[i + 1]
      /\ Reading
  <2> HIDE DEF n
  <2> QED BY <1>3, <1>4, <1>5, <1>6, RecordBuffered
<1>8. /\ Buffer[1] = W("id", IdOf(out, nodes)) /\ Buffer[2] = d.mtime[1] /\ Buffer[3] = d.mtime[2]
  <2>1. 1 \in 1 .. n /\ 2 \in 1 .. n /\ 3 \in 1 .. n /\ 1 + 1 = 2 /\ 2 + 1 = 3 /\ 3 + 1 = 4
    BY <1>3
  <2> HIDE DEF n
  <2> QED BY <1>3, <1>7, <2>1
<1>9. \A i \in 1 .. k : Buffer[i + 3] = W("id", IdOf(d.nodes[i], nodes))
  <2> SUFFICES ASSUME NEW i \in 1 .. k PROVE Buffer[i + 3] = W("id", IdOf(d.nodes[i], nodes))
    OBVIOUS
  <2>1. i + 3 \in 1 .. n /\ (i + 3) + 1 = i + 4
    BY <1>3
  <2> HIDE DEF n
  <2> QED BY <1>3, <1>7, <2>1
<1>10. IdOf(out, nodes) \in Nat /\ AsId(Buffer[1]) = IdOf(out, nodes)
  <2>1. IdOf(out, nodes) \in Nat
    BY <1>1, <1>2, IdOfFacts
  <2> QED BY <1>8, <2>1, IdsAreIds
<1>11. ASSUME NEW i \in 1 .. k
       PROVE  AsId(Buffer[i + 3]) \in 0 .. Len(nodes) - 1 /\ nodes[AsId(Buffer[i + 3]) + 1] = d.nodes[i]
  <2>1. d.nodes[i] \in ToSet(nodes)
    <3>1. d.nodes \in Seq(Path)
      BY DEF Dep
    <3>2. d.nodes[i] \in ToSet(d.nodes)
      BY <3>1 DEF ToSet
    <3> QED BY <1>1, <1>2, <3>2
  <2>2. IdOf(d.nodes[i], nodes) \in 0 .. Len(nodes) - 1 /\ nodes[IdOf(d.nodes[i], nodes) + 1] = d.nodes[i]
    BY <1>2, <2>1, IdOfFacts
  <2>3. AsId(Buffer[i + 3]) = IdOf(d.nodes[i], nodes)
    BY <1>9, <2>2, IdsAreIds
  <2> QED BY <2>2, <2>3
<1>12. ValidUpTo(Length)
  <2> SUFFICES ASSUME NEW j \in 4 .. n PROVE AsId(Buffer[j]) \in 0 .. Len(nodes) - 1
    BY <1>7 DEF ValidUpTo
  <2>1. j - 3 \in 1 .. k /\ (j - 3) + 3 = j
    BY <1>3
  <2> QED BY <1>11, <2>1
<1>13. Word.kind = "deps"
  BY <1>4, <1>7
<1>14. LoadDeps
  <2>1. ~ LoadNode /\ ~ SizeWraps
    BY <1>13 DEF LoadNode, SizeWraps
  <2>2. ~ Unreadable
    BY <1>7 DEF Unreadable
  <2>3. \A i \in 4 .. Length : AsId(Buffer[i]) \in 0 .. Len(nodes) - 1
    BY <1>12 DEF ValidUpTo
  <2>4. Len(nodes) \in Nat
    BY <1>2
  <2>5. ~ Refused
    BY <1>13, <2>3, <2>4 DEF Refused
  <2>6. ~ NegativeId
    BY <1>10, <2>3, <2>4 DEF NegativeId
  <2>7. ~ LoadEnds
    BY <1>7, BufferTyped DEF LoadEnds, TypeInv
  <2> QED BY <2>1, <2>2, <2>5, <2>6, <2>7 DEF LoadStep
<1> DEFINE e == [mtime |-> <<Buffer[2], Buffer[3]>>,
                 nodes |-> [i \in 1 .. Length - 3 |-> nodes[AsId(Buffer[i + 3]) + 1]]]
<1>15. e = d
  <2>1. Length - 3 = k
    BY <1>3, <1>7
  <2>2. d.nodes \in Seq(Path) /\ d.mtime \in Wd \X Wd /\ d = [mtime |-> d.mtime, nodes |-> d.nodes]
    BY DEF Dep
  <2>3. [i \in 1 .. k |-> nodes[AsId(Buffer[i + 3]) + 1]] = d.nodes
    <3>1. [i \in 1 .. k |-> nodes[AsId(Buffer[i + 3]) + 1]] = [i \in 1 .. k |-> d.nodes[i]]
      BY <1>11
    <3>2. d.nodes = [i \in 1 .. k |-> d.nodes[i]]
      BY <2>2
    <3> QED BY <3>1, <3>2
  <2>4. d.mtime = <<d.mtime[1], d.mtime[2]>>
    BY <2>2
  <2> QED BY <1>8, <2>1, <2>2, <2>3, <2>4
<1>16. deps' = UpdateDeps(deps, AsId(Buffer[1]), e) /\ load'.at = RecordEnd
       /\ nodes' = nodes /\ pc' = pc
  BY <1>14 DEF LoadDeps
<1>17. RecordEnd = t.at
  <2> DEFINE a == s.at
             l == Len(r)
  <2>1. t.at = a + k + 4
    BY <1>1
  <2>2. RecordEnd = a + l /\ l = k + 4 /\ k \in Nat /\ a \in Nat
    BY <1>2, <1>3, <1>7
  <2> HIDE DEF a, l, k
  <2>3. a + l = a + k + 4
    BY <2>2
  <2> QED BY <2>1, <2>2, <2>3
<1>18. t.nodes = s.nodes /\ t.deps = UpdateDeps(s.deps, IdOf(out, s.nodes), d)
  BY <1>1
<1> HIDE DEF e
<1> QED BY <1>2, <1>10, <1>14, <1>15, <1>16, <1>17, <1>18 DEF Loaded

LEMMA LoadsRecord ==
  ASSUME TypeInv, pc = "loading", NEW s \in State, NEW t, RecordStep(file, s, t), Loaded(s), LoadStep
  PROVE  Loaded(t)' /\ pc' = "loading" /\ (LoadNode \/ LoadDeps)
BY LoadsNode, LoadsDeps DEF RecordStep

---------------------------------------------------------------------------
(* Types *)

LEMMA InitTyped == Init => TypeInv
<1> SUFFICES ASSUME Init PROVE TypeInv
  OBVIOUS
<1>1. << >> \in Seq(Wd) /\ << >> \in Seq(Path) /\ << >> \in Seq(DepOrNone) /\ << >> \in Path
      /\ IsInjective(<< >>)
  BY DEF Path, IsInjective
<1>2. load \in [at : Nat, buf : Seq(Wd), total : Nat, unique : Nat]
  BY <1>1 DEF Init, NoLoad
<1>3. stored \in [Output -> DepOrNone] /\ call \in [out : Path, deps : DepOrNone]
  BY <1>1 DEF Init, NoCall, DepOrNone
<1>4. pc = "closed" /\ pc \in PcValues
  BY DEF Init, PcValues
<1> QED BY <1>1, <1>2, <1>3, <1>4 DEF Init, TypeInv

(* What RecordDeps is called with.                                         *)
DepOf(m, list) == [mtime |-> <<W("mtime", m), W("mtime", 0)>>,
                   nodes |-> [i \in 1 .. Len(list) |-> PathOf[list[i]]]]

LEMMA DepOfTyped ==
  ASSUME NEW m \in Mtimes, NEW list \in DepLists
  PROVE  /\ DepOf(m, list) \in Dep
         /\ DepOf(m, list).mtime[1].kind = "mtime" /\ DepOf(m, list).mtime[2].kind = "mtime"
         /\ DepOf(m, list).nodes \in Seq(Seq(PathWord))
<1>1. list \in Seq(Node) /\ m \in Nat
  BY DepsLogConstants
<1>2. W("mtime", m) \in Wd /\ W("mtime", 0) \in Wd
      /\ W("mtime", m).kind = "mtime" /\ W("mtime", 0).kind = "mtime"
  BY <1>1, WordFacts DEF Kinds
<1> DEFINE n == Len(list)
           p(i) == PathOf[list[i]]
<1>3. n \in Nat /\ \A i \in 1 .. n : p(i) \in Path /\ p(i) \in Seq(PathWord)
  <2>1. \A i \in 1 .. n : list[i] \in Node
    BY <1>1
  <2> QED BY <1>1, <2>1, PathsTyped
<1> HIDE DEF p, n
<1>4. [i \in 1 .. n |-> p(i)] \in Seq(Path) /\ [i \in 1 .. n |-> p(i)] \in Seq(Seq(PathWord))
  BY <1>3
<1>5. DepOf(m, list) = [mtime |-> <<W("mtime", m), W("mtime", 0)>>, nodes |-> [i \in 1 .. n |-> p(i)]]
  BY DEF DepOf, p, n
<1> QED BY <1>2, <1>4, <1>5 DEF Dep

(* RecordDeps, with names for what it writes.                              *)
NewNodes(o, m, list) == WithIds(<<PathOf[o]>> \o DepOf(m, list).nodes, nodes)

LEMMA RecordDepsUnfolds ==
  ASSUME NEW o, NEW m, NEW list
  PROVE  RecordDeps(o, m, list) <=>
           /\ pc = "open" /\ Len(file) <= MaxWords
           /\ IF IsKnown(PathOf[o], DepOf(m, list), NewNodes(o, m, list))
              THEN stored' = [stored EXCEPT ![o] = DepOf(m, list)] /\ UNCHANGED <<call, todo, pc>>
              ELSE /\ call' = [out |-> PathOf[o], deps |-> DepOf(m, list)]
                   /\ todo' = (IF file = << >> THEN Header ELSE << >>)
                              \o Records(PathOf[o], DepOf(m, list), nodes, NewNodes(o, m, list))
                   /\ pc' = "writing" /\ UNCHANGED stored
           /\ UNCHANGED <<file, nodes, deps, load, torn, intact, mended>>
BY DEF RecordDeps, NewNodes, DepOf

LEMMA RecordsTyped ==
  ASSUME NEW old \in Seq(Path), NEW new \in Seq(Path), NEW out \in ToSet(new), NEW d \in Dep,
         ToSet(d.nodes) \subseteq ToSet(new)
  PROVE  Records(out, d, old, new) \in Seq(Wd) /\ Records(out, d, old, new) # << >>
<1>1. PICK ids : /\ Records(out, d, old, new) = ids[Len(new)] \o DepsRecord(out, d, new)
                 /\ Layout(ids, old, new)
  BY RecordsUnfold
<1>2. ids[Len(new)] \in Seq(Wd)
  <2>1. Len(new) \in 0 .. Len(new)
    OBVIOUS
  <2> QED BY <1>1, <2>1 DEF Layout
<1> DEFINE a == ids[Len(new)]
           r == DepsRecord(out, d, new)
<1>3. r \in Seq(Wd) /\ Len(r) = Len(d.nodes) + 4 /\ Len(d.nodes) \in Nat
  BY DepsRecordTyped
<1> HIDE DEF a, r
<1>4. a \o r \in Seq(Wd) /\ Len(a \o r) = Len(a) + Len(r)
  BY <1>2, <1>3, ConcatProperties DEF a
<1>5. a \o r # << >>
  <2>1. Len(a) \in Nat /\ Len(r) \in Nat /\ Len(r) > 0
    <3>1. Len(r) > 0
      BY <1>3
    <3> QED BY <1>2, <1>3, <3>1 DEF a
  <2>2. Len(a \o r) > 0
    BY <1>4, <2>1
  <2> QED BY <2>2
<1> QED BY <1>1, <1>4, <1>5 DEF a, r

LEMMA RecordDepsTyped ==
  ASSUME TypeInv, NEW o \in Output, NEW m \in Mtimes, NEW list \in DepLists, RecordDeps(o, m, list)
  PROVE  TypeInv'
<1> DEFINE out == PathOf[o]
           d == DepOf(m, list)
           new == NewNodes(o, m, list)
           r == Records(out, d, nodes, new)
           h == IF file = << >> THEN Header ELSE << >>
<1>1. d \in Dep /\ out \in Path /\ d.nodes \in Seq(Path) /\ d \in DepOrNone
  BY DepOfTyped, PathsTyped, DepsLogConstants DEF Dep, DepOrNone
<1>2. new \in Seq(Path) /\ out \in ToSet(new) /\ ToSet(d.nodes) \subseteq ToSet(new)
  <2> HIDE DEF d, out
  <2>1. nodes \in Seq(Path) /\ IsInjective(nodes)
    BY DEF TypeInv
  <2> QED BY <1>1, <2>1, WithIdsOf DEF NewNodes, d, out
<1> HIDE DEF out, d, new
<1>3. r \in Seq(Wd) /\ r # << >>
  <2>1. nodes \in Seq(Path)
    BY DEF TypeInv
  <2> QED BY <1>1, <1>2, <2>1, RecordsTyped
<1>4. h \in Seq(Wd)
  BY HeaderTyped
<1> HIDE DEF r, h
<1>5. h \o r \in Seq(Wd) /\ h \o r # << >>
  <2>1. h \o r \in Seq(Wd) /\ Len(h \o r) = Len(h) + Len(r)
    BY <1>3, <1>4, ConcatProperties
  <2>2. Len(h) \in Nat /\ Len(r) \in Nat /\ Len(r) > 0
    BY <1>3, <1>4
  <2>3. Len(h \o r) > 0
    BY <2>1, <2>2
  <2> QED BY <2>1, <2>3
<1>6. /\ pc = "open"
      /\ \/ stored' = [stored EXCEPT ![o] = d] /\ UNCHANGED <<call, todo, pc>>
         \/ call' = [out |-> out, deps |-> d] /\ todo' = h \o r /\ pc' = "writing" /\ UNCHANGED stored
      /\ UNCHANGED <<file, nodes, deps, load, torn, intact, mended>>
  BY RecordDepsUnfolds DEF out, d, new, r, h
<1>7. CASE stored' = [stored EXCEPT ![o] = d] /\ UNCHANGED <<call, todo, pc>>
  <2>1. stored' \in [Output -> DepOrNone]
    BY <1>1, <1>7 DEF TypeInv
  <2> QED BY <1>6, <1>7, <2>1 DEF TypeInv
<1>8. CASE call' = [out |-> out, deps |-> d] /\ todo' = h \o r /\ pc' = "writing" /\ UNCHANGED stored
  <2>1. call' \in [out : Path, deps : DepOrNone] /\ call'.deps \in Dep /\ call'.out = PathOf[o]
    BY <1>1, <1>8 DEF out
  <2>2. todo' \in Seq(Wd) /\ todo' # << >> /\ pc' \in PcValues
    BY <1>5, <1>8 DEF PcValues
  <2> QED BY <1>6, <1>8, <2>1, <2>2 DEF TypeInv
<1> QED BY <1>6, <1>7, <1>8

LEMMA UpdatedIsTyped ==
  ASSUME NEW old \in Seq(DepOrNone), NEW id \in Nat, NEW d \in Dep
  PROVE  UpdateDeps(old, id, d) \in Seq(DepOrNone)
<1>1. NoDeps \in DepOrNone /\ d \in DepOrNone
  BY DEF DepOrNone
<1> DEFINE D == DepOrNone
<1>2. NoDeps \in D /\ d \in D /\ old \in Seq(D)
  BY <1>1
<1> HIDE DEF D
<1>3. UpdateDeps(old, id, d) \in Seq(D)
  BY <1>2, UpdateTyped
<1> QED BY <1>3 DEF D

LEMMA LoadNodeTyped ==
  ASSUME TypeInv, LoadNode
  PROVE  TypeInv'
<1>1. load.at < Len(file) /\ pc = "loading"
  BY DEF LoadNode, Reading
<1>2. Word \in Wd /\ Length \in Nat /\ RecordEnd \in Nat /\ Buffer \in Seq(Wd) /\ Len(Buffer) >= Length
      /\ Length >= 1
  <2>1. Word.kind = "node"
    BY DEF LoadNode
  <2> QED BY <1>1, <2>1, BufferTyped, WordsAreTyped
<1> DEFINE p == SubSeq(Buffer, 1, Length - 1)
<1>3. p \in Path
  <2>1. Len(Buffer) \in Nat
    BY <1>2
  <2>2. \A i \in 1 .. Length - 1 : Buffer[i] \in Wd
    <3>1. \A i \in 1 .. Length - 1 : i \in 1 .. Len(Buffer)
      BY <1>2, <2>1
    <3> QED BY <1>2, <3>1
  <2>3. p \in Seq(Wd)
    BY <1>2, <2>1, <2>2, SubSeqProperties
  <2> QED BY <2>3 DEF Path
<1> HIDE DEF p
<1>4. /\ nodes' = Append(nodes, p) /\ p \notin ToSet(nodes)
      /\ load' = [load EXCEPT !.at = RecordEnd, !.buf = Buffer]
      /\ UNCHANGED <<file, deps, todo, call, pc, history>>
  <2>1. nodes \in Seq(Path)
    BY DEF TypeInv
  <2> QED BY <2>1, ContainsInSet DEF LoadNode, GoodNode, p
<1>5. nodes' \in Seq(Path) /\ IsInjective(nodes')
  <2>1. nodes \in Seq(Path) /\ IsInjective(nodes)
    BY DEF TypeInv
  <2> QED BY <1>3, <1>4, <2>1, AppendProperties, DistinctAppend
<1>6. load' \in [at : Nat, buf : Seq(Wd), total : Nat, unique : Nat]
  BY <1>2, <1>4 DEF TypeInv
<1> QED BY <1>1, <1>4, <1>5, <1>6 DEF TypeInv, history

LEMMA LoadDepsTyped ==
  ASSUME TypeInv, LoadDeps
  PROVE  TypeInv'
<1>1. load.at < Len(file) /\ pc = "loading" /\ Word.kind = "deps" /\ ValidUpTo(Length)
      /\ AsId(Buffer[1]) >= 0
  BY DEF LoadDeps, Reading
<1>2. Word \in Wd /\ Length \in Nat /\ RecordEnd \in Nat /\ Buffer \in Seq(Wd) /\ Len(Buffer) >= Length
      /\ Length >= 3
  BY <1>1, BufferTyped, WordsAreTyped
<1> DEFINE n == Length - 3
           node(i) == nodes[AsId(Buffer[i + 3]) + 1]
           d == [mtime |-> <<Buffer[2], Buffer[3]>>, nodes |-> [i \in 1 .. n |-> node(i)]]
           out == AsId(Buffer[1])
           new == out >= Len(deps) \/ deps[out + 1] = NoDeps
<1>3. n \in Nat /\ nodes \in Seq(Path) /\ Len(nodes) \in Nat /\ deps \in Seq(DepOrNone)
  BY <1>2 DEF TypeInv
<1>4. Buffer[1] \in Wd /\ Buffer[2] \in Wd /\ Buffer[3] \in Wd
  <2>1. 1 \in 1 .. Len(Buffer) /\ 2 \in 1 .. Len(Buffer) /\ 3 \in 1 .. Len(Buffer)
    BY <1>2
  <2> QED BY <1>2, <2>1
<1>5. \A i \in 1 .. n : node(i) \in Path
  <2> SUFFICES ASSUME NEW i \in 1 .. n PROVE node(i) \in Path
    OBVIOUS
  <2>1. i + 3 \in 4 .. Length
    BY <1>2
  <2>2. AsId(Buffer[i + 3]) \in 0 .. Len(nodes) - 1
    BY <1>1, <2>1 DEF ValidUpTo
  <2>3. AsId(Buffer[i + 3]) + 1 \in 1 .. Len(nodes)
    BY <1>3, <2>2
  <2> QED BY <1>3, <2>3
<1>6. out \in Nat
  <2>1. MaxWords \in Nat
    BY DepsLogConstants
  <2>2. out \in Int
    BY <1>4, <2>1, WordsAreTyped DEF AsId
  <2> HIDE DEF out
  <2> QED BY <1>1, <2>2 DEF out
<1> HIDE DEF n, node
<1>7. d \in Dep
  <2>1. [i \in 1 .. n |-> node(i)] \in Seq(Path)
    BY <1>3, <1>5
  <2> QED BY <1>4, <2>1 DEF Dep
<1>8. /\ deps' = UpdateDeps(deps, out, d)
      /\ load' = [at |-> RecordEnd, buf |-> Buffer, total |-> load.total + 1,
                  unique |-> load.unique + IF new THEN 1 ELSE 0]
      /\ UNCHANGED <<file, nodes, todo, call, pc, history>>
  BY DEF LoadDeps, n, node
<1> HIDE DEF out, d, new
<1>9. deps' \in Seq(DepOrNone)
  BY <1>3, <1>6, <1>7, <1>8, UpdatedIsTyped
<1>10. load' \in [at : Nat, buf : Seq(Wd), total : Nat, unique : Nat]
  <2>1. load.total + 1 \in Nat /\ load.unique + (IF new THEN 1 ELSE 0) \in Nat
    BY DEF TypeInv
  <2> QED BY <1>2, <1>8, <2>1
<1> QED BY <1>1, <1>8, <1>9, <1>10 DEF TypeInv, history

LEMMA RecoverTyped ==
  ASSUME TypeInv, Recover
  PROVE  TypeInv'
<1> DEFINE word(i) == IF i <= Len(file) THEN file[i] ELSE Zero
<1>1. load.at \in Nat /\ file \in Seq(Wd) /\ Len(file) \in Nat
  BY DEF TypeInv
<1>2. \A i \in 1 .. load.at : word(i) \in Wd
  BY <1>1, WordsAreTyped
<1> HIDE DEF word
<1>3. [i \in 1 .. load.at |-> word(i)] \in Seq(Wd)
  BY <1>1, <1>2
<1>4. file' \in Seq(Wd)
  BY <1>3 DEF Recover, word
<1>5. NoLoad \in [at : Nat, buf : Seq(Wd), total : Nat, unique : Nat]
  BY DEF NoLoad
<1>6. pc = "recovering" /\ pc' = "open" /\ load' = NoLoad /\ mended' = TRUE
      /\ UNCHANGED <<nodes, deps, todo, call, stored, torn, intact>>
  BY DEF Recover
<1>7. pc' \in PcValues
  BY <1>6 DEF PcValues
<1> QED BY <1>4, <1>5, <1>6, <1>7 DEF TypeInv

LEMMA RecompactTyped ==
  ASSUME TypeInv, Recompact
  PROVE  TypeInv'
<1>1. NewLog \in LogRecord
  BY NewLogFacts
<1>2. /\ file' = NewLog.file /\ nodes' = NewLog.nodes /\ deps' = NewLog.deps
      /\ stored' = [o \in Output |-> IF o \notin Live THEN NoDeps
                                     ELSE IF torn THEN GetDeps(PathOf[o]) ELSE stored[o]]
      /\ torn' = FALSE /\ intact' = 0 /\ mended' = FALSE
      /\ pc = "recompact" /\ pc' = "open" /\ UNCHANGED <<load, todo, call>>
  BY DEF Recompact
<1>3. file' \in Seq(Wd) /\ nodes' \in Seq(Path) /\ deps' \in Seq(DepOrNone) /\ IsInjective(nodes')
  BY <1>1, <1>2 DEF LogRecord
<1>4. stored' \in [Output -> DepOrNone]
  <2>1. \A p : GetDeps(p) \in DepOrNone
    BY GotNow, GotTyped DEF TypeInv
  <2>2. \A o \in Output : stored[o] \in DepOrNone /\ NoDeps \in DepOrNone
    BY DEF TypeInv, DepOrNone
  <2> QED BY <1>2, <2>1, <2>2
<1>5. pc' \in PcValues /\ pc' = "open"
  BY <1>2 DEF PcValues
<1> QED BY <1>2, <1>3, <1>4, <1>5 DEF TypeInv

LEMMA WriteTyped ==
  ASSUME TypeInv, Write
  PROVE  TypeInv'
<1>1. todo \in Seq(Wd) /\ todo # << >> /\ pc = "writing" /\ call.deps \in Dep /\ call.out \in Path
      /\ file \in Seq(Wd)
  BY DEF TypeInv, Write
<1>2. Head(todo) \in Wd /\ Tail(todo) \in Seq(Wd) /\ Len(Tail(todo)) = Len(todo) - 1
      /\ Len(todo) \in Nat /\ Len(todo) >= 1
  BY <1>1, HeadTailProperties
<1>3. file' \in Seq(Wd) /\ todo' = Tail(todo) /\ mended' = FALSE /\ UNCHANGED <<load, torn, intact>>
  BY <1>1, <1>2, AppendProperties DEF Write
<1>4. CASE Len(todo) > 1
  <2>1. UNCHANGED <<nodes, deps, call, pc, stored>>
    BY <1>4 DEF Write
  <2>2. Tail(todo) # << >>
    <3> DEFINE t == Tail(todo)
    <3>1. Len(t) # 0
      BY <1>2, <1>4
    <3> HIDE DEF t
    <3>2. t # << >>
      BY <3>1
    <3> QED BY <3>2 DEF t
  <2> QED BY <1>1, <1>2, <1>3, <2>1, <2>2 DEF TypeInv
<1>5. CASE ~(Len(todo) > 1)
  <2> DEFINE new == WithIds(<<call.out>> \o call.deps.nodes, nodes)
  <2>1. /\ nodes' = new /\ deps' = UpdateDeps(deps, IdOf(call.out, new), call.deps)
        /\ stored' = [o \in Output |-> IF PathOf[o] = call.out THEN call.deps ELSE stored[o]]
        /\ call' = NoCall /\ pc' = "open"
    BY <1>5 DEF Write
  <2>2. new \in Seq(Path) /\ IsInjective(new) /\ call.out \in ToSet(new)
    <3> DEFINE list == call.deps.nodes
               out == call.out
    <3>1. list \in Seq(Path) /\ out \in Path /\ nodes \in Seq(Path) /\ IsInjective(nodes)
      BY <1>1 DEF Dep, TypeInv
    <3> HIDE DEF list, out
    <3>2. LET m == WithIds(<<out>> \o list, nodes)
          IN  m \in Seq(Path) /\ IsInjective(m) /\ out \in ToSet(m)
      BY <3>1, WithIdsOf
    <3> QED BY <3>2 DEF list, out
  <2>3. IdOf(call.out, new) \in Nat
    BY <2>2, IdOfFacts
  <2> HIDE DEF new
  <2>4. deps' \in Seq(DepOrNone)
    BY <1>1, <2>1, <2>3, UpdatedIsTyped DEF TypeInv
  <2>5. stored' \in [Output -> DepOrNone]
    BY <1>1, <2>1 DEF TypeInv, DepOrNone
  <2>6. call' \in [out : Path, deps : DepOrNone]
    BY <2>1 DEF NoCall, DepOrNone, Path
  <2>7. Tail(todo) = << >>
    BY <1>2, <1>5
  <2>8. pc' \in PcValues
    BY <2>1 DEF PcValues
  <2> QED BY <1>2, <1>3, <2>1, <2>2, <2>4, <2>5, <2>6, <2>7, <2>8 DEF TypeInv
<1> QED BY <1>4, <1>5

LEMMA SessionTyped ==
  ASSUME TypeInv, BeginLoad \/ LoadEnds \/ EndSession \/ Unreadable \/ Refused \/ NegativeId \/ SizeWraps
  PROVE  TypeInv'
<1>1. CASE BeginLoad
  <2>1. << >> \in Seq(Wd) /\ NoLoad \in [at : Nat, buf : Seq(Wd), total : Nat, unique : Nat]
        /\ [NoLoad EXCEPT !.at = 2] \in [at : Nat, buf : Seq(Wd), total : Nat, unique : Nat]
    <3>1. << >> \in Seq(Wd) /\ 0 \in Nat /\ 2 \in Nat
      OBVIOUS
    <3>2. [NoLoad EXCEPT !.at = 2] = [at |-> 2, buf |-> << >>, total |-> 0, unique |-> 0]
      BY DEF NoLoad
    <3> QED BY <3>1, <3>2 DEF NoLoad
  <2>2. pc' \in {"loading", "open"} /\ pc' \in PcValues /\ pc = "closed"
    BY <1>1 DEF BeginLoad, PcValues
  <2> QED BY <1>1, <2>1, <2>2 DEF TypeInv, BeginLoad, history
<1>2. CASE LoadEnds
  <2>1. NoLoad \in [at : Nat, buf : Seq(Wd), total : Nat, unique : Nat]
    BY DEF NoLoad
  <2>2. pc' \in {"recompact", "open"} /\ pc' \in PcValues /\ pc = "loading"
    BY <1>2 DEF LoadEnds, PcValues
  <2> QED BY <1>2, <2>1, <2>2 DEF TypeInv, LoadEnds, history
<1>3. CASE EndSession
  <2>1. NoLoad \in [at : Nat, buf : Seq(Wd), total : Nat, unique : Nat]
        /\ NoCall \in [out : Path, deps : DepOrNone] /\ << >> \in Seq(Wd) /\ << >> \in Seq(Path)
        /\ << >> \in Seq(DepOrNone) /\ IsInjective(<< >>)
    BY DEF NoLoad, NoCall, Path, DepOrNone, IsInjective
  <2>2. pc' = "closed" /\ pc' \in PcValues
    BY <1>3 DEF EndSession, PcValues
  <2>3. torn' \in BOOLEAN
    BY <1>3 DEF EndSession, TypeInv
  <2> QED BY <1>3, <2>1, <2>2, <2>3 DEF TypeInv, EndSession
<1>4. CASE Unreadable
  <2>1. pc = "loading" /\ pc' = "recovering" /\ pc' \in PcValues
    BY <1>4 DEF Unreadable, PcValues
  <2> QED BY <1>4, <2>1 DEF TypeInv, Unreadable, history
<1>5. CASE Refused
  <2>1. pc = "loading" /\ pc' = "recovering" /\ pc' \in PcValues /\ load.at < Len(file)
    BY <1>5 DEF Refused, Reading, PcValues
  <2>2. RecordEnd \in Nat
    BY <2>1, BufferTyped
  <2> QED BY <1>5, <2>1, <2>2 DEF TypeInv, Refused, history
<1>6. CASE NegativeId \/ SizeWraps
  <2>1. pc = "loading" /\ pc' = "panic" /\ pc' \in PcValues
        /\ UNCHANGED <<file, nodes, deps, load, todo, call, history>>
    BY <1>6 DEF NegativeId, SizeWraps, Reading, PcValues
  <2> QED BY <2>1 DEF TypeInv, history
<1> QED BY <1>1, <1>2, <1>3, <1>4, <1>5, <1>6

---------------------------------------------------------------------------
(* The invariant *)

(* What the sessions have recorded is what Load knows in the state s.      *)
KnownBy(s) == \A o \in Output : stored[o] = Got(PathOf[o], s.nodes, s.deps)

(* Behind s there is a size word at most.                                  *)
Cut(s) == Len(file) <= s.at + 1 /\ (Len(file) = s.at + 1 => IsSize(file[s.at + 1]))

Logged(L) == Log(file, L) /\ Cut(Final(L)) /\ KnownBy(Final(L))

(* The file when all that is to be written is written; L[k] is the state   *)
(* in front of the records that are being written.                         *)
Whole == file \o todo
Written(L, k) ==
  /\ Log(Whole, L) /\ k \in 1 .. Len(L) - 1
  /\ L[k].nodes = nodes /\ L[k].deps = deps /\ KnownBy(L[k])
  /\ k = 1 \/ L[k].at <= Len(file)
  /\ Quiet(L, k, Len(L) - 1) /\ PlainFrom(Whole, L, k)
  /\ LET new == WithIds(<<call.out>> \o call.deps.nodes, nodes)
     IN  Final(L) = [at |-> Len(Whole), nodes |-> new,
                     deps |-> UpdateDeps(deps, IdOf(call.out, new), call.deps)]

SoundClosed == pc = "closed" => (Len(file) < 2 /\ KnownBy(Start)) \/ \E L : Logged(L)
SoundLoading == pc = "loading" => \E L : Logged(L) /\ \E i \in 1 .. Len(L) : Loaded(L[i])
SoundRecovering ==
  pc = "recovering" => \E L : Log(file, L) /\ KnownBy(Final(L)) /\ Loaded(Final(L))
SoundOpen ==
  pc \in {"open", "recompact"} =>
    \/ file = << >> /\ nodes = << >> /\ deps = << >> /\ KnownBy(Start)
    \/ \E L : /\ Log(file, L) /\ KnownBy(Final(L))
              /\ Final(L) = [at |-> Len(file), nodes |-> nodes, deps |-> deps]
SoundWriting == pc = "writing" => \E L, k : Written(L, k)

(* No session died inside the payload of a record.                         *)
Sound ==
  /\ SoundClosed /\ SoundLoading /\ SoundRecovering /\ SoundOpen /\ SoundWriting
  /\ pc # "panic" /\ intact = 0

(* One did: the file has the records that were complete before, and Load   *)
(* does not stop in front of the torn one.                                 *)
Torn ==
  \E L : /\ Log(file, L) /\ Final(L).at = intact
         /\ pc = "loading" => load.at >= intact \/ \E i \in 1 .. Len(L) : Loaded(L[i])
         /\ pc = "recovering" => load.at >= intact

Inv == TypeInv /\ (~torn => Sound) /\ (torn => Torn)

LEMMA StartKnowsNothing == \A p : Got(p, << >>, << >>) = NoDeps
<1> SUFFICES ASSUME NEW p PROVE Got(p, << >>, << >>) = NoDeps
  OBVIOUS
<1>1. 0 .. Len(<< >>) - 1 = {}
  OBVIOUS
<1> QED BY <1>1 DEF Got

LEMMA InitSound == Init => Inv
<1> SUFFICES ASSUME Init PROVE Inv
  OBVIOUS
<1>1. TypeInv
  BY InitTyped
<1>2. KnownBy(Start)
  BY StartKnowsNothing DEF Init, KnownBy, Start
<1>3. pc = "closed" /\ Len(file) < 2 /\ ~torn /\ intact = 0
  BY DEF Init
<1>4. Sound
  BY <1>2, <1>3 DEF Sound, SoundClosed, SoundLoading, SoundRecovering, SoundOpen, SoundWriting
<1> QED BY <1>1, <1>3, <1>4 DEF Inv

LEMMA HeaderFirst ==
  ASSUME NEW f \in Seq(Wd)
  PROVE  IsPrefix(Header, f) <=> Holds(f, 0, Header)
<1>1. Header \in Seq(Wd) /\ Len(Header) = 2 /\ Len(f) \in Nat
  BY HeaderTyped
<1> DEFINE h == Header
<1> HIDE DEF h
<1>2. h \in Seq(Wd) /\ Len(h) = 2
  BY <1>1 DEF h
<1>3. \A i \in 1 .. 2 : 0 + i = i
  OBVIOUS
<1>4. Holds(f, 0, h) <=> 2 <= Len(f) /\ \A i \in 1 .. 2 : f[i] = h[i]
  BY <1>1, <1>2, <1>3 DEF Holds
<1>5. IsPrefix(h, f) <=> 2 <= Len(f) /\ \A i \in 1 .. 2 : h[i] = f[i]
  BY <1>1, <1>2 DEF IsPrefix
<1> QED BY <1>4, <1>5 DEF h

LEMMA BeginLoadSound ==
  ASSUME Inv, BeginLoad
  PROVE  (~torn => Sound)' /\ (torn => Torn)'
<1>1. /\ TypeInv /\ pc = "closed" /\ nodes = << >> /\ deps = << >> /\ file \in Seq(Wd)
      /\ UNCHANGED <<nodes, deps, todo, call, stored, torn, intact, mended>>
  BY DEF Inv, TypeInv, BeginLoad, history
<1>2. CASE IsPrefix(Header, file)
  <2>1. pc' = "loading" /\ load'.at = 2 /\ file' = file
    BY <1>2 DEF BeginLoad, NoLoad
  <2>2. Len(file) >= 2
    BY <1>1, <1>2, HeaderFirst, HeaderTyped DEF Holds
  <2>3. ASSUME NEW L, Log(file, L) PROVE 1 \in 1 .. Len(L) /\ Loaded(L[1])'
    <3>1. L[1] = Start /\ 1 \in 1 .. Len(L)
      BY <1>1, <2>3, LogFacts
    <3> QED BY <1>1, <2>1, <3>1 DEF Loaded, Start
  <2>4. CASE ~torn
    <3>1. PICK L : Logged(L)
      BY <1>1, <2>2, <2>4 DEF Inv, Sound, SoundClosed
    <3>2. Logged(L)' /\ \E i \in 1 .. Len(L) : Loaded(L[i])'
      BY <1>1, <2>1, <2>3, <3>1 DEF Logged, Cut, KnownBy
    <3>3. intact' = 0
      BY <1>1, <2>4 DEF Inv, Sound
    <3> QED BY <1>1, <2>1, <2>4, <3>2, <3>3
          DEF Sound, SoundClosed, SoundLoading, SoundRecovering, SoundOpen, SoundWriting
  <2>5. CASE torn
    <3>1. PICK L : Log(file, L) /\ Final(L).at = intact
      BY <2>5 DEF Inv, Torn
    <3> QED BY <1>1, <2>1, <2>3, <2>5, <3>1 DEF Torn
  <2> QED BY <2>4, <2>5
<1>3. CASE ~ IsPrefix(Header, file)
  <2>1. pc' = "open" /\ file' = << >>
    BY <1>3 DEF BeginLoad
  <2>2. \A L : ~ Log(file, L)
    BY <1>1, <1>3, HeaderFirst DEF Log
  <2>3. ~torn
    BY <2>2 DEF Inv, Torn
  <2>4. KnownBy(Start) /\ intact = 0
    BY <1>1, <2>2, <2>3 DEF Inv, Sound, SoundClosed, Logged
  <2>5. KnownBy(Start)' /\ intact' = 0 /\ ~torn'
    BY <1>1, <2>3, <2>4 DEF KnownBy, Start
  <2> QED BY <1>1, <2>1, <2>5
        DEF Sound, SoundClosed, SoundLoading, SoundRecovering, SoundOpen, SoundWriting
<1> QED BY <1>2, <1>3

LEMMA LoadAdvances ==
  ASSUME TypeInv, LoadStep
  PROVE  /\ pc = "loading" /\ pc' \in {"loading", "recovering", "panic", "recompact", "open"}
         /\ UNCHANGED <<file, todo, call, stored, torn, intact, mended>>
         /\ pc' \in {"loading", "recovering"} => load'.at >= load.at /\ load'.at \in Nat
<1>1. load.at \in Nat /\ load \in [at : Nat, buf : Seq(Wd), total : Nat, unique : Nat]
  BY DEF TypeInv
<1>2. CASE LoadNode \/ LoadDeps \/ Refused
  <2>1. load.at < Len(file)
    BY <1>2 DEF LoadNode, LoadDeps, Refused, Reading
  <2>2. RecordEnd \in Nat /\ load.at < RecordEnd
    BY <2>1, BufferTyped
  <2> DEFINE e == RecordEnd
  <2>3. load'.at = e
    <3> HIDE DEF e
    <3>1. CASE LoadNode
      <4>1. load' = [load EXCEPT !.at = e, !.buf = Buffer]
        BY <3>1 DEF LoadNode, e
      <4> QED BY <1>1, <4>1
    <3>2. CASE LoadDeps
      <4>1. load' = [at |-> e, buf |-> Buffer, total |-> load'.total, unique |-> load'.unique]
        BY <3>2 DEF LoadDeps, e
      <4> QED BY <4>1
    <3>3. CASE Refused
      <4>1. load' = [load EXCEPT !.at = e]
        BY <3>3 DEF Refused, e
      <4> QED BY <1>1, <4>1
    <3> QED BY <1>2, <3>1, <3>2, <3>3
  <2> QED BY <1>1, <1>2, <2>2, <2>3 DEF LoadNode, LoadDeps, Refused, Reading, history
<1>3. CASE NegativeId \/ SizeWraps \/ Unreadable
  BY <1>1, <1>3 DEF NegativeId, SizeWraps, Unreadable, Reading, history
<1>4. CASE LoadEnds
  BY <1>4 DEF LoadEnds, history
<1> QED BY <1>2, <1>3, <1>4 DEF LoadStep

(* Load goes from one state of the log to the next.                        *)
LEMMA LoadFollows ==
  ASSUME TypeInv, LoadStep, NEW L, Log(file, L), NEW i \in 1 .. Len(L), i # Len(L), Loaded(L[i])
  PROVE  i + 1 \in 1 .. Len(L) /\ Loaded(L[i + 1])' /\ pc' = "loading"
<1>1. file \in Seq(Wd) /\ pc = "loading"
  BY LoadAdvances DEF TypeInv
<1>2. i \in 1 .. Len(L) - 1 /\ i + 1 \in 1 .. Len(L) /\ L[i] \in State
  BY <1>1, LogFacts
<1>3. RecordStep(file, L[i], L[i + 1])
  BY <1>2 DEF Log
<1> QED BY <1>1, <1>2, <1>3, LoadsRecord

LEMMA LoadSound ==
  ASSUME Inv, LoadStep, ~torn
  PROVE  Sound' /\ ~torn'
<1>1. /\ TypeInv /\ pc = "loading" /\ file \in Seq(Wd) /\ Len(file) \in Nat
      /\ UNCHANGED <<file, todo, call, stored, torn, intact, mended>>
  BY LoadAdvances DEF Inv, TypeInv
<1>2. PICK L : Logged(L) /\ \E i \in 1 .. Len(L) : Loaded(L[i])
  BY <1>1 DEF Inv, Sound, SoundLoading
<1>3. Log(file, L) /\ Cut(Final(L)) /\ KnownBy(Final(L))
  BY <1>2 DEF Logged
<1>4. Logged(L)' /\ Log(file', L) /\ KnownBy(Final(L))'
  BY <1>1, <1>3 DEF Logged, Cut, KnownBy
<1>5. intact' = 0
  BY <1>1 DEF Inv, Sound
<1>6. PICK i \in 1 .. Len(L) : Loaded(L[i])
  BY <1>2
<1>7. CASE i # Len(L)
  <2>1. pc' = "loading" /\ i + 1 \in 1 .. Len(L) /\ Loaded(L[i + 1])'
    BY <1>1, <1>3, <1>6, <1>7, LoadFollows
  <2>2. SoundLoading'
    BY <1>4, <2>1 DEF SoundLoading
  <2> QED BY <1>1, <1>5, <2>1, <2>2
          DEF Sound, SoundClosed, SoundRecovering, SoundOpen, SoundWriting
<1>8. CASE i = Len(L)
  <2> DEFINE s == Final(L)
  <2>1. load.at = s.at /\ nodes = s.nodes /\ deps = s.deps /\ s \in State /\ s.at \in Nat /\ s.at <= Len(file)
    BY <1>1, <1>3, <1>6, <1>8, LogFacts DEF Loaded, Final
  <2> HIDE DEF s
  <2>2. CASE Len(file) = s.at
    <3>1. LoadEnds
      BY <1>1, <2>1, <2>2 DEF LoadStep, LoadNode, LoadDeps, NegativeId, SizeWraps, Unreadable,
                              Refused, Reading
    <3>2. pc' \in {"recompact", "open"} /\ UNCHANGED <<nodes, deps>>
      BY <3>1 DEF LoadEnds
    <3>3. s = [at |-> Len(file'), nodes |-> nodes', deps |-> deps']
      BY <1>1, <2>1, <2>2, <3>2, StateFacts
    <3>4. SoundOpen'
      BY <1>4, <3>3 DEF SoundOpen, s
    <3> QED BY <1>1, <1>5, <3>2, <3>4
            DEF Sound, SoundClosed, SoundRecovering, SoundLoading, SoundWriting
  <2>3. CASE Len(file) # s.at
    <3>1. Len(file) = load.at + 1 /\ IsSize(Word)
      BY <1>1, <1>3, <2>1, <2>3 DEF Cut, s, Word
    <3>2. Length > 0
      <4>1. load.at < Len(file)
        BY <1>1, <2>1, <3>1
      <4> QED BY <1>1, <3>1, <4>1, BufferTyped, WordsAreTyped DEF IsSize
    <3>3. ~ Reading
      BY <1>1, <2>1, <3>1, <3>2 DEF Reading
    <3>4. Unreadable
      BY <1>1, <2>1, <3>1, <3>3 DEF LoadStep, LoadNode, LoadDeps, NegativeId, SizeWraps, Refused,
                                    LoadEnds
    <3>5. pc' = "recovering" /\ UNCHANGED <<nodes, deps, load>>
      BY <3>4 DEF Unreadable
    <3>6. SoundRecovering'
      BY <1>4, <2>1, <3>5 DEF SoundRecovering, Loaded, s
    <3> QED BY <1>1, <1>5, <3>5, <3>6
            DEF Sound, SoundClosed, SoundOpen, SoundLoading, SoundWriting
  <2> QED BY <2>2, <2>3
<1> QED BY <1>1, <1>7, <1>8

LEMMA LoadTorn ==
  ASSUME Inv, LoadStep, torn
  PROVE  Torn' /\ torn'
<1>1. /\ TypeInv /\ pc = "loading" /\ file \in Seq(Wd) /\ load.at \in Nat
      /\ UNCHANGED <<file, todo, call, stored, torn, intact, mended>>
  BY LoadAdvances DEF Inv, TypeInv
<1>2. PICK L : Log(file, L) /\ Final(L).at = intact
               /\ (load.at >= intact \/ \E i \in 1 .. Len(L) : Loaded(L[i]))
  BY <1>1 DEF Inv, Torn
<1>3. intact \in Nat
  BY <1>1, <1>2, LogFacts, StateFacts
<1>4. CASE load.at >= intact
  <2>1. pc' \in {"loading", "recovering"} => load'.at >= intact
    BY <1>1, <1>3, <1>4, LoadAdvances
  <2> QED BY <1>1, <1>2, <2>1 DEF Torn
<1>5. CASE ~(load.at >= intact)
  <2>1. PICK i \in 1 .. Len(L) : Loaded(L[i])
    BY <1>2, <1>5
  <2>2. i # Len(L)
    BY <1>1, <1>2, <1>3, <1>5, <2>1 DEF Loaded, Final
  <2>3. pc' = "loading" /\ i + 1 \in 1 .. Len(L) /\ Loaded(L[i + 1])'
    BY <1>1, <1>2, <2>1, <2>2, LoadFollows
  <2> QED BY <1>1, <1>2, <2>3 DEF Torn
<1> QED BY <1>4, <1>5

LEMMA RecoverSound ==
  ASSUME Inv, Recover
  PROVE  (~torn => Sound)' /\ (torn => Torn)'
<1> DEFINE n == load.at
           l == Len(file)
<1>1. /\ TypeInv /\ pc = "recovering" /\ pc' = "open" /\ file \in Seq(Wd) /\ n \in Nat /\ l \in Nat
      /\ file' = [i \in 1 .. n |-> IF i <= l THEN file[i] ELSE Zero]
      /\ UNCHANGED <<nodes, deps, todo, call, stored, torn, intact>>
  BY DEF Inv, TypeInv, Recover
<1>2. file' \in Seq(Wd)
  BY <1>1, RecoverTyped DEF TypeInv
<1> HIDE DEF n, l
<1>3. Len(file') = n /\ \A i \in 1 .. n : i <= l => file'[i] = file[i]
  <2>1. DOMAIN file' = 1 .. n /\ DOMAIN file' = 1 .. Len(file')
    BY <1>1, <1>2
  <2>2. Len(file') = n
    BY <1>1, <1>2, <2>1
  <2> QED BY <1>1, <2>2
<1>4. ASSUME NEW L, Log(file, L), Final(L).at <= n
      PROVE  Log(file', SubSeq(L, 1, Len(L))) /\ Final(SubSeq(L, 1, Len(L))) = Final(L)
  <2> DEFINE a == Final(L).at
  <2>1. a \in Nat /\ a <= l /\ Len(L) \in 1 .. Len(L)
    <3>1. Len(L) \in 1 .. Len(L)
      BY <1>1, <1>4, LogFacts
    <3> QED BY <1>1, <1>4, <3>1, LogFacts DEF Final, l
  <2>2. Agree(file, file', a)
    <3>1. a <= Len(file') /\ a <= Len(file)
      BY <1>3, <1>4, <2>1 DEF l
    <3>2. \A i \in 1 .. a : i \in 1 .. n /\ i <= l
      BY <1>1, <1>4, <2>1
    <3> HIDE DEF a
    <3> QED BY <1>3, <3>1, <3>2 DEF Agree
  <2> DEFINE g == file'
             k == Len(L)
  <2>3. g \in Seq(Wd) /\ k \in 1 .. Len(L) /\ Agree(file, g, L[k].at) /\ L[k] = Final(L)
    BY <1>2, <2>1, <2>2 DEF Final
  <2> HIDE DEF g, k
  <2>4. Log(g, SubSeq(L, 1, k)) /\ Final(SubSeq(L, 1, k)) = L[k]
    BY <1>1, <1>4, <2>3, LogSame
  <2> QED BY <2>3, <2>4 DEF g, k
<1>5. CASE ~torn
  <2>1. PICK L : Log(file, L) /\ KnownBy(Final(L)) /\ Loaded(Final(L))
    BY <1>1, <1>5 DEF Inv, Sound, SoundRecovering
  <2> DEFINE s == Final(L)
             M == SubSeq(L, 1, Len(L))
  <2>2. s \in State /\ s.at = n /\ s.nodes = nodes /\ s.deps = deps
    BY <1>1, <2>1, LogFacts DEF Loaded, n
  <2>3. Log(file', M) /\ Final(M) = s
    BY <1>1, <1>4, <2>1, <2>2
  <2> HIDE DEF s, M
  <2>4. s = [at |-> Len(file'), nodes |-> nodes', deps |-> deps']
    BY <1>1, <1>3, <2>2, StateFacts
  <2>5. KnownBy(s)'
    BY <1>1, <2>1 DEF KnownBy, s
  <2>6. SoundOpen'
    BY <2>3, <2>4, <2>5 DEF SoundOpen
  <2>7. intact' = 0
    BY <1>1, <1>5 DEF Inv, Sound
  <2> QED BY <1>1, <1>5, <2>6, <2>7
          DEF Sound, SoundClosed, SoundRecovering, SoundLoading, SoundWriting
<1>6. CASE torn
  <2>1. PICK L : Log(file, L) /\ Final(L).at = intact /\ n >= intact
    BY <1>1, <1>6 DEF Inv, Torn, n
  <2>2. intact \in Nat
    BY <1>1, <2>1, LogFacts, StateFacts
  <2>3. Final(L).at <= n
    BY <1>1, <2>1, <2>2
  <2>4. \E M : Log(file', M) /\ Final(M).at = intact'
    BY <1>1, <1>4, <2>1, <2>3
  <2> QED BY <1>1, <1>6, <2>4 DEF Torn
<1> QED BY <1>5, <1>6

(* An open session knows what was recorded, and its log ends with that.    *)
LEMMA OpenKnows ==
  ASSUME TypeInv, SoundOpen, pc \in {"open", "recompact"}
  PROVE  /\ \A o \in Output : stored[o] = Got(PathOf[o], nodes, deps)
         /\ Len(deps) <= Len(nodes)
         /\ file = << >> => nodes = << >> /\ deps = << >>
         /\ file # << >> =>
              \E L : Log(file, L) /\ Final(L) = [at |-> Len(file), nodes |-> nodes, deps |-> deps]
<1>1. CASE file = << >> /\ nodes = << >> /\ deps = << >> /\ KnownBy(Start)
  BY <1>1 DEF KnownBy, Start
<1>2. CASE \E L : /\ Log(file, L) /\ KnownBy(Final(L))
                  /\ Final(L) = [at |-> Len(file), nodes |-> nodes, deps |-> deps]
  <2>1. PICK L : /\ Log(file, L) /\ KnownBy(Final(L))
                 /\ Final(L) = [at |-> Len(file), nodes |-> nodes, deps |-> deps]
    BY <1>2
  <2> DEFINE s == Final(L)
  <2>2. s \in State /\ file \in Seq(Wd) /\ s.nodes = nodes /\ s.deps = deps /\ Len(file) >= 2
    <3>1. file \in Seq(Wd)
      BY DEF TypeInv
    <3>2. s \in State /\ Len(L) \in 1 .. Len(L)
      BY <2>1, <3>1, LogFacts
    <3>3. L[Len(L)].at >= 2
      BY <2>1, <3>1, <3>2, LogFacts
    <3> QED BY <2>1, <3>1, <3>2, <3>3 DEF Final
  <2>3. Len(s.deps) <= Len(s.nodes)
    BY <2>2, StateFacts
  <2>4. \A o \in Output : stored[o] = Got(PathOf[o], s.nodes, s.deps)
    BY <2>1 DEF KnownBy
  <2>5. file # << >>
    BY <2>2
  <2> QED BY <2>1, <2>2, <2>3, <2>4, <2>5
<1> QED BY <1>1, <1>2 DEF SoundOpen

(* The nodes that get an id for a record are those of outputs or deps.     *)
LEMMA NewNodesPlain ==
  ASSUME NEW out \in Seq(PathWord), NEW list \in Seq(Path), list \in Seq(Seq(PathWord)),
         NEW known \in Seq(Path), IsInjective(known), out \in Path, NEW new,
         new = WithIds(<<out>> \o list, known), NEW q \in Len(known) + 1 .. Len(new)
  PROVE  new[q] \in Seq(PathWord)
<1>1. /\ new \in Seq(Path) /\ IsInjective(new) /\ Extends(known, new)
      /\ ToSet(new) = ToSet(known) \cup {out} \cup ToSet(list)
  BY WithIdsOf
<1>2. Len(known) \in Nat /\ Len(new) \in Nat /\ DOMAIN new = 1 .. Len(new) /\ q \in 1 .. Len(new)
  BY <1>1
<1>3. new[q] \in ToSet(new)
  BY <1>2 DEF ToSet
<1>4. ToSet(list) \subseteq Seq(PathWord)
  BY DEF ToSet
<1> DEFINE n == Len(known)
<1>5. n \in Nat /\ DOMAIN known = 1 .. n
  OBVIOUS
<1>6. \A i \in 1 .. n : new[i] = known[i] /\ i \in 1 .. Len(new) /\ i # q
  <2>1. \A i \in 1 .. n : new[i] = known[i] /\ n <= Len(new)
    BY <1>1 DEF Extends
  <2>2. q \in n + 1 .. Len(new)
    OBVIOUS
  <2> HIDE DEF n
  <2> QED BY <1>2, <1>5, <2>1, <2>2
<1>7. \A i \in 1 .. n : known[i] # new[q]
  BY <1>1, <1>2, <1>6 DEF IsInjective
<1>8. new[q] \notin ToSet(known)
  <2> DEFINE x == new[q]
  <2> HIDE DEF x, n
  <2>1. \A i \in DOMAIN known : known[i] # x
    BY <1>5, <1>7 DEF x
  <2> QED BY <2>1 DEF ToSet, x
<1> QED BY <1>1, <1>3, <1>4, <1>8

(* The records that RecordDeps writes behind the log f.                    *)
LEMMA RecordsBegun ==
  ASSUME TypeInv, NEW f \in Seq(Wd), NEW L, Log(f, L),
         Final(L) = [at |-> Len(f), nodes |-> nodes, deps |-> deps],
         NEW o \in Output, NEW m \in Mtimes, NEW list \in DepLists
  PROVE  LET out == PathOf[o]
             d == DepOf(m, list)
             new == NewNodes(o, m, list)
             g == f \o Records(out, d, nodes, new)
         IN \E N : RecordsLogged(f, L, g, N, out, d, new) /\ PlainFrom(g, N, Len(L))
<1> DEFINE out == PathOf[o]
           d == DepOf(m, list)
           new == NewNodes(o, m, list)
           g == f \o Records(out, d, nodes, new)
<1>1. d \in Dep /\ out \in Path /\ d.nodes \in Seq(Path) /\ d.nodes \in Seq(Seq(PathWord))
      /\ out \in Seq(PathWord) /\ d.mtime[1].kind = "mtime" /\ d.mtime[2].kind = "mtime"
  BY DepOfTyped, PathsTyped, DepsLogConstants DEF Dep
<1>2. nodes \in Seq(Path) /\ IsInjective(nodes)
  BY DEF TypeInv
<1> HIDE DEF d, out
<1>3. new = WithIds(<<out>> \o d.nodes, nodes)
  BY DEF NewNodes, d, out
<1> HIDE DEF new
<1>4. /\ new \in Seq(Path) /\ IsInjective(new) /\ Extends(nodes, new)
      /\ out \in ToSet(new) /\ ToSet(d.nodes) \subseteq ToSet(new)
  BY <1>1, <1>2, <1>3, WithIdsOf
<1>5. \A q \in Len(nodes) + 1 .. Len(new) : new[q] \in Seq(PathWord)
  BY <1>1, <1>2, <1>3, NewNodesPlain
<1>6. Final(L).at = Len(f) /\ Final(L).nodes = nodes
  OBVIOUS
<1>7. PICK N : RecordsLogged(f, L, f \o Records(out, d, Final(L).nodes, new), N, out, d, new)
  BY <1>1, <1>4, <1>6, AppendRecords
<1>8. RecordsLogged(f, L, g, N, out, d, new)
  BY <1>6, <1>7
<1> HIDE DEF g
<1>9. PlainFrom(g, N, Len(L))
  BY <1>1, <1>5, <1>6, <1>8 DEF RecordsLogged
<1>10. \E M : RecordsLogged(f, L, g, M, out, d, new) /\ PlainFrom(g, M, Len(L))
  BY <1>8, <1>9
<1> QED BY <1>10 DEF g, out, d, new

LEMMA RecordDepsSound ==
  ASSUME Inv, NEW o \in Output, NEW m \in Mtimes, NEW list \in DepLists, RecordDeps(o, m, list)
  PROVE  (~torn => Sound)' /\ (torn => Torn)'
<1> DEFINE out == PathOf[o]
           d == DepOf(m, list)
           new == NewNodes(o, m, list)
           r == Records(out, d, nodes, new)
           h == IF file = << >> THEN Header ELSE << >>
           f == file \o h
<1>1. /\ TypeInv /\ TypeInv' /\ pc = "open" /\ UNCHANGED <<file, nodes, deps, load, torn, intact, mended>>
      /\ file \in Seq(Wd) /\ nodes \in Seq(Path) /\ deps \in Seq(DepOrNone)
      /\ \/ IsKnown(out, d, new) /\ stored' = [stored EXCEPT ![o] = d] /\ UNCHANGED <<call, todo, pc>>
         \/ call' = [out |-> out, deps |-> d] /\ todo' = h \o r /\ pc' = "writing" /\ UNCHANGED stored
  <2>1. TypeInv /\ TypeInv'
    BY RecordDepsTyped DEF Inv
  <2> QED BY <2>1, RecordDepsUnfolds DEF TypeInv
<1>2. CASE torn
  <2>1. PICK L : Log(file, L) /\ Final(L).at = intact
    BY <1>2 DEF Inv, Torn
  <2>2. pc' \in {"open", "writing"}
    BY <1>1
  <2> QED BY <1>1, <1>2, <2>1, <2>2 DEF Torn
<1>3. CASE ~torn
  <2>1. SoundOpen /\ intact = 0
    BY <1>3 DEF Inv, Sound
  <2>2. CASE IsKnown(out, d, new) /\ stored' = [stored EXCEPT ![o] = d] /\ UNCHANGED <<call, todo, pc>>
    <3>1. Got(out, nodes, deps) = d
      BY <2>2, GotNow DEF IsKnown
    <3>2. \A p \in Output : stored'[p] = Got(PathOf[p], nodes, deps)
      <4>1. \A p \in Output : stored[p] = Got(PathOf[p], nodes, deps)
        BY <1>1, <2>1, OpenKnows
      <4>2. \A p \in Output : stored'[p] = IF p = o THEN d ELSE stored[p]
        BY <1>1, <2>2 DEF TypeInv
      <4> HIDE DEF d
      <4> QED BY <3>1, <4>1, <4>2
    <3> HIDE DEF d, new, out
    <3>3. SoundOpen'
      <4>1. CASE file = << >>
        <5>1. nodes = << >> /\ deps = << >>
          BY <1>1, <2>1, <4>1, OpenKnows
        <5>2. KnownBy(Start)'
          BY <1>1, <3>2, <5>1 DEF KnownBy, Start
        <5> QED BY <1>1, <4>1, <5>1, <5>2 DEF SoundOpen
      <4>2. CASE file # << >>
        <5>1. PICK L : Log(file, L) /\ Final(L) = [at |-> Len(file), nodes |-> nodes, deps |-> deps]
          BY <1>1, <2>1, <4>2, OpenKnows
        <5>2. KnownBy(Final(L))'
          BY <1>1, <3>2, <5>1 DEF KnownBy
        <5> QED BY <1>1, <5>1, <5>2 DEF SoundOpen
      <4> QED BY <4>1, <4>2
    <3> QED BY <1>1, <2>1, <2>2, <3>3, <1>3
          DEF Sound, SoundClosed, SoundLoading, SoundRecovering, SoundWriting
  <2>3. CASE call' = [out |-> out, deps |-> d] /\ todo' = h \o r /\ pc' = "writing" /\ UNCHANGED stored
    <3>1. h \in Seq(Wd) /\ r \in Seq(Wd)
      <4>1. h \in Seq(Wd)
        BY HeaderTyped
      <4>2. d \in Dep /\ d.nodes \in Seq(Path) /\ out \in Path
        BY DepOfTyped, PathsTyped, DepsLogConstants DEF Dep
      <4> HIDE DEF d, out
      <4>3. IsInjective(nodes) /\ new = WithIds(<<out>> \o d.nodes, nodes)
        BY <1>1 DEF TypeInv, NewNodes, d, out
      <4> HIDE DEF new
      <4>4. new \in Seq(Path) /\ out \in ToSet(new) /\ ToSet(d.nodes) \subseteq ToSet(new)
        BY <1>1, <4>2, <4>3, WithIdsOf
      <4> HIDE DEF h
      <4> QED BY <1>1, <4>1, <4>2, <4>4, RecordsTyped
    <3>2. f \in Seq(Wd) /\ f \o r = file \o todo'
      <4> HIDE DEF h, r
      <4> QED BY <1>1, <2>3, <3>1, ConcatProperties, ConcatAssociative
    <3>3. \E L : /\ Log(f, L) /\ Final(L) = [at |-> Len(f), nodes |-> nodes, deps |-> deps]
                 /\ Len(L) = 1 \/ Len(f) <= Len(file)
      <4>1. CASE file = << >>
        <5>1. nodes = << >> /\ deps = << >>
          BY <1>1, <2>1, <4>1, OpenKnows
        <5>2. f = Header
          BY <4>1, HeaderTyped, ConcatEmptySeq
        <5>3. Holds(Header, 0, Header) /\ Header \in Seq(Wd) /\ Len(Header) = 2
          BY HeaderTyped DEF Holds
        <5> HIDE DEF f
        <5> QED BY <5>1, <5>2, <5>3, LogStart DEF Start
      <4>2. CASE file # << >>
        <5>1. f = file
          BY <1>1, <4>2, ConcatEmptySeq
        <5>2. Len(file) <= Len(file)
          BY <1>1
        <5> HIDE DEF f
        <5> QED BY <1>1, <2>1, <4>2, <5>1, <5>2, OpenKnows
      <4> QED BY <4>1, <4>2
    <3> HIDE DEF f, h
    <3>4. PICK L : /\ Log(f, L) /\ Final(L) = [at |-> Len(f), nodes |-> nodes, deps |-> deps]
                   /\ Len(L) = 1 \/ Len(f) <= Len(file)
      BY <3>3
    <3>5. PICK N : RecordsLogged(f, L, f \o r, N, out, d, new) /\ PlainFrom(f \o r, N, Len(L))
      BY <1>1, <3>2, <3>4, RecordsBegun
    <3> DEFINE k == Len(L)
               w == f \o r
    <3>6. /\ Log(w, N) /\ Len(N) > k /\ N[k] = Final(L) /\ Quiet(N, k, Len(N) - 1)
          /\ PlainFrom(w, N, k)
          /\ Final(N) = [at |-> Len(w), nodes |-> new,
                         deps |-> UpdateDeps(Final(L).deps, IdOf(out, new), d)]
      BY <3>5 DEF RecordsLogged
    <3>7. \A p \in Output : stored[p] = Got(PathOf[p], nodes, deps)
      BY <1>1, <2>1, OpenKnows
    <3> HIDE DEF w
    <3>8. Whole' = w
      BY <1>1, <3>2 DEF Whole, w
    <3>9. k \in 1 .. Len(N) - 1
      <4>1. k \in Nat /\ k >= 1
        BY <3>2, <3>4, LogFacts
      <4>2. Len(N) \in Nat
        <5>1. N \in Seq(State)
          BY <3>6 DEF Log
        <5> QED BY <5>1
      <4> QED BY <3>6, <4>1, <4>2
    <3>10. N[k].at = Len(f) /\ N[k].nodes = nodes /\ N[k].deps = deps
      BY <3>4, <3>6
    <3>11. new = WithIds(<<call'.out>> \o call'.deps.nodes, nodes) /\ call'.out = out /\ call'.deps = d
      <4>1. call'.out = out /\ call'.deps = d
        BY <2>3
      <4> QED BY <4>1 DEF NewNodes
    <3> HIDE DEF d, new, out, r
    <3>12. Final(N) = [at |-> Len(w), nodes |-> new, deps |-> UpdateDeps(deps, IdOf(out, new), d)]
      BY <3>4, <3>6
    <3>13. KnownBy(N[k])'
      BY <1>1, <2>3, <3>7, <3>10 DEF KnownBy
    <3>14. k = 1 \/ N[k].at <= Len(file)
      BY <3>4, <3>10
    <3> HIDE DEF k
    <3>15. Written(N, k)'
      BY <1>1, <3>6, <3>8, <3>9, <3>10, <3>11, <3>12, <3>13, <3>14 DEF Written
    <3>16. SoundWriting'
      BY <3>15 DEF SoundWriting
    <3> QED BY <1>1, <1>3, <2>1, <2>3, <3>16
          DEF Sound, SoundClosed, SoundLoading, SoundRecovering, SoundOpen
  <2> QED BY <1>1, <2>2, <2>3
<1> QED BY <1>2, <1>3

(* A log is one in every file that agrees with it up to its end.           *)
LEMMA LogKept ==
  ASSUME NEW f \in Seq(Wd), NEW g \in Seq(Wd), NEW L, Log(f, L), Agree(f, g, Final(L).at)
  PROVE  \E M : Log(g, M) /\ Final(M) = Final(L)
<1> DEFINE k == Len(L)
<1>1. k \in 1 .. Len(L) /\ Agree(f, g, L[k].at) /\ L[k] = Final(L)
  BY LogFacts DEF Final
<1> HIDE DEF k
<1>2. Log(g, SubSeq(L, 1, k)) /\ Final(SubSeq(L, 1, k)) = L[k]
  BY <1>1, LogSame
<1> QED BY <1>1, <1>2

(* A word goes from what is to be written to the file.                     *)
LEMMA WordWritten ==
  ASSUME NEW f \in Seq(Wd), NEW t \in Seq(Wd), t # << >>
  PROVE  LET g == Append(f, Head(t)) IN
         /\ g \in Seq(Wd) /\ Len(g) = Len(f) + 1 /\ Agree(f, g, Len(f))
         /\ g \o Tail(t) = f \o t
         /\ Tail(t) = << >> => g = f \o t
<1> DEFINE x == Head(t)
           u == Tail(t)
           g == Append(f, x)
<1>1. x \in Wd /\ u \in Seq(Wd) /\ Len(u) = Len(t) - 1 /\ \A i \in 1 .. Len(u) : u[i] = t[i + 1]
  BY HeadTailProperties
<1>2. x = t[1] /\ Len(t) \in Nat /\ Len(f) \in Nat /\ Len(u) \in Nat /\ Len(t) >= 1
  BY <1>1, EmptySeq
<1> HIDE DEF x, u
<1>3. g \in Seq(Wd) /\ Len(g) = Len(f) + 1
      /\ \A i \in 1 .. Len(f) + 1 : g[i] = IF i <= Len(f) THEN f[i] ELSE x
  BY <1>1, <1>2, AppendProperties
<1> HIDE DEF g
<1>4. Agree(f, g, Len(f))
  BY <1>2, <1>3 DEF Agree
<1> DEFINE a == g \o u
           b == f \o t
<1>5. /\ a \in Seq(Wd) /\ Len(a) = Len(g) + Len(u)
      /\ \A i \in 1 .. Len(g) + Len(u) : a[i] = IF i <= Len(g) THEN g[i] ELSE u[i - Len(g)]
  BY <1>1, <1>3, ConcatProperties
<1>6. /\ b \in Seq(Wd) /\ Len(b) = Len(f) + Len(t)
      /\ \A i \in 1 .. Len(f) + Len(t) : b[i] = IF i <= Len(f) THEN f[i] ELSE t[i - Len(f)]
  BY ConcatProperties
<1> HIDE DEF a, b
<1>7. ASSUME NEW i \in 1 .. Len(a) PROVE a[i] = b[i]
  <2>1. CASE i <= Len(f)
    BY <1>1, <1>2, <1>3, <1>5, <1>6, <2>1
  <2>2. CASE i = Len(f) + 1
    <3>1. a[i] = x
      <4>1. Len(g) \in Nat /\ i = Len(g) /\ i <= Len(g) /\ i \in 1 .. Len(g) + Len(u)
        BY <1>2, <1>3, <2>2
      <4>2. a[i] = g[i]
        BY <1>5, <4>1
      <4>3. i \in 1 .. Len(f) + 1 /\ ~(i <= Len(f))
        BY <1>2, <2>2
      <4> QED BY <1>3, <4>2, <4>3
    <3>2. i - Len(f) = 1 /\ b[i] = t[i - Len(f)]
      BY <1>2, <1>6, <2>2
    <3> QED BY <1>2, <3>1, <3>2
  <2>3. CASE i > Len(f) + 1
    <3>1. i \in 1 .. Len(g) + Len(u) /\ i > Len(g) /\ Len(g) \in Nat
      BY <1>2, <1>3, <1>5, <2>3
    <3>2. i - Len(g) \in 1 .. Len(u) /\ ~(i <= Len(g)) /\ (i - Len(g)) + 1 = i - Len(f)
      BY <1>2, <1>3, <3>1
    <3>3. a[i] = u[i - Len(g)]
      BY <1>5, <3>1, <3>2
    <3>4. a[i] = t[i - Len(f)]
      BY <1>1, <3>2, <3>3
    <3>5. i \in 1 .. Len(f) + Len(t) /\ ~(i <= Len(f))
      BY <1>1, <1>2, <1>3, <3>1
    <3>6. b[i] = t[i - Len(f)]
      BY <1>6, <3>5
    <3> QED BY <3>4, <3>6
  <2> QED BY <1>2, <1>5, <2>1, <2>2, <2>3
<1>8. a = b
  <2>1. Len(a) = Len(b)
    BY <1>1, <1>2, <1>3, <1>5, <1>6
  <2> QED BY <1>5, <1>6, <1>7, <2>1, SeqEqual
<1>9. u = << >> => g = b
  <2>1. g \o << >> = g
    BY <1>3, ConcatEmptySeq
  <2> QED BY <1>8, <2>1 DEF a
<1> QED BY <1>3, <1>4, <1>8, <1>9 DEF a, b, g, u, x

(* The records whose last word has been written.                           *)
LEMMA LastWordWritten ==
  ASSUME TypeInv, Write, ~(Len(todo) > 1), NEW L, NEW k, Written(L, k)
  PROVE  Log(file', L) /\ KnownBy(Final(L))' /\ pc' = "open"
         /\ Final(L) = [at |-> Len(file'), nodes |-> nodes', deps |-> deps']
<1> DEFINE new == WithIds(<<call.out>> \o call.deps.nodes, nodes)
           u == UpdateDeps(deps, IdOf(call.out, new), call.deps)
<1>1. /\ todo \in Seq(Wd) /\ todo # << >> /\ pc = "writing" /\ call.deps \in Dep /\ call.out \in Path
      /\ file \in Seq(Wd) /\ stored \in [Output -> DepOrNone]
  BY DEF TypeInv, Write
<1>2. /\ nodes' = new /\ deps' = u /\ file' = Append(file, Head(todo)) /\ pc' = "open"
      /\ stored' = [o \in Output |-> IF PathOf[o] = call.out THEN call.deps ELSE stored[o]]
  BY DEF Write
<1>3. Tail(todo) = << >>
  <2>1. Len(Tail(todo)) = Len(todo) - 1 /\ Tail(todo) \in Seq(Wd) /\ Len(todo) \in Nat /\ Len(todo) >= 1
    BY <1>1, HeadTailProperties
  <2> QED BY <2>1
<1>4. file' = Whole /\ Whole \in Seq(Wd)
  <2>1. file' = file \o todo
    BY <1>1, <1>2, <1>3, WordWritten
  <2> QED BY <1>1, <2>1, ConcatProperties DEF Whole
<1>5. /\ Log(Whole, L) /\ k \in 1 .. Len(L) - 1 /\ L[k].nodes = nodes /\ L[k].deps = deps
      /\ KnownBy(L[k]) /\ Final(L) = [at |-> Len(Whole), nodes |-> new, deps |-> u]
  BY DEF Written
<1> DEFINE s == L[k]
<1>6. s \in State
  <2>1. Len(L) \in Nat /\ k \in 1 .. Len(L)
    BY <1>4, <1>5, LogFacts
  <2> QED BY <1>4, <1>5, <2>1, LogFacts
<1>7. s.nodes = nodes /\ s.deps = deps /\ \A o \in Output : stored[o] = Got(PathOf[o], s.nodes, s.deps)
  BY <1>5 DEF KnownBy
<1> DEFINE out == call.out
           d == call.deps
<1> HIDE DEF s, out, d
<1>8. \A p : Got(p, new, u) = IF p = out THEN d ELSE Got(p, s.nodes, s.deps)
  <2> SUFFICES ASSUME NEW p PROVE Got(p, new, u) = IF p = out THEN d ELSE Got(p, s.nodes, s.deps)
    OBVIOUS
  <2>1. new = WithIds(<<out>> \o d.nodes, s.nodes) /\ u = UpdateDeps(s.deps, IdOf(out, new), d)
    BY <1>7 DEF out, d
  <2>2. out \in Path /\ d \in Dep
    BY <1>1 DEF out, d
  <2> HIDE DEF new, u
  <2> QED BY <1>6, <2>1, <2>2, GotRecorded
<1> HIDE DEF new, u
<1>9. Final(L) = [at |-> Len(file'), nodes |-> nodes', deps |-> deps']
  BY <1>2, <1>4, <1>5
<1>10. ASSUME NEW o \in Output PROVE stored'[o] = Got(PathOf[o], new, u)
  <2>1. stored'[o] = IF PathOf[o] = out THEN d ELSE stored[o]
    BY <1>2 DEF out, d
  <2> QED BY <1>7, <1>8, <2>1
<1>11. KnownBy(Final(L))'
  BY <1>5, <1>10 DEF KnownBy
<1> QED BY <1>2, <1>4, <1>5, <1>9, <1>11

LEMMA WriteSound ==
  ASSUME Inv, Write
  PROVE  (~torn => Sound)' /\ (torn => Torn)'
<1>1. /\ TypeInv /\ file \in Seq(Wd) /\ todo \in Seq(Wd) /\ todo # << >> /\ pc = "writing"
      /\ file' = Append(file, Head(todo)) /\ todo' = Tail(todo) /\ UNCHANGED <<load, torn, intact>>
  BY DEF Inv, TypeInv, Write
<1>2. /\ file' \in Seq(Wd) /\ Len(file') = Len(file) + 1 /\ Agree(file, file', Len(file))
      /\ file' \o todo' = file \o todo
  BY <1>1, WordWritten
<1>3. CASE torn
  <2>1. PICK L : Log(file, L) /\ Final(L).at = intact
    BY <1>3 DEF Inv, Torn
  <2> DEFINE g == file'
             a == Final(L).at
  <2>2. a \in Nat /\ a <= Len(file)
    <3>1. Len(L) \in 1 .. Len(L)
      BY <1>1, <2>1, LogFacts
    <3> QED BY <1>1, <2>1, <3>1, LogFacts DEF Final
  <2>3. Agree(file, g, a)
    <3> HIDE DEF a, g
    <3>1. Agree(file, g, Len(file))
      BY <1>2 DEF g
    <3>2. Len(file) \in Nat
      BY <1>1
    <3> QED BY <2>2, <3>1, <3>2 DEF Agree
  <2>4. g \in Seq(Wd)
    BY <1>2
  <2> HIDE DEF g
  <2>5. PICK M : Log(g, M) /\ Final(M) = Final(L)
    BY <1>1, <2>1, <2>3, <2>4, LogKept
  <2>6. pc' \in {"open", "writing"}
    BY <1>1 DEF Write
  <2> QED BY <1>1, <1>3, <2>1, <2>5, <2>6 DEF Torn, g
<1>4. CASE ~torn
  <2>1. SoundWriting /\ intact = 0
    BY <1>4 DEF Inv, Sound
  <2>2. PICK L, k : Written(L, k)
    BY <1>1, <2>1 DEF SoundWriting
  <2>3. CASE Len(todo) > 1
    <3>1. UNCHANGED <<nodes, deps, call, pc, stored>>
      BY <2>3 DEF Write
    <3>2. Whole' = Whole
      BY <1>2 DEF Whole
    <3>3. KnownBy(L[k])' <=> KnownBy(L[k])
      BY <3>1 DEF KnownBy
    <3>4. k = 1 \/ L[k].at <= Len(file')
      <4>1. L[k].at \in Nat
        <5>1. Whole \in Seq(Wd)
          BY <1>1, ConcatProperties DEF Whole
        <5>2. Log(Whole, L) /\ k \in 1 .. Len(L) - 1
          BY <2>2 DEF Written
        <5>3. k \in 1 .. Len(L)
          BY <5>1, <5>2, LogFacts
        <5> QED BY <5>1, <5>2, <5>3, LogFacts
      <4>2. Len(file) \in Nat
        BY <1>1
      <4>3. k = 1 \/ L[k].at <= Len(file)
        BY <2>2 DEF Written
      <4> QED BY <1>2, <4>1, <4>2, <4>3
    <3>5. Written(L, k)'
      BY <2>2, <3>1, <3>2, <3>3, <3>4 DEF Written
    <3>6. SoundWriting'
      BY <3>5 DEF SoundWriting
    <3> QED BY <1>1, <1>4, <2>1, <3>1, <3>6
          DEF Sound, SoundClosed, SoundLoading, SoundRecovering, SoundOpen
  <2>4. CASE ~(Len(todo) > 1)
    <3>1. /\ Log(file', L) /\ KnownBy(Final(L))' /\ pc' = "open"
          /\ Final(L) = [at |-> Len(file'), nodes |-> nodes', deps |-> deps']
      BY <1>1, <2>2, <2>4, LastWordWritten
    <3>2. SoundOpen'
      BY <3>1 DEF SoundOpen
    <3> QED BY <1>1, <1>4, <2>1, <3>1, <3>2
          DEF Sound, SoundClosed, SoundLoading, SoundRecovering, SoundWriting
  <2> QED BY <2>3, <2>4
<1> QED BY <1>3, <1>4

(* A session that dies while it writes has written the records up to some  *)
(* state of the log, and a part of the next.                               *)
LEMMA PartWritten ==
  ASSUME NEW f \in Seq(Wd), NEW t \in Seq(Wd), t # << >>, NEW L, Log(f \o t, L),
         NEW k \in 1 .. Len(L) - 1, k = 1 \/ L[k].at <= Len(f),
         Final(L).at = Len(f \o t), Len(f) >= 2
  PROVE  \E j \in k .. Len(L) - 1 : L[j].at <= Len(f) /\ Len(f) < L[j + 1].at
<1> DEFINE w == f \o t
           n == Len(f)
           m == Len(L)
           J == {j \in 1 .. m : L[j].at <= n}
<1>1. w \in Seq(Wd) /\ Len(w) = n + Len(t) /\ n \in Nat /\ Len(t) \in Nat \ {0}
  BY ConcatProperties, EmptySeq
<1> HIDE DEF w
<1>2. /\ m \in Nat /\ m >= 1 /\ L[1] = Start
      /\ \A i \in 1 .. m : L[i].at \in Nat
  <2>1. Log(w, L)
    BY DEF w
  <2> QED BY <1>1, <2>1, LogFacts
<1>3. L[m].at = Len(w)
  BY DEF Final, w
<1> HIDE DEF n, m
<1>4. k \in 1 .. m - 1
  BY DEF m
<1>5. 1 \in J /\ k \in J /\ J \in SUBSET (0 .. m)
  <2>1. L[1].at <= n
    BY <1>2 DEF Start, n
  <2>2. L[k].at <= n
    BY <2>1 DEF n
  <2>3. 1 \in 1 .. m /\ k \in 1 .. m
    BY <1>2, <1>4
  <2>4. J \in SUBSET (0 .. m)
    BY <1>2
  <2> QED BY <2>1, <2>2, <2>3, <2>4
<1>6. PICK j \in J : \A u \in J : u <= j
  <2> HIDE DEF J
  <2>1. J # {}
    BY <1>5
  <2> QED BY <1>2, <1>5, <2>1, GreatestBelow
<1>7. j \in 1 .. m /\ L[j].at <= n /\ k <= j
  <2>1. k <= j
    BY <1>5, <1>6
  <2> QED BY <1>6, <2>1
<1>8. j # m
  BY <1>1, <1>3, <1>7
<1>9. j \in k .. m - 1 /\ j + 1 \in 1 .. m
  BY <1>2, <1>4, <1>7, <1>8
<1>10. n < L[j + 1].at
  <2> SUFFICES ASSUME ~(n < L[j + 1].at) PROVE FALSE
    OBVIOUS
  <2>1. L[j + 1].at <= n
    BY <1>1, <1>2, <1>9
  <2>2. j + 1 \in J
    BY <1>9, <2>1
  <2>3. j + 1 <= j
    BY <1>6, <2>2
  <2> QED BY <1>7, <2>3
<1> QED BY <1>7, <1>9, <1>10 DEF n, m

(* What the session recorded before is known without the new records.      *)
LEMMA QuietKnows ==
  ASSUME NEW L \in Seq(State), NEW k \in 1 .. Len(L) - 1, NEW j \in k .. Len(L) - 1,
         Quiet(L, k, Len(L) - 1), KnownBy(L[k])
  PROVE  KnownBy(L[j])
<1>1. Len(L) \in Nat /\ k \in 1 .. Len(L) /\ j \in 1 .. Len(L)
  OBVIOUS
<1> DEFINE s == L[k]
           t == L[j]
<1>2. s \in State /\ t \in State
  BY <1>1
<1>3. t.deps = s.deps /\ Extends(s.nodes, t.nodes)
  BY DEF Quiet
<1>4. \A o \in Output : stored[o] = Got(PathOf[o], s.nodes, s.deps)
  BY DEF KnownBy
<1> DEFINE D == DepOrNone
<1> HIDE DEF s, t, D
<1>5. /\ s.nodes \in Seq(Path) /\ t.nodes \in Seq(Path) /\ IsInjective(t.nodes)
      /\ s.deps \in Seq(D) /\ Len(s.deps) <= Len(s.nodes)
  BY <1>2, StateFacts DEF D
<1>6. \A p : Got(p, t.nodes, s.deps) = Got(p, s.nodes, s.deps)
  <2> DEFINE a == s.nodes
             b == t.nodes
             d == s.deps
  <2>1. a \in Seq(Path) /\ b \in Seq(Path) /\ IsInjective(b) /\ d \in Seq(D) /\ Len(d) <= Len(a)
        /\ Extends(a, b)
    BY <1>3, <1>5
  <2> HIDE DEF a, b, d
  <2>2. \A p : Got(p, b, d) = Got(p, a, d)
    BY <2>1, GotExtends
  <2> QED BY <2>2 DEF a, b, d
<1>7. \A o \in Output : stored[o] = Got(PathOf[o], t.nodes, t.deps)
  BY <1>3, <1>4, <1>6
<1> QED BY <1>7 DEF KnownBy, t

(* The last size word of a file that ends inside a record is its own.      *)
LEMMA LastSize ==
  ASSUME NEW f \in Seq(Wd), NEW a \in Nat, a + 1 <= Len(f), IsSize(f[a + 1]),
         \A i \in a + 2 .. Len(f) : ~ IsSize(f[i])
  PROVE  SelectLastInSeq(f, IsSize) - 1 = a
<1> DEFINE I == {i \in 1 .. Len(f) : IsSize(f[i])}
           x == a + 1
<1>1. x \in I /\ \A i \in I : i <= x
  <2>1. \A i \in 1 .. Len(f) : i <= a + 1 \/ i \in a + 2 .. Len(f)
    OBVIOUS
  <2> QED BY <2>1
<1>2. SelectLastInSeq(f, IsSize) = IF I # {} THEN Max(I) ELSE 0
  BY DEF SelectLastInSeq
<1>3. \A i \in I : i \in Int
  OBVIOUS
<1> HIDE DEF I, x
<1>4. Max(I) = x
  <2>1. \A y \in I : (\A i \in I : y >= i) => y = x
    <3> SUFFICES ASSUME NEW y \in I, \A i \in I : y >= i PROVE y = x
      OBVIOUS
    <3>1. y >= x /\ y <= x /\ y \in Int /\ x \in Int
      BY <1>1, <1>3
    <3> QED BY <3>1
  <2>2. \A i \in I : x >= i
    BY <1>1, <1>3
  <2> QED BY <1>1, <2>1, <2>2 DEF Max
<1> QED BY <1>1, <1>2, <1>4 DEF x

(* The next word and the last one, in the file when all is written.        *)
LEMMA NextWord ==
  ASSUME NEW f \in Seq(Wd), NEW t \in Seq(Wd), t # << >>
  PROVE  /\ f \o t \in Seq(Wd) /\ Len(f) < Len(f \o t)
         /\ Head(t) = (f \o t)[Len(f) + 1]
         /\ \A i \in 1 .. Len(f) : (f \o t)[i] = f[i]
<1>1. Len(t) \in Nat /\ Len(t) >= 1 /\ Len(f) \in Nat /\ Head(t) = t[1]
  BY EmptySeq
<1> DEFINE w == f \o t
<1>2. /\ w \in Seq(Wd) /\ Len(w) = Len(f) + Len(t)
      /\ \A i \in 1 .. Len(f) + Len(t) : w[i] = IF i <= Len(f) THEN f[i] ELSE t[i - Len(f)]
  BY ConcatProperties
<1> HIDE DEF w
<1>3. w[Len(f) + 1] = t[1]
  <2> DEFINE i == Len(f) + 1
  <2>1. i \in 1 .. Len(f) + Len(t) /\ ~(i <= Len(f)) /\ i - Len(f) = 1
    BY <1>1
  <2>2. w[i] = t[i - Len(f)]
    BY <1>2, <2>1
  <2> QED BY <2>1, <2>2
<1>4. \A i \in 1 .. Len(f) : w[i] = f[i]
  BY <1>1, <1>2
<1> QED BY <1>1, <1>2, <1>3, <1>4 DEF w

(* Dying while the header is written leaves no log.                        *)
LEMMA EndInHeader ==
  ASSUME TypeInv, EndSession, NEW L, NEW k, Written(L, k), Len(file) < 2
  PROVE  ~ InsidePayload /\ KnownBy(Start)
<1>1. file \in Seq(Wd) /\ todo \in Seq(Wd) /\ Len(file) \in Nat
  BY DEF TypeInv
<1>2. Log(Whole, L) /\ k \in 1 .. Len(L) - 1 /\ (k = 1 \/ L[k].at <= Len(file)) /\ KnownBy(L[k])
  BY DEF Written
<1>3. Whole \in Seq(Wd)
  BY <1>1, ConcatProperties DEF Whole
<1>4. k = 1 /\ L[k] = Start
  <2>1. k \in 1 .. Len(L)
    BY <1>2, <1>3, LogFacts
  <2>2. L[k].at >= 2 /\ L[k].at \in Nat
    BY <1>2, <1>3, <2>1, LogFacts
  <2>3. k = 1
    BY <1>1, <1>2, <2>2
  <2> QED BY <1>2, <1>3, <2>3, LogFacts
<1>5. ~ InsidePayload
  <2> SUFFICES ASSUME InsidePayload PROVE FALSE
    OBVIOUS
  <2>1. todo # << >> /\ Head(todo).kind \in PayloadKinds
    BY DEF InsidePayload, TypeInv, PayloadKinds
  <2>2. Head(todo) = Whole[Len(file) + 1]
    BY <1>1, <2>1, NextWord DEF Whole
  <2>3. Whole[0 + 1] = Header[1] /\ Whole[0 + 2] = Header[2]
    <3>1. Holds(Whole, 0, Header)
      BY <1>2 DEF Log
    <3>2. 1 \in 1 .. Len(Header) /\ 2 \in 1 .. Len(Header)
      BY HeaderTyped
    <3> QED BY <3>1, <3>2 DEF Holds
  <2>4. Len(file) = 0 \/ Len(file) = 1
    <3> DEFINE n == Len(file)
    <3>1. n \in Nat /\ n < 2
      BY <1>1
    <3> HIDE DEF n
    <3>2. n = 0 \/ n = 1
      BY <3>1
    <3> QED BY <3>2 DEF n
  <2>5. Head(todo).kind \in {"signature", "version"}
    BY <2>2, <2>3, <2>4, HeaderTyped
  <2> QED BY <2>1, <2>5 DEF PayloadKinds
<1> QED BY <1>2, <1>4, <1>5

(* Dying between two records or behind a size word leaves a log that Load  *)
(* can use; dying further on leaves the records up to the one in question. *)
LEMMA EndInRecords ==
  ASSUME TypeInv, EndSession, pc = "writing", NEW L, NEW k, Written(L, k), Len(file) >= 2
  PROVE  /\ ~InsidePayload => \E M : Logged(M)
         /\ InsidePayload => \E M : Log(file, M) /\ Final(M).at = SelectLastInSeq(file, IsSize) - 1
<1>1. file \in Seq(Wd) /\ todo \in Seq(Wd) /\ todo # << >> /\ Len(file) \in Nat
  BY DEF TypeInv
<1>2. /\ Log(Whole, L) /\ k \in 1 .. Len(L) - 1 /\ (k = 1 \/ L[k].at <= Len(file)) /\ KnownBy(L[k])
      /\ Quiet(L, k, Len(L) - 1) /\ PlainFrom(Whole, L, k) /\ Final(L).at = Len(Whole)
  BY DEF Written
<1>3. /\ Whole \in Seq(Wd) /\ Len(file) < Len(Whole) /\ Head(todo) = Whole[Len(file) + 1]
      /\ \A i \in 1 .. Len(file) : Whole[i] = file[i]
  BY <1>1, NextWord DEF Whole
<1>4. PICK j \in k .. Len(L) - 1 : L[j].at <= Len(file) /\ Len(file) < L[j + 1].at
  BY <1>1, <1>2, PartWritten DEF Whole
<1>5. /\ L \in Seq(State) /\ Len(L) \in Nat /\ j \in 1 .. Len(L) /\ j + 1 \in 1 .. Len(L)
      /\ L[j].at \in Nat /\ L[j + 1].at \in Nat
  <2>1. L \in Seq(State) /\ Len(L) \in Nat /\ \A i \in 1 .. Len(L) : L[i].at \in Nat
    BY <1>2, <1>3, LogFacts
  <2>2. j \in 1 .. Len(L) /\ j + 1 \in 1 .. Len(L)
    BY <1>2, <1>4, <2>1
  <2> QED BY <2>1, <2>2
<1> DEFINE a == L[j].at
           b == L[j + 1].at
           n == Len(file)
           w == Whole
<1>6. a \in Nat /\ b \in Nat /\ n \in Nat /\ a <= n /\ n < b
  BY <1>4, <1>5
<1>7. IsSize(w[a + 1]) /\ \A i \in a + 2 .. b : w[i].kind \in PayloadKinds
  BY <1>2, <1>4 DEF PlainFrom
<1>8. \E M : Log(file, M) /\ Final(M) = L[j]
  <2>1. Agree(Whole, file, L[j].at)
    <3> HIDE DEF w
    <3>1. \A i \in 1 .. a : w[i] = file[i]
      BY <1>3, <1>6 DEF w
    <3>2. a <= Len(w) /\ a <= n
      <4>1. n < Len(w) /\ Len(w) \in Nat
        BY <1>3 DEF w
      <4> QED BY <1>6, <4>1
    <3> QED BY <3>1, <3>2 DEF Agree, w
  <2> QED BY <1>1, <1>2, <1>3, <1>5, <2>1, LogSame
<1>9. PICK M : Log(file, M) /\ Final(M) = L[j]
  BY <1>8
<1>10. KnownBy(L[j])
  BY <1>2, <1>4, <1>5, QuietKnows
<1> HIDE DEF a, b, n, w
<1>11. n >= 1 /\ Last(file) = w[n] /\ Head(todo) = w[n + 1] /\ \A i \in 1 .. n : w[i] = file[i]
  <2>1. n >= 1
    BY <1>6 DEF n
  <2>2. n \in 1 .. n
    BY <1>6, <2>1
  <2> QED BY <1>3, <2>1, <2>2 DEF Last, n, w
<1>12. CASE n <= a + 1
  <2>1. n = a \/ n = a + 1
    BY <1>6, <1>12
  <2>2. IsSize(Head(todo)) \/ IsSize(Last(file))
    BY <1>7, <1>11, <2>1
  <2>3. ~ InsidePayload
    BY <2>2 DEF InsidePayload, IsSize
  <2>4. n = a + 1 => file[a + 1] = w[a + 1]
    BY <1>6, <1>11
  <2>5. Cut(Final(M))
    BY <1>7, <1>9, <1>12, <2>4 DEF Cut, a, n
  <2> QED BY <1>9, <1>10, <2>3, <2>5 DEF Logged
<1>13. CASE ~(n <= a + 1)
  <2>1. n \in a + 2 .. b /\ n + 1 \in a + 2 .. b /\ a + 1 <= n /\ a + 1 \in 1 .. n
    BY <1>6, <1>13
  <2>2. Last(file).kind \in PayloadKinds /\ Head(todo).kind \in PayloadKinds
    BY <1>7, <1>11, <2>1
  <2>3. InsidePayload
    BY <2>2 DEF InsidePayload, PayloadKinds, IsSize
  <2>4. \A i \in a + 2 .. n : ~ IsSize(file[i])
    <3> SUFFICES ASSUME NEW i \in a + 2 .. n PROVE ~ IsSize(file[i])
      OBVIOUS
    <3>1. i \in a + 2 .. b /\ i \in 1 .. n
      BY <1>6
    <3>2. file[i].kind \in PayloadKinds
      BY <1>7, <1>11, <3>1
    <3> QED BY <3>2 DEF PayloadKinds, IsSize
  <2>5. IsSize(file[a + 1])
    BY <1>7, <1>11, <2>1
  <2>6. SelectLastInSeq(file, IsSize) - 1 = a
    BY <1>1, <1>6, <2>1, <2>4, <2>5, LastSize DEF n
  <2> QED BY <1>9, <2>3, <2>6 DEF a
<1> QED BY <1>12, <1>13

LEMMA EndSessionSound ==
  ASSUME Inv, EndSession
  PROVE  (~torn => Sound)' /\ (torn => Torn)'
<1>1. /\ TypeInv /\ file \in Seq(Wd) /\ pc \in {"open", "writing", "recompact", "panic"}
      /\ pc' = "closed" /\ UNCHANGED <<file, stored, mended>>
  BY DEF Inv, TypeInv, EndSession
<1>2. CASE torn
  <2>1. PICK L : Log(file, L) /\ Final(L).at = intact
    BY <1>2 DEF Inv, Torn
  <2>2. UNCHANGED <<torn, intact>>
    BY <1>2 DEF EndSession
  <2> QED BY <1>1, <1>2, <2>1, <2>2 DEF Torn
<1>3. CASE ~torn
  <2>1. SoundOpen /\ SoundWriting /\ pc # "panic" /\ intact = 0
    BY <1>3 DEF Inv, Sound
  <2>2. ASSUME ~ InsidePayload, (Len(file) < 2 /\ KnownBy(Start)) \/ \E L : Logged(L)
        PROVE  (~torn => Sound)' /\ (torn => Torn)'
    <3>1. UNCHANGED <<torn, intact>>
      BY <2>2 DEF EndSession
    <3>2. SoundClosed'
      BY <1>1, <2>2 DEF SoundClosed, KnownBy, Logged, Cut
    <3> QED BY <1>1, <1>3, <2>1, <3>1, <3>2
          DEF Sound, SoundLoading, SoundRecovering, SoundOpen, SoundWriting
  <2>3. CASE pc \in {"open", "recompact"}
    <3>1. ~ InsidePayload
      BY <2>3 DEF InsidePayload
    <3>2. (Len(file) < 2 /\ KnownBy(Start)) \/ \E L : Logged(L)
      <4>1. CASE file = << >> /\ KnownBy(Start)
        BY <4>1
      <4>2. CASE \E L : /\ Log(file, L) /\ KnownBy(Final(L))
                        /\ Final(L) = [at |-> Len(file), nodes |-> nodes, deps |-> deps]
        <5>1. PICK L : /\ Log(file, L) /\ KnownBy(Final(L))
                       /\ Final(L) = [at |-> Len(file), nodes |-> nodes, deps |-> deps]
          BY <4>2
        <5>2. Final(L).at = Len(file) /\ Len(file) \in Nat
          BY <1>1, <5>1
        <5>3. Cut(Final(L))
          BY <5>2 DEF Cut
        <5> QED BY <5>1, <5>3 DEF Logged
      <4> QED BY <2>1, <2>3, <4>1, <4>2 DEF SoundOpen
    <3> QED BY <2>2, <3>1, <3>2
  <2>4. CASE pc = "writing"
    <3>1. PICK L, k : Written(L, k)
      BY <2>1, <2>4 DEF SoundWriting
    <3>2. CASE Len(file) < 2
      BY <1>1, <2>2, <3>1, <3>2, EndInHeader
    <3>3. CASE ~(Len(file) < 2) /\ ~ InsidePayload
      <4>1. Len(file) >= 2
        BY <1>1, <3>3
      <4> QED BY <1>1, <2>2, <2>4, <3>1, <3>3, <4>1, EndInRecords
    <3>4. CASE ~(Len(file) < 2) /\ InsidePayload
      <4>1. Len(file) >= 2
        BY <1>1, <3>4
      <4>2. PICK M : Log(file, M) /\ Final(M).at = SelectLastInSeq(file, IsSize) - 1
        BY <1>1, <2>4, <3>1, <3>4, <4>1, EndInRecords
      <4>3. torn' = TRUE /\ intact' = SelectLastInSeq(file, IsSize) - 1
        BY <3>4 DEF EndSession
      <4> QED BY <1>1, <4>2, <4>3 DEF Torn
    <3> QED BY <3>2, <3>3, <3>4
  <2> QED BY <1>1, <2>1, <2>3, <2>4
<1> QED BY <1>2, <1>3

LEMMA RecompactSound ==
  ASSUME Inv, Recompact
  PROVE  Sound' /\ ~torn'
<1>1. /\ TypeInv /\ pc' = "open" /\ torn' = FALSE /\ intact' = 0 /\ pc = "recompact"
      /\ file' = NewLog.file /\ nodes' = NewLog.nodes /\ deps' = NewLog.deps
      /\ stored' = [o \in Output |-> IF o \notin Live THEN NoDeps
                                     ELSE IF torn THEN GetDeps(PathOf[o]) ELSE stored[o]]
  BY DEF Inv, Recompact
<1>2. KeptUpTo(NewLog, Len(nodes)) /\ nodes \in Seq(Path) /\ deps \in Seq(DepOrNone)
  BY <1>1, NewLogFacts DEF TypeInv
<1> DEFINE x == NewLog
<1>3. PICK L : Log(x.file, L) /\ Final(L) = [at |-> Len(x.file), nodes |-> x.nodes, deps |-> x.deps]
  BY <1>2 DEF KeptUpTo
<1>4. \A p : Got(p, x.nodes, x.deps)
              = IF Kept(p) /\ \E j \in 1 .. Len(nodes) : p = nodes[j] THEN GetDeps(p) ELSE NoDeps
  BY <1>2 DEF KeptUpTo
<1> HIDE DEF x
<1>5. ASSUME NEW o \in Output PROVE stored'[o] = Got(PathOf[o], x.nodes, x.deps)
  <2> DEFINE p == PathOf[o]
  <2>1. p \in LivePaths <=> o \in Live
    BY DepsLogConstants DEF LivePaths
  <2>2. GetDeps(p) # NoDeps => \E j \in 1 .. Len(nodes) : p = nodes[j]
    <3>1. GetDeps(p) = Got(p, nodes, deps)
      BY GotNow
    <3>2. Got(p, nodes, deps) # NoDeps => p \in ToSet(nodes)
      BY <1>2, GotTyped
    <3>3. p \in ToSet(nodes) => \E j \in 1 .. Len(nodes) : p = nodes[j]
      BY <1>2 DEF ToSet
    <3> QED BY <3>1, <3>2, <3>3
  <2>3. Got(p, x.nodes, x.deps) = IF o \in Live THEN GetDeps(p) ELSE NoDeps
    BY <1>4, <2>1, <2>2 DEF Kept
  <2>4. ~torn => stored[o] = GetDeps(p)
    <3>1. ~torn => SoundOpen
      BY DEF Inv, Sound
    <3>2. SoundOpen => stored[o] = Got(p, nodes, deps)
      BY <1>1, OpenKnows
    <3> QED BY <3>1, <3>2, GotNow
  <2> QED BY <1>1, <2>3, <2>4
<1>6. KnownBy(Final(L))'
  BY <1>3, <1>5 DEF KnownBy
<1>7. SoundOpen'
  BY <1>1, <1>3, <1>6 DEF SoundOpen, x
<1> QED BY <1>1, <1>7 DEF Sound, SoundClosed, SoundLoading, SoundRecovering, SoundWriting

---------------------------------------------------------------------------
(* Every step, and the theorems *)

LEMMA LoadStepSound ==
  ASSUME Inv, LoadStep
  PROVE  (~torn => Sound)' /\ (torn => Torn)'
BY LoadSound, LoadTorn

LEMMA StepTyped ==
  ASSUME TypeInv, Next
  PROVE  TypeInv'
BY LoadNodeTyped, LoadDepsTyped, RecoverTyped, RecompactTyped, WriteTyped, SessionTyped,
   RecordDepsTyped DEF Next

LEMMA StepSound ==
  ASSUME Inv, [Next]_vars
  PROVE  Inv'
<1>1. CASE Next
  <2>1. TypeInv'
    BY <1>1, StepTyped DEF Inv
  <2>2. (~torn => Sound)' /\ (torn => Torn)'
    <3>1. CASE LoadStep
      BY <3>1, LoadStepSound
    <3>2. CASE BeginLoad
      BY <3>2, BeginLoadSound
    <3>3. CASE Recover
      BY <3>3, RecoverSound
    <3>4. CASE Recompact
      BY <3>4, RecompactSound
    <3>5. CASE \E o \in Output, m \in Mtimes, list \in DepLists : RecordDeps(o, m, list)
      BY <3>5, RecordDepsSound
    <3>6. CASE Write
      BY <3>6, WriteSound
    <3>7. CASE EndSession
      BY <3>7, EndSessionSound
    <3> QED BY <1>1, <3>1, <3>2, <3>3, <3>4, <3>5, <3>6, <3>7 DEF Next, LoadStep
  <2> QED BY <2>1, <2>2 DEF Inv
<1>2. CASE UNCHANGED vars
  <2>1. TypeInv'
    BY <1>2 DEF Inv, TypeInv, vars
  <2>2. Sound' <=> Sound
    BY <1>2 DEF vars, Sound, SoundClosed, SoundLoading, SoundRecovering, SoundOpen, SoundWriting,
                Logged, Cut, KnownBy, Loaded, Written, Whole
  <2>3. Torn' <=> Torn
    BY <1>2 DEF vars, Torn, Loaded
  <2> QED BY <1>2, <2>1, <2>2, <2>3 DEF Inv, vars
<1> QED BY <1>1, <1>2

LEMMA Invariant == Spec => []Inv
<1>1. Init => Inv
  BY InitSound
<1>2. Inv /\ [Next]_vars => Inv'
  BY StepSound
<1> QED BY <1>1, <1>2, PTL DEF Spec

LEMMA TornIsInFile ==
  ASSUME Inv
  PROVE  intact \in Nat /\ intact <= Len(file)
<1>1. file \in Seq(Wd) /\ Len(file) \in Nat /\ torn \in BOOLEAN
  BY DEF Inv, TypeInv
<1>2. CASE torn
  <2>1. PICK L : Log(file, L) /\ Final(L).at = intact
    BY <1>2 DEF Inv, Torn
  <2>2. Len(L) \in 1 .. Len(L)
    BY <1>1, <2>1, LogFacts
  <2> QED BY <1>1, <2>1, <2>2, LogFacts DEF Final
<1>3. CASE ~torn
  BY <1>1, <1>3 DEF Inv, Sound
<1> QED BY <1>1, <1>2, <1>3

(* What has been recorded is known whenever a session can tell.            *)
LEMMA WritingKnows ==
  ASSUME TypeInv, NEW L, NEW k, Written(L, k)
  PROVE  (\A o \in Output : stored[o] = Got(PathOf[o], nodes, deps)) /\ Len(deps) <= Len(nodes)
<1>1. Log(Whole, L) /\ k \in 1 .. Len(L) - 1 /\ KnownBy(L[k]) /\ L[k].nodes = nodes /\ L[k].deps = deps
  BY DEF Written
<1>2. Whole \in Seq(Wd)
  BY ConcatProperties DEF TypeInv, Whole
<1>3. L[k] \in State
  <2>1. k \in 1 .. Len(L)
    BY <1>1, <1>2, LogFacts
  <2> QED BY <1>1, <1>2, <2>1, LogFacts
<1>4. Len(deps) <= Len(nodes)
  BY <1>1, <1>3, StateFacts
<1> QED BY <1>1, <1>4 DEF KnownBy

LEMMA LoadedIds ==
  ASSUME TypeInv, ~torn, Sound
  PROVE  Len(deps) <= Len(nodes)
<1>1. file \in Seq(Wd) /\ pc \in PcValues /\ pc # "panic"
  BY DEF TypeInv, Sound
<1>2. CASE pc = "closed"
  BY <1>2 DEF TypeInv
<1>3. CASE pc = "loading"
  <2>1. PICK L : Log(file, L) /\ \E i \in 1 .. Len(L) : Loaded(L[i])
    BY <1>3 DEF Sound, SoundLoading, Logged
  <2>2. PICK i \in 1 .. Len(L) : Loaded(L[i])
    BY <2>1
  <2>3. L[i] \in State
    BY <1>1, <2>1, LogFacts
  <2> QED BY <2>2, <2>3, StateFacts DEF Loaded
<1>4. CASE pc = "recovering"
  <2>1. PICK L : Log(file, L) /\ Loaded(Final(L))
    BY <1>4 DEF Sound, SoundRecovering
  <2>2. Final(L) \in State
    BY <1>1, <2>1, LogFacts
  <2> QED BY <2>1, <2>2, StateFacts DEF Loaded
<1>5. CASE pc \in {"open", "recompact"}
  BY <1>5, OpenKnows DEF Sound
<1>6. CASE pc = "writing"
  BY <1>6, WritingKnows DEF Sound, SoundWriting
<1> QED BY <1>1, <1>2, <1>3, <1>4, <1>5, <1>6 DEF PcValues

(* Every variable has its type, in every file a torn log can become.       *)
THEOREM TypesKept == Spec => []TypeOK
<1>1. Inv => TypeOK
  <2> SUFFICES ASSUME Inv PROVE TypeOK
    OBVIOUS
  <2>1. TypeInv /\ intact \in Nat
    BY TornIsInFile DEF Inv
  <2>2. Wd \subseteq Words
    BY DEF Wd
  <2>3. \A s \in Seq(Wd) : s \in Seq(Words)
    BY <2>2
  <2>4. Path \subseteq Seq(Words)
    BY <2>3 DEF Path
  <2>5. \A s \in Seq(Path) : s \in Seq(Seq(Words))
    BY <2>4
  <2>6. Dep \subseteq Deps
    <3> SUFFICES ASSUME NEW d \in Dep PROVE d \in Deps
      OBVIOUS
    <3>1. d \in [mtime : Wd \X Wd, nodes : Seq(Path)]
      BY DEF Dep
    <3>2. d.mtime \in Words \X Words /\ d.nodes \in Seq(Seq(Words))
      BY <2>2, <2>5, <3>1
    <3>3. d = [mtime |-> d.mtime, nodes |-> d.nodes]
      BY <3>1
    <3> QED BY <3>2, <3>3 DEF Deps
  <2>7. DepOrNone \subseteq Deps \cup {NoDeps}
    BY <2>6 DEF DepOrNone
  <2>8. deps \in Seq(Deps \cup {NoDeps})
    <3> DEFINE D == DepOrNone
               E == Deps \cup {NoDeps}
    <3>1. deps \in Seq(D) /\ D \subseteq E
      BY <2>1, <2>7 DEF TypeInv
    <3> HIDE DEF D, E
    <3>2. deps \in Seq(E)
      BY <3>1
    <3> QED BY <3>2 DEF E
  <2>9. stored \in [Output -> Deps \cup {NoDeps}]
    BY <2>1, <2>7 DEF TypeInv
  <2>10. load \in [at : Nat, buf : Seq(Words), total : Nat, unique : Nat]
    BY <2>1, <2>3 DEF TypeInv
  <2>11. call.out \in Seq(Words) /\ call.deps \in Deps \cup {NoDeps}
    BY <2>1, <2>4, <2>7 DEF TypeInv
  <2>12. file \in Seq(Words) /\ todo \in Seq(Words) /\ nodes \in Seq(Seq(Words))
    BY <2>1, <2>3, <2>5 DEF TypeInv
  <2> QED BY <2>1, <2>8, <2>9, <2>10, <2>11, <2>12 DEF TypeInv, TypeOK
<1> QED BY <1>1, Invariant, PTL

(* Load, RecordDeps and Recompact: unless a session died inside a payload, *)
(* a session that has loaded the log knows the deps last recorded.         *)
THEOREM RememberedAlways == Spec => []Remembered
<1>1. Inv => Remembered
  <2> SUFFICES ASSUME Inv, pc \in {"open", "writing", "recompact"}, ~torn, NEW o \in Output
               PROVE  GetDeps(PathOf[o]) = stored[o]
    BY DEF Remembered
  <2>1. TypeInv /\ SoundOpen /\ SoundWriting
    BY DEF Inv, Sound
  <2>2. stored[o] = Got(PathOf[o], nodes, deps)
    <3>1. CASE pc \in {"open", "recompact"}
      BY <2>1, <3>1, OpenKnows
    <3>2. CASE pc = "writing"
      BY <2>1, <3>2, WritingKnows DEF SoundWriting
    <3> QED BY <3>1, <3>2
  <2> QED BY <2>2, GotNow
<1> QED BY <1>1, Invariant, PTL

(* Load's offset and Truncate: no repair cuts off a record that was        *)
(* complete before the torn one, whatever the torn file is taken for.      *)
THEOREM IntactNeverCut == Spec => []IntactKept
<1>1. Inv => IntactKept
  <2> SUFFICES ASSUME Inv PROVE IntactKept
    OBVIOUS
  <2>1. intact \in Nat /\ intact <= Len(file) /\ file \in Seq(Wd)
    BY TornIsInFile DEF Inv, TypeInv
  <2> QED BY <2>1 DEF IntactKept
<1> QED BY <1>1, Invariant, PTL

(* RecordId and Load: no node ever has two ids, in torn logs either.       *)
THEOREM OneIdPerNode == Spec => [](\A i, j \in 1 .. Len(nodes) : nodes[i] = nodes[j] => i = j)
<1>1. Inv => \A i, j \in 1 .. Len(nodes) : nodes[i] = nodes[j] => i = j
  <2> SUFFICES ASSUME Inv, NEW i \in 1 .. Len(nodes), NEW j \in 1 .. Len(nodes), nodes[i] = nodes[j]
               PROVE  i = j
    OBVIOUS
  <2>1. nodes \in Seq(Path) /\ IsInjective(nodes)
    BY DEF Inv, TypeInv
  <2>2. DOMAIN nodes = 1 .. Len(nodes)
    BY <2>1
  <2> QED BY <2>1, <2>2 DEF IsInjective
<1> QED BY <1>1, Invariant, PTL

(* Recompact and GetFirstReverseDepsNode: until a session dies inside a    *)
(* payload, every id in deps_ is that of a node.                           *)
THEOREM IdsAgreeUntilTorn == Spec => [](~torn => IdsAgree)
<1>1. Inv => (~torn => IdsAgree)
  <2> SUFFICES ASSUME Inv, ~torn PROVE IdsAgree
    OBVIOUS
  <2>1. Len(deps) <= Len(nodes)
    BY LoadedIds DEF Inv
  <2>2. nodes \in Seq(Path) /\ IsInjective(nodes)
    BY DEF Inv, TypeInv
  <2>3. DOMAIN nodes = 1 .. Len(nodes)
    BY <2>2
  <2>4. \A i, j \in 1 .. Len(nodes) : nodes[i] = nodes[j] => i = j
    BY <2>2, <2>3 DEF IsInjective
  <2> QED BY <2>1, <2>4 DEF IdsAgree
<1> QED BY <1>1, Invariant, PTL
=============================================================================
