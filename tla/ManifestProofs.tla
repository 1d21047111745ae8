---------------------------- MODULE ManifestProofs ----------------------------
(***************************************************************************)
(* What every manifest becomes, whatever its statements, the files it      *)
(* includes and the spellings of its paths.                                *)
(***************************************************************************)
EXTENDS Manifest, SequenceLemmas

---------------------------------------------------------------------------
(* Sequences of anything *)

LEMMA SeqFacts ==
  ASSUME NEW s, IsSeq(s)
  PROVE  /\ DOMAIN s = 1 .. Len(s) /\ Len(s) \in Nat
         /\ \A i \in DOMAIN s : s[i] \in ToSet(s)
         /\ \A x \in ToSet(s) : \E i \in DOMAIN s : s[i] = x
BY DEF IsSeq, ToSet

LEMMA SeqAppended ==
  ASSUME NEW s, IsSeq(s), NEW x
  PROVE  /\ IsSeq(Append(s, x)) /\ Len(Append(s, x)) = Len(s) + 1
         /\ \A i \in 1 .. Len(s) : Append(s, x)[i] = s[i]
         /\ Append(s, x)[Len(s) + 1] = x
         /\ ToSet(Append(s, x)) = ToSet(s) \cup {x}
<1> DEFINE S == ToSet(s) \cup {x}
<1>1. s \in Seq(S) /\ x \in S
  BY DEF IsSeq
<1> HIDE DEF S
<1>2. Append(s, x) \in Seq(S) /\ ToSet(Append(s, x)) = ToSet(s) \cup {x}
  BY <1>1, ToSetAppend
<1>3. ToSet(s) \cup {x} = S
  BY DEF S
<1>4. /\ Len(Append(s, x)) = Len(s) + 1
      /\ \A i \in 1 .. Len(s) : Append(s, x)[i] = s[i]
      /\ Append(s, x)[Len(s) + 1] = x
  BY <1>1, AppendProperties
<1> QED BY <1>2, <1>3, <1>4 DEF IsSeq

LEMMA SeqConcat ==
  ASSUME NEW s, IsSeq(s), NEW t, IsSeq(t)
  PROVE  IsSeq(s \o t) /\ ToSet(s \o t) = ToSet(s) \cup ToSet(t)
<1> DEFINE S == ToSet(s) \cup ToSet(t)
<1>1. s \in Seq(S) /\ t \in Seq(S)
  BY DEF IsSeq
<1> HIDE DEF S
<1>2. s \o t \in Seq(S) /\ ToSet(s \o t) = ToSet(s) \cup ToSet(t)
  BY <1>1, ToSetConcat
<1> QED BY <1>2 DEF IsSeq, S

(* A function on the places of a sequence is one too.                      *)
LEMMA SeqMapped ==
  ASSUME NEW s, IsSeq(s), NEW f, f = [i \in DOMAIN s |-> f[i]]
  PROVE  IsSeq(f) /\ Len(f) = Len(s)
<1>1. DOMAIN s = 1 .. Len(s) /\ Len(s) \in Nat
  BY SeqFacts
<1>2. \A i \in 1 .. Len(s) : f[i] \in ToSet(f)
  BY <1>1 DEF ToSet
<1>3. f \in [1 .. Len(s) -> ToSet(f)]
  BY <1>1, <1>2
<1> QED BY <1>1, <1>3 DEF IsSeq

LEMMA SeqContains ==
  ASSUME NEW s, IsSeq(s), NEW x
  PROVE  Contains(s, x) <=> x \in ToSet(s)
BY SeqFacts DEF Contains

LEMMA SeqExt ==
  ASSUME NEW s, IsSeq(s), NEW t, IsSeq(t), Len(s) = Len(t),
         \A i \in 1 .. Len(s) : s[i] = t[i]
  PROVE  s = t
<1> DEFINE S == ToSet(s) \cup ToSet(t)
<1>1. s \in Seq(S) /\ t \in Seq(S)
  BY DEF IsSeq
<1> HIDE DEF S
<1> QED BY <1>1, SeqEqual

LEMMA SeqEmpty == IsSeq(<< >>) /\ ToSet(<< >>) = {} /\ Len(<< >>) = 0
BY DEF IsSeq, ToSet

LEMMA SeqOne ==
  ASSUME NEW x
  PROVE  IsSeq(<<x>>) /\ ToSet(<<x>>) = {x}
<1>1. <<x>> = Append(<< >>, x)
  OBVIOUS
<1>2. IsSeq(Append(<< >>, x)) /\ ToSet(Append(<< >>, x)) = ToSet(<< >>) \cup {x}
  BY SeqEmpty, SeqAppended
<1> QED BY <1>1, <1>2, SeqEmpty

---------------------------------------------------------------------------
(* Without *)

(* g holds what is kept of the first i elements, for each i up to n.       *)
KeptUpTo(g, s, D, n) ==
  /\ DOMAIN g = 0 .. n
  /\ g[0] = << >>
  /\ \A i \in 1 .. n : g[i] = IF s[i] \in D THEN g[i - 1] ELSE Append(g[i - 1], s[i])

LEMMA KeptExists ==
  ASSUME NEW s, IsSeq(s), NEW D
  PROVE  \E g : KeptUpTo(g, s, D, Len(s))
<1> DEFINE T == {n \in 0 .. Len(s) : \E g : KeptUpTo(g, s, D, n)}
<1>1. Len(s) \in Nat
  BY SeqFacts
<1>2. 0 \in T
  <2> DEFINE g == [i \in 0 .. 0 |-> << >>]
  <2>1. KeptUpTo(g, s, D, 0)
    BY DEF KeptUpTo
  <2> QED BY <1>1, <2>1
<1>3. ASSUME NEW n \in 0 .. Len(s) - 1, n \in T PROVE n + 1 \in T
  <2>1. PICK g : KeptUpTo(g, s, D, n)
    BY <1>3
  <2> DEFINE x == IF s[n + 1] \in D THEN g[n] ELSE Append(g[n], s[n + 1])
             h == [i \in 0 .. n + 1 |-> IF i = n + 1 THEN x ELSE g[i]]
  <2>2. n \in Nat /\ n + 1 \in 0 .. Len(s)
    BY <1>1
  <2>3. \A i \in 1 .. n + 1 : h[i] = IF s[i] \in D THEN h[i - 1] ELSE Append(h[i - 1], s[i])
    <3> SUFFICES ASSUME NEW i \in 1 .. n + 1
                 PROVE  h[i] = IF s[i] \in D THEN h[i - 1] ELSE Append(h[i - 1], s[i])
      OBVIOUS
    <3>1. h[i - 1] = g[i - 1]
      BY <2>2
    <3>2. CASE i = n + 1
      BY <2>2, <3>1, <3>2
    <3>3. CASE i # n + 1
      <4>1. h[i] = g[i] /\ i \in 1 .. n
        BY <2>2, <3>3
      <4> HIDE DEF h, x
      <4> QED BY <2>1, <3>1, <4>1 DEF KeptUpTo
    <3> QED BY <3>2, <3>3
  <2>4. DOMAIN h = 0 .. n + 1 /\ h[0] = << >>
    BY <2>1, <2>2 DEF KeptUpTo
  <2>5. KeptUpTo(h, s, D, n + 1)
    <3> HIDE DEF h
    <3> QED BY <2>3, <2>4 DEF KeptUpTo
  <2> QED BY <2>2, <2>5
<1>4. \A i \in 0 .. Len(s) : i \in T
  <2> HIDE DEF T
  <2> QED BY <1>1, <1>2, <1>3, IntervalInduction
<1> QED BY <1>1, <1>4

LEMMA WithoutUnfolds ==
  ASSUME NEW s, IsSeq(s), NEW D
  PROVE  \E g : KeptUpTo(g, s, D, Len(s)) /\ Without(s, D) = g[Len(s)]
<1>1. Len(s) \in Nat
  BY SeqFacts
<1> DEFINE Step(f) == [i \in 0 .. Len(s) |->
                        IF i = 0 THEN << >>
                        ELSE IF s[i] \in D THEN f[i - 1] ELSE Append(f[i - 1], s[i])]
           kept == CHOOSE f : f = Step(f)
<1>2. PICK g : KeptUpTo(g, s, D, Len(s))
  BY KeptExists
<1>3. Without(s, D) = kept[Len(s)]
  BY DEF Without
<1>4. \E f : f = Step(f)
  <2> DEFINE f == Step(g)
  <2>1. \A i \in 0 .. Len(s) : f[i] = g[i]
    <3> SUFFICES ASSUME NEW i \in 0 .. Len(s) PROVE f[i] = g[i]
      OBVIOUS
    <3>1. CASE i = 0
      BY <1>2, <3>1 DEF KeptUpTo
    <3>2. CASE i # 0
      <4>1. i \in 1 .. Len(s)
        BY <1>1, <3>2
      <4> QED BY <1>2, <3>2, <4>1 DEF KeptUpTo
    <3> QED BY <3>1, <3>2
  <2>2. Step(f) = Step(g)
    <3> HIDE DEF f
    <3>1. \A i \in 0 .. Len(s) : i # 0 => f[i - 1] = g[i - 1]
      BY <1>1, <2>1
    <3> QED BY <3>1
  <2> QED BY <2>2
<1>5. kept = Step(kept)
  <2> HIDE DEF Step
  <2> QED BY <1>4
<1>6. KeptUpTo(kept, s, D, Len(s))
  <2> HIDE DEF kept
  <2>1. DOMAIN kept = 0 .. Len(s)
    BY <1>5
  <2>2. \A i \in 0 .. Len(s) : kept[i] = IF i = 0 THEN << >>
                        ELSE IF s[i] \in D THEN kept[i - 1] ELSE Append(kept[i - 1], s[i])
    BY <1>5
  <2>3. kept[0] = << >>
    BY <1>1, <2>2
  <2>4. \A i \in 1 .. Len(s) : i \in 0 .. Len(s) /\ i # 0
    BY <1>1
  <2> QED BY <2>1, <2>2, <2>3, <2>4 DEF KeptUpTo
<1> QED BY <1>3, <1>6

(* What is left are the elements that are not in D, and when these are all *)
(* of them, s.                                                             *)
LEMMA WithoutFacts ==
  ASSUME NEW s, IsSeq(s), NEW D
  PROVE  /\ IsSeq(Without(s, D)) /\ ToSet(Without(s, D)) = ToSet(s) \ D
         /\ D = {} => Without(s, D) = s
<1>1. PICK g : KeptUpTo(g, s, D, Len(s)) /\ Without(s, D) = g[Len(s)]
  BY WithoutUnfolds
<1>2. Len(s) \in Nat
  BY SeqFacts
<1> DEFINE Good(i) == /\ IsSeq(g[i]) /\ ToSet(g[i]) = {s[j] : j \in 1 .. i} \ D
                      /\ D = {} => Len(g[i]) = i /\ \A j \in 1 .. i : g[i][j] = s[j]
           T == {i \in 0 .. Len(s) : Good(i)}
<1>3. 0 \in T
  BY <1>1, <1>2, SeqEmpty DEF KeptUpTo
<1>4. ASSUME NEW i \in 0 .. Len(s) - 1, i \in T PROVE i + 1 \in T
  <2>1. /\ i \in Nat /\ i + 1 \in 1 .. Len(s) /\ i + 1 \in 0 .. Len(s) /\ (i + 1) - 1 = i
        /\ 1 .. i + 1 = (1 .. i) \cup {i + 1}
    BY <1>2
  <2>2. g[i + 1] = IF s[i + 1] \in D THEN g[i] ELSE Append(g[i], s[i + 1])
    BY <1>1, <2>1 DEF KeptUpTo
  <2>3. {s[j] : j \in 1 .. i + 1} = {s[j] : j \in 1 .. i} \cup {s[i + 1]}
    BY <2>1
  <2>4. Good(i)
    BY <1>4
  <2>5. Good(i + 1)
    <3>1. CASE s[i + 1] \in D
      BY <2>2, <2>3, <2>4, <3>1
    <3>2. CASE s[i + 1] \notin D
      <4>1. g[i + 1] = Append(g[i], s[i + 1]) /\ IsSeq(g[i])
        BY <2>2, <2>4, <3>2
      <4>2. /\ IsSeq(g[i + 1]) /\ Len(g[i + 1]) = Len(g[i]) + 1
            /\ \A j \in 1 .. Len(g[i]) : g[i + 1][j] = g[i][j]
            /\ g[i + 1][Len(g[i]) + 1] = s[i + 1]
            /\ ToSet(g[i + 1]) = ToSet(g[i]) \cup {s[i + 1]}
        BY <4>1, SeqAppended
      <4>3. ToSet(g[i + 1]) = {s[j] : j \in 1 .. i + 1} \ D
        BY <2>3, <2>4, <3>2, <4>2
      <4>4. ASSUME D = {}
            PROVE  Len(g[i + 1]) = i + 1 /\ \A j \in 1 .. i + 1 : g[i + 1][j] = s[j]
        BY <2>1, <2>4, <4>2, <4>4
      <4> QED BY <4>2, <4>3, <4>4
    <3> QED BY <3>1, <3>2
  <2> QED BY <2>1, <2>5
<1>5. Len(s) \in T
  <2> HIDE DEF T
  <2>1. \A i \in 0 .. Len(s) : i \in T
    BY <1>2, <1>3, <1>4, IntervalInduction
  <2> QED BY <1>2, <2>1
<1>6. {s[j] : j \in 1 .. Len(s)} = ToSet(s)
  BY SeqFacts DEF ToSet
<1>7. ASSUME D = {} PROVE g[Len(s)] = s
  <2>1. /\ IsSeq(g[Len(s)]) /\ Len(g[Len(s)]) = Len(s)
        /\ \A j \in 1 .. Len(s) : g[Len(s)][j] = s[j]
    BY <1>5, <1>7
  <2> QED BY <2>1, SeqExt
<1> QED BY <1>1, <1>5, <1>6, <1>7

---------------------------------------------------------------------------
(* Kinds of inputs *)

LEMMA KindsTyped ==
  ASSUME NEW e, NEW s, IsSeq(s)
  PROVE  /\ IsSeq(Kinds(e, s)) /\ Len(Kinds(e, s)) = Len(s)
         /\ DOMAIN Kinds(e, s) = 1 .. Len(s)
<1> DEFINE f == Kinds(e, s)
<1>1. f = [i \in DOMAIN s |-> f[i]] /\ DOMAIN f = DOMAIN s
  BY DEF Kinds
<1> HIDE DEF f
<1>2. IsSeq(f) /\ Len(f) = Len(s)
  BY <1>1, SeqMapped
<1> QED BY <1>1, <1>2, SeqFacts DEF f

KindNames == {"explicit", "implicit", "order-only"}

(* Without implicit inputs, the name h can go without changing the kinds   *)
(* of the others, as long as it is not among those after ||, which are     *)
(* counted from the end.                                                   *)
LEMMA KindsWithout ==
  ASSUME NEW e, e.orderOnly \in Nat, e.implicit = 0, NEW s, IsSeq(s), NEW h,
         <<h, "order-only">> \notin ToSet(Kinds(e, s))
  PROVE  Kinds(e, Without(s, {h})) = Without(Kinds(e, s), {h} \X KindNames)
<1>1. Len(s) \in Nat /\ DOMAIN s = 1 .. Len(s)
  BY SeqFacts
<1> DEFINE n == Len(s)
           P == Kinds(e, s)
           D == {h} \X KindNames
           k == n - e.orderOnly
<1>2. IsSeq(P) /\ Len(P) = n /\ DOMAIN P = 1 .. n
  BY KindsTyped
<1>3. k \in Int /\ k <= n
  BY <1>1
<1>4. \A i \in 1 .. n : P[i] = <<s[i], IF i > k THEN "order-only" ELSE "explicit">>
  BY <1>1 DEF Kinds
<1>5. \A i \in 1 .. n : P[i] \in D <=> s[i] = h
  BY <1>4 DEF KindNames
<1>6. \A i \in 1 .. n : i > k => s[i] # h
  <2> SUFFICES ASSUME NEW i \in 1 .. n, i > k, s[i] = h PROVE FALSE
    OBVIOUS
  <2>1. P[i] = <<h, "order-only">>
    BY <1>4
  <2> QED BY <1>2, <2>1, SeqFacts
<1>7. PICK g : KeptUpTo(g, s, {h}, n) /\ Without(s, {h}) = g[n]
  BY WithoutUnfolds
<1>8. PICK q : KeptUpTo(q, P, D, n) /\ Without(P, D) = q[n]
  BY <1>2, WithoutUnfolds
<1> HIDE DEF P, D, k
<1> DEFINE last(i) == IF i <= k THEN 0 ELSE IF k < 0 THEN i ELSE i - k
           Good(i) ==
             /\ IsSeq(g[i]) /\ IsSeq(q[i]) /\ Len(q[i]) = Len(g[i]) /\ Len(g[i]) <= i
             /\ \A j \in 1 .. Len(g[i]) :
                  q[i][j] = <<g[i][j], IF j > Len(g[i]) - last(i)
                                       THEN "order-only" ELSE "explicit">>
           T == {i \in 0 .. n : Good(i)}
<1>9. 0 \in T
  <2>1. g[0] = << >> /\ q[0] = << >>
    BY <1>7, <1>8 DEF KeptUpTo
  <2> QED BY <1>1, <2>1, SeqEmpty
<1>10. ASSUME NEW i \in 0 .. n - 1, i \in T PROVE i + 1 \in T
  <2>1. /\ i \in Nat /\ i + 1 \in 1 .. n /\ i + 1 \in 0 .. n /\ (i + 1) - 1 = i
    BY <1>1
  <2>2. Good(i)
    BY <1>10
  <2>3. /\ g[i + 1] = IF s[i + 1] = h THEN g[i] ELSE Append(g[i], s[i + 1])
        /\ q[i + 1] = IF s[i + 1] = h THEN q[i] ELSE Append(q[i], P[i + 1])
    BY <1>5, <1>7, <1>8, <2>1 DEF KeptUpTo
  <2>4. Len(g[i]) \in Nat
    BY <2>2, SeqFacts
  <2>5. CASE s[i + 1] = h
    <3>1. i + 1 <= k
      BY <1>3, <1>6, <2>1, <2>5
    <3>2. last(i) = 0 /\ last(i + 1) = 0
      BY <1>3, <2>1, <3>1
    <3>3. g[i + 1] = g[i] /\ q[i + 1] = q[i]
      BY <2>3, <2>5
    <3> QED BY <2>1, <2>2, <2>4, <3>2, <3>3
  <2>6. CASE s[i + 1] # h
    <3>1. g[i + 1] = Append(g[i], s[i + 1]) /\ q[i + 1] = Append(q[i], P[i + 1])
      BY <2>3, <2>6
    <3>2. /\ IsSeq(g[i + 1]) /\ Len(g[i + 1]) = Len(g[i]) + 1
          /\ \A j \in 1 .. Len(g[i]) : g[i + 1][j] = g[i][j]
          /\ g[i + 1][Len(g[i]) + 1] = s[i + 1]
      BY <2>2, <3>1, SeqAppended
    <3>3. /\ IsSeq(q[i + 1]) /\ Len(q[i + 1]) = Len(g[i]) + 1
          /\ \A j \in 1 .. Len(g[i]) : q[i + 1][j] = q[i][j]
          /\ q[i + 1][Len(g[i]) + 1] = P[i + 1]
      BY <2>2, <3>1, SeqAppended
    <3>4. last(i + 1) - last(i) = IF i + 1 <= k THEN 0 ELSE 1
      BY <1>3, <2>1
    <3>5. P[i + 1] = <<s[i + 1], IF i + 1 > k THEN "order-only" ELSE "explicit">>
      BY <1>4, <2>1
    <3>6. last(i) \in Int /\ last(i + 1) \in Int /\ last(i) >= 0
          /\ (i + 1 <= k => last(i) = 0) /\ (i + 1 > k => last(i + 1) >= 1)
      BY <1>3, <2>1
    <3> HIDE DEF last
    <3>7. ASSUME NEW j \in 1 .. Len(g[i]) + 1
          PROVE  q[i + 1][j] = <<g[i + 1][j], IF j > Len(g[i + 1]) - last(i + 1)
                                              THEN "order-only" ELSE "explicit">>
      <4>1. CASE j = Len(g[i]) + 1
        <5>1. (j > Len(g[i + 1]) - last(i + 1)) <=> (i + 1 > k)
          BY <1>3, <2>1, <2>4, <3>2, <3>4, <3>6, <4>1
        <5> QED BY <3>2, <3>3, <3>5, <4>1, <5>1
      <4>2. CASE j # Len(g[i]) + 1
        <5>1. j \in 1 .. Len(g[i])
          BY <2>4, <4>2
        <5>2. (j > Len(g[i + 1]) - last(i + 1)) <=> (j > Len(g[i]) - last(i))
          <6>1. Len(g[i + 1]) = Len(g[i]) + 1 /\ j <= Len(g[i]) /\ j \in Nat
            BY <2>4, <3>2, <5>1
          <6>2. CASE i + 1 <= k
            <7>1. last(i) = 0 /\ last(i + 1) = 0
              BY <3>4, <3>6, <6>2
            <7> QED BY <2>4, <6>1, <7>1
          <6>3. CASE ~ (i + 1 <= k)
            <7>1. last(i + 1) = last(i) + 1
              BY <3>4, <3>6, <6>3
            <7> QED BY <2>4, <3>6, <6>1, <7>1
          <6> QED BY <6>2, <6>3
        <5>3. q[i][j] = <<g[i][j], IF j > Len(g[i]) - last(i)
                                   THEN "order-only" ELSE "explicit">>
          BY <2>2, <5>1
        <5> QED BY <3>2, <3>3, <5>1, <5>2, <5>3
      <4> QED BY <4>1, <4>2
    <3>8. Len(g[i + 1]) <= i + 1
      BY <2>1, <2>2, <2>4, <3>2
    <3> QED BY <2>1, <3>2, <3>3, <3>7, <3>8
  <2> QED BY <2>5, <2>6
<1>11. Good(n)
  <2>1. n \in T
    <3> HIDE DEF T
    <3>1. \A i \in 0 .. n : i \in T
      BY <1>1, <1>9, <1>10, IntervalInduction
    <3> QED BY <1>1, <3>1
  <2> QED BY <2>1
<1> DEFINE w == g[n]
           r == Kinds(e, w)
<1>12. IsSeq(w) /\ IsSeq(r) /\ Len(r) = Len(w) /\ DOMAIN r = 1 .. Len(w)
       /\ Len(w) \in Nat /\ DOMAIN w = 1 .. Len(w) /\ Len(w) <= n
  BY <1>11, KindsTyped, SeqFacts
<1>13. ASSUME NEW j \in 1 .. Len(w) PROVE r[j] = q[n][j]
  <2>1. r[j] = <<w[j], IF j > Len(w) - e.orderOnly THEN "order-only" ELSE "explicit">>
    BY <1>12 DEF Kinds
  <2>2. q[n][j] = <<w[j], IF j > Len(w) - last(n) THEN "order-only" ELSE "explicit">>
    BY <1>11, <1>13
  <2>3. (j > Len(w) - e.orderOnly) <=> (j > Len(w) - last(n))
    BY <1>1, <1>12 DEF k
  <2> QED BY <2>1, <2>2, <2>3
<1>14. IsSeq(q[n]) /\ Len(q[n]) = Len(w)
  BY <1>11
<1>15. r = q[n]
  <2> HIDE DEF r
  <2> QED BY <1>12, <1>13, <1>14, SeqExt
<1> QED BY <1>7, <1>8, <1>15 DEF P, D

---------------------------------------------------------------------------
(* The statements that are read *)

Frame == [file : DOMAIN File \cup {"build.ninja"}, at : Nat \ {0}, env : Nat \ {0}]

(* Every parser is in a file there is, and works in a scope there is.      *)
Typed ==
  /\ manifest \in Main
  /\ frames \in Seq(Frame) /\ frames # << >>
  /\ IsSeq(scopes) /\ Len(scopes) >= 1
  /\ \A i \in DOMAIN frames : frames[i].env \in 1 .. Len(scopes)
  /\ \A i \in DOMAIN scopes : DOMAIN scopes[i] = {"parent", "vars", "rules"}

LEMMA TopKnown ==
  ASSUME Typed
  PROVE  /\ Len(frames) \in DOMAIN frames /\ Len(frames) \in Nat \ {0}
         /\ Top = frames[Len(frames)] /\ Top \in Frame
         /\ Env \in 1 .. Len(scopes) /\ Env \in DOMAIN scopes
<1>1. Len(frames) \in DOMAIN frames /\ Len(frames) \in Nat \ {0}
  BY EmptySeq DEF Typed
<1>2. Top = frames[Len(frames)] /\ Top \in Frame
  BY <1>1 DEF Typed, Top, Last
<1>3. Env \in 1 .. Len(scopes)
  BY <1>1, <1>2 DEF Typed, Env
<1>4. DOMAIN scopes = 1 .. Len(scopes)
  BY SeqFacts DEF Typed
<1> QED BY <1>1, <1>2, <1>3, <1>4

LEMMA StatementKnown ==
  ASSUME Typed, NEW kind, Reads(kind)
  PROVE  /\ Statement \in ToSet(Statements(Top.file))
         /\ Statement.kind = kind
         /\ Statement.kind = "build" =>
              /\ IsSeq(Statement.outs) /\ IsSeq(Statement.ins) /\ IsSeq(Statement.validations)
              /\ Statement.implicit \in Nat /\ Statement.orderOnly \in Nat
<1>1. Top \in Frame
  BY TopKnown
<1>2. Statements(Top.file) \in Main \cup {File[f] : f \in DOMAIN File}
  BY <1>1 DEF Statements, Frame, Typed
<1>3. IsSeq(Statements(Top.file))
  BY <1>2, ManifestConstants
<1>4. Top.at \in 1 .. Len(Statements(Top.file))
  BY <1>1, <1>3, SeqFacts DEF Reads, Frame
<1>5. Statement \in ToSet(Statements(Top.file))
  BY <1>3, <1>4, SeqFacts DEF Statement
<1>6. Statement.kind = kind
  BY DEF Reads
<1> QED BY <1>2, <1>5, <1>6, ManifestConstants

LEMMA TypedAtFirst == Init => Typed
<1> SUFFICES ASSUME Init PROVE Typed
  OBVIOUS
<1> DEFINE f == [file |-> "build.ninja", at |-> 1, env |-> 1]
           s == [parent |-> 0, vars |-> Empty, rules |-> [phony |-> [pool |-> << >>]]]
<1>1. f \in Frame /\ f.env = 1
  BY DEF Frame
<1>2. DOMAIN s = {"parent", "vars", "rules"}
  OBVIOUS
<1>3. frames = <<f>> /\ scopes = <<s>> /\ manifest \in Main
  BY DEF Init
<1> HIDE DEF f, s
<1>4. IsSeq(scopes) /\ Len(scopes) = 1 /\ DOMAIN scopes = {1} /\ scopes[1] = s
  BY <1>3, SeqOne
<1>5. frames \in Seq(Frame) /\ frames # << >> /\ DOMAIN frames = {1} /\ frames[1] = f
  BY <1>1, <1>3
<1> QED BY <1>1, <1>2, <1>3, <1>4, <1>5 DEF Typed

---------------------------------------------------------------------------
(* Frames and scopes through the actions *)

(* A step on, in the same file; and what becomes of the scopes.            *)
LEMMA FramesAdvance ==
  ASSUME Typed
  PROVE  /\ Advanced \in Seq(Frame) /\ Advanced # << >>
         /\ DOMAIN Advanced = DOMAIN frames /\ Len(Advanced) = Len(frames)
         /\ \A i \in DOMAIN frames : /\ Advanced[i].env = frames[i].env
                                     /\ Advanced[i].file = frames[i].file
<1>1. Len(frames) \in DOMAIN frames /\ Len(frames) \in Nat \ {0} /\ frames \in Seq(Frame)
  BY TopKnown DEF Typed
<1> DEFINE f(i) == [frames[i] EXCEPT !.at = @ + 1]
<1>2. \A i \in DOMAIN frames : frames[i] \in Frame
  BY <1>1
<1>3. \A i \in DOMAIN frames :
        f(i) \in Frame /\ f(i).env = frames[i].env /\ f(i).file = frames[i].file
  BY <1>2 DEF Frame
<1>4. /\ DOMAIN Advanced = DOMAIN frames
      /\ \A i \in DOMAIN frames : Advanced[i] = IF i = Len(frames) THEN f(i) ELSE frames[i]
  BY <1>1 DEF Advanced
<1> HIDE DEF f
<1>5. \A i \in DOMAIN frames : Advanced[i] \in Frame
  BY <1>2, <1>3, <1>4
<1>6. Advanced \in Seq(Frame)
  <2>1. DOMAIN Advanced = 1 .. Len(frames)
    BY <1>1, <1>4
  <2>2. Advanced = [i \in 1 .. Len(frames) |-> Advanced[i]]
    BY <2>1 DEF Advanced
  <2>3. Advanced \in [1 .. Len(frames) -> Frame]
    BY <1>4, <1>5, <2>1, <2>2
  <2> QED BY <1>1, <2>3
<1>7. Len(Advanced) = Len(frames)
  BY <1>1, <1>4, <1>6
<1> QED BY <1>1, <1>3, <1>4, <1>6, <1>7, EmptySeq

(* What a step may do to the scopes: add to the one that is read in, or    *)
(* have one more.                                                          *)
ScopesGrow(s, t) ==
  /\ IsSeq(t) /\ Len(t) >= Len(s)
  /\ \A i \in DOMAIN t : DOMAIN t[i] = {"parent", "vars", "rules"}

LEMMA ScopeAdded ==
  ASSUME Typed, NEW x, DOMAIN x = {"parent", "vars", "rules"}
  PROVE  /\ ScopesGrow(scopes, Append(scopes, x)) /\ Append(scopes, x)[1] = scopes[1]
         /\ Len(Append(scopes, x)) = Len(scopes) + 1
<1> DEFINE t == Append(scopes, x)
<1>1. /\ IsSeq(scopes) /\ Len(scopes) \in Nat /\ DOMAIN scopes = 1 .. Len(scopes)
      /\ Len(scopes) >= 1
  BY SeqFacts DEF Typed
<1>2. /\ IsSeq(t) /\ Len(t) = Len(scopes) + 1 /\ t[Len(scopes) + 1] = x
      /\ \A i \in 1 .. Len(scopes) : t[i] = scopes[i]
  BY <1>1, SeqAppended
<1>3. DOMAIN t = 1 .. Len(scopes) + 1
  BY <1>1, <1>2, SeqFacts
<1> HIDE DEF t
<1>4. \A i \in DOMAIN t : DOMAIN t[i] = {"parent", "vars", "rules"}
  <2> SUFFICES ASSUME NEW i \in DOMAIN t PROVE DOMAIN t[i] = {"parent", "vars", "rules"}
    OBVIOUS
  <2>1. CASE i = Len(scopes) + 1
    BY <1>2, <2>1
  <2>2. CASE i # Len(scopes) + 1
    <3>1. i \in DOMAIN scopes /\ t[i] = scopes[i]
      BY <1>1, <1>2, <1>3, <2>2
    <3> QED BY <3>1 DEF Typed
  <2> QED BY <2>1, <2>2
<1>5. ScopesGrow(scopes, t) /\ t[1] = scopes[1] /\ Len(t) = Len(scopes) + 1
  BY <1>1, <1>2, <1>4 DEF ScopesGrow
<1> QED BY <1>5 DEF t

LEMMA ScopeChanged ==
  ASSUME Typed, NEW e \in DOMAIN scopes, NEW t,
         DOMAIN t = DOMAIN scopes, t = [i \in DOMAIN scopes |-> t[i]],
         \A i \in DOMAIN scopes : DOMAIN t[i] = DOMAIN scopes[i]
  PROVE  ScopesGrow(scopes, t) /\ Len(t) = Len(scopes)
<1>1. IsSeq(scopes) /\ Len(scopes) \in Nat
  BY SeqFacts DEF Typed
<1>2. IsSeq(t) /\ Len(t) = Len(scopes)
  BY <1>1, SeqMapped
<1> QED BY <1>1, <1>2 DEF Typed, ScopesGrow

---------------------------------------------------------------------------
(* What is read in the first scope *)

LEMMA MainScopeKept ==
  ASSUME manifest' = manifest
  PROVE  /\ MainScope' = MainScope
         /\ \A kind : Declared(kind)' = Declared(kind)
<1>1. \A f : Statements(f)' = Statements(f)
  BY DEF Statements
<1>2. MainScope' = MainScope
  BY <1>1 DEF MainScope
<1> QED BY <1>1, <1>2 DEF Declared

LEMMA MainScopeClosed ==
  /\ "build.ninja" \in MainScope
  /\ \A f \in MainScope : \A st \in ToSet(Statements(f)) :
       st.kind = "include" =>
         /\ Len(st.file) = 1 /\ st.file[1] \in DOMAIN File => st.file[1] \in MainScope
         /\ Len(st.file) # 1 => DOMAIN File \subseteq MainScope
<1> DEFINE Files == DOMAIN File \cup {"build.ninja"}
           Names(e) == IF Len(e) = 1 THEN {e[1]} \cap DOMAIN File ELSE DOMAIN File
           Closed(S) ==
             /\ "build.ninja" \in S
             /\ \A f \in S : \A st \in ToSet(Statements(f)) :
                  st.kind = "include" => Names(st.file) \subseteq S
<1>1. MainScope = {f \in Files : \A S \in SUBSET Files : Closed(S) => f \in S}
  BY DEF MainScope
<1>2. "build.ninja" \in MainScope
  BY <1>1
<1>3. ASSUME NEW f \in MainScope, NEW st \in ToSet(Statements(f)), st.kind = "include"
      PROVE  Names(st.file) \subseteq MainScope
  <2> SUFFICES ASSUME NEW g \in Names(st.file) PROVE g \in MainScope
    OBVIOUS
  <2>1. g \in Files
    OBVIOUS
  <2>2. ASSUME NEW S \in SUBSET Files, Closed(S) PROVE g \in S
    <3>1. f \in S
      BY <1>1, <2>2
    <3>2. Names(st.file) \subseteq S
      <4> HIDE DEF Names
      <4> QED BY <1>3, <2>2, <3>1
    <3> QED BY <3>2
  <2> HIDE DEF Files, Closed, Names
  <2> QED BY <1>1, <2>1, <2>2
<1> QED BY <1>2, <1>3

(* Only files that build.ninja includes, or that these do, are read in the *)
(* first scope.                                                            *)
ReadInMain == \A i \in DOMAIN frames : frames[i].env = 1 => frames[i].file \in MainScope

LEMMA FramesStep ==
  ASSUME Typed, ReadInMain, manifest' = manifest, ScopesGrow(scopes, scopes'),
         \/ frames' = frames
         \/ frames' = Advanced
         \/ frames' = Front(frames) /\ Len(frames) > 1
  PROVE  Typed' /\ ReadInMain'
<1>1. MainScope' = MainScope
  BY MainScopeKept
<1>2. /\ frames' \in Seq(Frame) /\ frames' # << >> /\ DOMAIN frames' \subseteq DOMAIN frames
      /\ \A i \in DOMAIN frames' : /\ frames'[i].env = frames[i].env
                                   /\ frames'[i].file = frames[i].file
  <2>1. CASE frames' = frames
    BY <2>1 DEF Typed
  <2>2. CASE frames' = Advanced
    BY <2>2, FramesAdvance
  <2>3. CASE frames' = Front(frames) /\ Len(frames) > 1
    <3>1. frames \in Seq(Frame) /\ frames # << >>
      BY DEF Typed
    <3>2. /\ frames' \in Seq(Frame) /\ Len(frames') = Len(frames) - 1
          /\ \A i \in 1 .. Len(frames) - 1 : frames'[i] = frames[i]
      BY <2>3, <3>1 DEF Front
    <3> QED BY <2>3, <3>1, <3>2, EmptySeq
  <2> QED BY <2>1, <2>2, <2>3
<1>3. \A i \in DOMAIN frames : frames[i].env \in 1 .. Len(scopes)
  BY DEF Typed
<1>4. Len(scopes) \in Nat /\ Len(scopes') \in Nat /\ Len(scopes') >= Len(scopes)
      /\ Len(scopes) >= 1 /\ IsSeq(scopes')
  BY SeqFacts DEF ScopesGrow, Typed
<1>5. \A i \in DOMAIN frames' : frames'[i].env \in 1 .. Len(scopes')
  BY <1>2, <1>3, <1>4
<1>6. \A i \in DOMAIN scopes' : DOMAIN scopes'[i] = {"parent", "vars", "rules"}
  BY DEF ScopesGrow
<1>7. Frame' = Frame /\ manifest' \in Main
  BY DEF Frame, Typed
<1>8. Typed'
  BY <1>2, <1>4, <1>5, <1>6, <1>7 DEF Typed, IsSeq
<1>9. ReadInMain'
  BY <1>1, <1>2 DEF ReadInMain
<1> QED BY <1>8, <1>9

LEMMA ScopesSame == Typed => ScopesGrow(scopes, scopes)
<1> SUFFICES ASSUME Typed PROVE ScopesGrow(scopes, scopes)
  OBVIOUS
<1>1. Len(scopes) \in Nat
  BY SeqFacts DEF Typed
<1> QED BY <1>1 DEF Typed, ScopesGrow

LEMMA LeaksSame ==
  ASSUME NothingLeaks, manifest' = manifest,
         DOMAIN scopes'[1].rules = DOMAIN scopes[1].rules,
         DOMAIN scopes'[1].vars = DOMAIN scopes[1].vars
  PROVE  NothingLeaks'
BY MainScopeKept DEF NothingLeaks

ScopesKept == Typed /\ ReadInMain /\ NothingLeaks

LEMMA EdgeScopesGrow ==
  ASSUME Typed, NEW st
  PROVE  ScopesGrow(scopes, EdgeScopes(st)) /\ EdgeScopes(st)[1] = scopes[1]
<1>1. CASE st.vars = Empty
  BY <1>1, ScopesSame DEF EdgeScopes
<1>2. CASE st.vars # Empty
  <2> DEFINE x == [parent |-> Env, rules |-> Empty,
                   vars |-> [v \in DOMAIN st.vars |-> Evaluate(scopes, Env, st.vars[v])]]
  <2>1. DOMAIN x = {"parent", "vars", "rules"}
    OBVIOUS
  <2>2. EdgeScopes(st) = Append(scopes, x)
    BY <1>2 DEF EdgeScopes
  <2> HIDE DEF x
  <2> QED BY <2>1, <2>2, ScopeAdded
<1> QED BY <1>1, <1>2

LEMMA SimpleScopes ==
  ASSUME ScopesKept, ParsePool \/ ParseDefault \/ EndOfFile
  PROVE  ScopesKept'
<1>1. /\ manifest' = manifest /\ scopes' = scopes
      /\ \/ frames' = frames \/ frames' = Advanced
         \/ frames' = Front(frames) /\ Len(frames) > 1
  BY DEF ParsePool, ParseDefault, EndOfFile, Reads, Go, Refuse
<1>2. ScopesGrow(scopes, scopes')
  BY <1>1, ScopesSame DEF ScopesKept
<1> QED BY <1>1, <1>2, FramesStep, LeaksSame DEF ScopesKept

LEMMA EdgeScopesKept ==
  ASSUME ScopesKept, ParseEdge
  PROVE  ScopesKept'
<1>1. /\ manifest' = manifest
      /\ \/ scopes' = scopes /\ frames' = frames
         \/ scopes' = EdgeScopes(Statement) /\ frames' = Advanced
  BY DEF ParseEdge, Reads, Go, Refuse
<1>2. ScopesGrow(scopes, scopes') /\ scopes'[1] = scopes[1]
  BY <1>1, ScopesSame, EdgeScopesGrow DEF ScopesKept
<1> QED BY <1>1, <1>2, FramesStep, LeaksSame DEF ScopesKept

LEMMA BoundDomain ==
  ASSUME NEW f, NEW k, NEW x
  PROVE  DOMAIN Bound(f, k, x) = DOMAIN f \cup {k}
BY DEF Bound

(* A declaration that is read in the first scope is one of a file that is  *)
(* read there.                                                             *)
LEMMA DeclaredIfRead ==
  ASSUME Typed, ReadInMain, NEW kind, Reads(kind), Env = 1
  PROVE  Statement \in Declared(kind)
<1>1. /\ Len(frames) \in DOMAIN frames /\ Top = frames[Len(frames)]
      /\ Statement \in ToSet(Statements(Top.file)) /\ Statement.kind = kind
  BY TopKnown, StatementKnown
<1>2. Top.file \in MainScope
  BY <1>1 DEF ReadInMain, Env
<1> QED BY <1>1, <1>2 DEF Declared

LEMMA RuleScopesKept ==
  ASSUME ScopesKept, ParseRule
  PROVE  ScopesKept'
<1>1. manifest' = manifest /\ Reads("rule")
  BY DEF ParseRule, Reads
<1>2. CASE scopes' = scopes /\ frames' = frames
  BY <1>1, <1>2, ScopesSame, FramesStep, LeaksSame DEF ScopesKept
<1>3. CASE ~ (scopes' = scopes /\ frames' = frames)
  <2> DEFINE new == Bound(scopes[Env].rules, Statement.name, [pool |-> Statement.pool])
  <2>1. scopes' = [scopes EXCEPT ![Env].rules = new] /\ frames' = Advanced
    BY <1>3 DEF ParseRule, Refuse, Go
  <2>2. DOMAIN new = DOMAIN scopes[Env].rules \cup {Statement.name}
    BY BoundDomain
  <2> HIDE DEF new
  <2>3. /\ Env \in DOMAIN scopes /\ 1 \in DOMAIN scopes
        /\ \A i \in DOMAIN scopes : DOMAIN scopes[i] = {"parent", "vars", "rules"}
    BY TopKnown, SeqFacts DEF ScopesKept, Typed
  <2>4. /\ DOMAIN scopes' = DOMAIN scopes /\ scopes' = [i \in DOMAIN scopes |-> scopes'[i]]
        /\ \A i \in DOMAIN scopes : DOMAIN scopes'[i] = DOMAIN scopes[i]
        /\ \A i \in DOMAIN scopes : i # Env => scopes'[i] = scopes[i]
        /\ scopes'[Env].vars = scopes[Env].vars /\ scopes'[Env].rules = new
    BY <2>1, <2>3
  <2>5. ScopesGrow(scopes, scopes')
    BY <2>3, <2>4, ScopeChanged DEF ScopesKept
  <2>6. NothingLeaks'
    <3>1. CASE Env # 1
      BY <1>1, <2>3, <2>4, <3>1, LeaksSame DEF ScopesKept
    <3>2. CASE Env = 1
      <4>1. Statement \in Declared("rule")
        BY <1>1, <3>2, DeclaredIfRead DEF ScopesKept
      <4>2. Declared("rule")' = Declared("rule") /\ Declared("let")' = Declared("let")
        BY <1>1, MainScopeKept
      <4>3. /\ DOMAIN scopes'[1].rules = DOMAIN scopes[1].rules \cup {Statement.name}
            /\ DOMAIN scopes'[1].vars = DOMAIN scopes[1].vars
        BY <2>2, <2>4, <3>2
      <4> QED BY <4>1, <4>2, <4>3 DEF ScopesKept, NothingLeaks
    <3> QED BY <3>1, <3>2
  <2> QED BY <1>1, <2>1, <2>5, <2>6, FramesStep DEF ScopesKept
<1> QED BY <1>2, <1>3

LEMMA LetScopesKept ==
  ASSUME ScopesKept, ParseLet
  PROVE  ScopesKept'
<1>1. manifest' = manifest /\ Reads("let")
  BY DEF ParseLet, Reads
<1> DEFINE new == Bound(scopes[Env].vars, Statement.var,
                        Evaluate(scopes, Env, Statement.val))
<1>2. scopes' = [scopes EXCEPT ![Env].vars = new] /\ frames' = Advanced
  BY DEF ParseLet, Go
<1>3. DOMAIN new = DOMAIN scopes[Env].vars \cup {Statement.var}
  BY BoundDomain
<1> HIDE DEF new
<1>4. /\ Env \in DOMAIN scopes /\ 1 \in DOMAIN scopes
      /\ \A i \in DOMAIN scopes : DOMAIN scopes[i] = {"parent", "vars", "rules"}
  BY TopKnown, SeqFacts DEF ScopesKept, Typed
<1>5. /\ DOMAIN scopes' = DOMAIN scopes /\ scopes' = [i \in DOMAIN scopes |-> scopes'[i]]
      /\ \A i \in DOMAIN scopes : DOMAIN scopes'[i] = DOMAIN scopes[i]
      /\ \A i \in DOMAIN scopes : i # Env => scopes'[i] = scopes[i]
      /\ scopes'[Env].rules = scopes[Env].rules /\ scopes'[Env].vars = new
  BY <1>2, <1>4
<1>6. ScopesGrow(scopes, scopes')
  BY <1>4, <1>5, ScopeChanged DEF ScopesKept
<1>7. NothingLeaks'
  <2>1. CASE Env # 1
    BY <1>1, <1>4, <1>5, <2>1, LeaksSame DEF ScopesKept
  <2>2. CASE Env = 1
    <3>1. Statement \in Declared("let")
      BY <1>1, <2>2, DeclaredIfRead DEF ScopesKept
    <3>2. Declared("rule")' = Declared("rule") /\ Declared("let")' = Declared("let")
      BY <1>1, MainScopeKept
    <3>3. /\ DOMAIN scopes'[1].vars = DOMAIN scopes[1].vars \cup {Statement.var}
          /\ DOMAIN scopes'[1].rules = DOMAIN scopes[1].rules
      BY <1>3, <1>5, <2>2
    <3> QED BY <3>1, <3>2, <3>3 DEF ScopesKept, NothingLeaks
  <2> QED BY <2>1, <2>2
<1> QED BY <1>1, <1>2, <1>6, <1>7, FramesStep DEF ScopesKept

LEMMA IncludeScopesKept ==
  ASSUME ScopesKept, ParseFileInclude
  PROVE  ScopesKept'
<1> DEFINE name == Evaluate(scopes, Env, Statement.file)
           subninja == Statement.kind = "subninja"
           env == IF subninja THEN Len(scopes) + 1 ELSE Env
<1>1. /\ manifest' = manifest /\ pc = "parsing"
      /\ Reads("include") \/ Reads("subninja")
      /\ Statement.kind \in {"include", "subninja"}
  BY DEF ParseFileInclude, Reads
<1>2. CASE scopes' = scopes /\ frames' = frames
  BY <1>1, <1>2, ScopesSame, FramesStep, LeaksSame DEF ScopesKept
<1>3. CASE ~ (scopes' = scopes /\ frames' = frames)
  <2> DEFINE f == [file |-> name, at |-> 1, env |-> env]
             x == [parent |-> Env, vars |-> Empty, rules |-> Empty]
  <2>1. /\ name \in DOMAIN File
        /\ scopes' = IF subninja THEN Append(scopes, x) ELSE scopes
        /\ frames' = Append(Advanced, f)
    BY <1>3 DEF ParseFileInclude, Refuse, SubScope
  <2>2. /\ Env \in 1 .. Len(scopes) /\ Len(frames) \in DOMAIN frames
        /\ Top = frames[Len(frames)] /\ Len(scopes) \in Nat /\ Len(scopes) >= 1
    BY TopKnown, SeqFacts DEF ScopesKept, Typed
  <2>3. /\ ScopesGrow(scopes, scopes') /\ scopes'[1] = scopes[1]
        /\ env \in 1 .. Len(scopes') /\ Len(scopes') \in Nat /\ Len(scopes) <= Len(scopes')
    <3>1. DOMAIN x = {"parent", "vars", "rules"}
      OBVIOUS
    <3> HIDE DEF x
    <3>2. CASE subninja
      <4>1. scopes' = Append(scopes, x)
        BY <2>1, <3>2
      <4>2. /\ ScopesGrow(scopes, scopes') /\ scopes'[1] = scopes[1]
            /\ Len(scopes') = Len(scopes) + 1
        BY <3>1, <4>1, ScopeAdded DEF ScopesKept
      <4> QED BY <2>2, <3>2, <4>2
    <3>3. CASE ~ subninja
      <4>1. scopes' = scopes
        BY <2>1, <3>3
      <4> QED BY <2>2, <3>3, <4>1, ScopesSame DEF ScopesKept
    <3> QED BY <3>2, <3>3
  <2>4. ASSUME env = 1 PROVE name \in MainScope
    <3>1. ~ subninja /\ Env = 1
      BY <2>2, <2>4
    <3>2. Reads("include") /\ Statement.kind = "include"
      BY <1>1, <3>1 DEF Reads
    <3>3. Statement \in ToSet(Statements(Top.file))
      BY <3>2, StatementKnown DEF ScopesKept
    <3>4. Top.file \in MainScope
      BY <2>2, <3>1 DEF ScopesKept, ReadInMain, Env
    <3>5. /\ Len(Statement.file) = 1 /\ Statement.file[1] \in DOMAIN File
               => Statement.file[1] \in MainScope
          /\ Len(Statement.file) # 1 => DOMAIN File \subseteq MainScope
      BY <3>2, <3>3, <3>4, MainScopeClosed
    <3> QED BY <2>1, <3>5 DEF Evaluate
  <2>5. f \in Frame /\ f.env = env /\ f.file = name
    <3>1. env \in Nat \ {0}
      BY <2>2
    <3> HIDE DEF env, name
    <3> QED BY <2>1, <3>1 DEF Frame
  <2> HIDE DEF f, env, name, x, subninja
  <2>6. /\ Advanced \in Seq(Frame) /\ DOMAIN Advanced = DOMAIN frames
        /\ Len(Advanced) = Len(frames)
        /\ \A i \in DOMAIN frames : /\ Advanced[i].env = frames[i].env
                                    /\ Advanced[i].file = frames[i].file
    BY FramesAdvance DEF ScopesKept
  <2>7. /\ frames' \in Seq(Frame) /\ Len(frames') = Len(frames) + 1 /\ frames' # << >>
        /\ \A i \in DOMAIN frames' : \/ i \in DOMAIN frames /\ frames'[i] = Advanced[i]
                                     \/ frames'[i] = f
    <3>1. /\ frames' \in Seq(Frame) /\ Len(frames') = Len(frames) + 1
          /\ \A i \in 1 .. Len(Advanced) : frames'[i] = Advanced[i]
          /\ frames'[Len(Advanced) + 1] = f
      BY <2>1, <2>5, <2>6, AppendProperties
    <3>2. DOMAIN frames = 1 .. Len(frames) /\ Len(frames) \in Nat
      BY DEF ScopesKept, Typed
    <3> QED BY <2>6, <3>1, <3>2, EmptySeq
  <2>8. \A i \in DOMAIN frames' : frames'[i].env \in 1 .. Len(scopes')
    <3>1. \A i \in DOMAIN frames : frames[i].env \in 1 .. Len(scopes)
      BY DEF ScopesKept, Typed
    <3> QED BY <2>2, <2>3, <2>5, <2>6, <2>7, <3>1
  <2>9. Typed'
    <3>1. /\ IsSeq(scopes') /\ Len(scopes') >= 1 /\ manifest' \in Main
          /\ \A i \in DOMAIN scopes' : DOMAIN scopes'[i] = {"parent", "vars", "rules"}
      BY <1>1, <2>2, <2>3 DEF ScopesGrow, ScopesKept, Typed
    <3>2. Frame' = Frame
      BY DEF Frame
    <3> QED BY <2>7, <2>8, <3>1, <3>2 DEF Typed, IsSeq
  <2>10. ReadInMain'
    <3>1. MainScope' = MainScope
      BY <1>1, MainScopeKept
    <3> QED BY <2>4, <2>5, <2>6, <2>7, <3>1 DEF ScopesKept, ReadInMain
  <2>11. NothingLeaks'
    BY <1>1, <2>3, LeaksSame DEF ScopesKept
  <2> QED BY <2>9, <2>10, <2>11 DEF ScopesKept
<1> QED BY <1>2, <1>3

LEMMA ScopesKeptAtFirst == Init => ScopesKept
<1> SUFFICES ASSUME Init PROVE ScopesKept
  OBVIOUS
<1>1. Typed
  BY TypedAtFirst
<1>2. ReadInMain
  <2>1. frames = <<[file |-> "build.ninja", at |-> 1, env |-> 1]>>
    BY DEF Init
  <2>2. \A i \in DOMAIN frames : frames[i].file = "build.ninja"
    BY <2>1
  <2> QED BY <2>2, MainScopeClosed DEF ReadInMain
<1>3. NothingLeaks
  <2>1. scopes[1].vars = Empty /\ scopes[1].rules = [phony |-> [pool |-> << >>]]
    BY DEF Init
  <2>2. DOMAIN scopes[1].vars = {} /\ DOMAIN scopes[1].rules = {"phony"}
    BY <2>1 DEF Empty
  <2> QED BY <2>2 DEF NothingLeaks
<1> QED BY <1>1, <1>2, <1>3 DEF ScopesKept

LEMMA ScopesKeptStep == ScopesKept /\ [Next]_vars => ScopesKept'
<1> SUFFICES ASSUME ScopesKept, [Next]_vars PROVE ScopesKept'
  OBVIOUS
<1>1. CASE ParsePool \/ ParseDefault \/ EndOfFile
  BY <1>1, SimpleScopes
<1>2. CASE ParseRule
  BY <1>2, RuleScopesKept
<1>3. CASE ParseLet
  BY <1>3, LetScopesKept
<1>4. CASE ParseEdge
  BY <1>4, EdgeScopesKept
<1>5. CASE ParseFileInclude
  BY <1>5, IncludeScopesKept
<1>6. CASE UNCHANGED vars
  <2>1. manifest' = manifest /\ scopes' = scopes /\ frames' = frames
    BY <1>6 DEF vars
  <2> QED BY <2>1, ScopesSame, FramesStep, LeaksSame DEF ScopesKept
<1> QED BY <1>1, <1>2, <1>3, <1>4, <1>5, <1>6 DEF Next

(* The rules and the variables of the first scope are those of build.ninja *)
(* and of the files that are included from there, whatever the files that  *)
(* subninja reads declare.                                                 *)
THEOREM NothingLeaksOut == Spec => []NothingLeaks
<1>1. ScopesKept => NothingLeaks
  BY DEF ScopesKept
<1> QED BY <1>1, ScopesKeptAtFirst, ScopesKeptStep, PTL DEF Spec

---------------------------------------------------------------------------
(* The graph *)

EdgesTyped ==
  /\ IsSeq(edges)
  /\ \A k \in DOMAIN edges :
       /\ IsSeq(edges[k].outs) /\ IsSeq(edges[k].ins) /\ IsSeq(edges[k].written)
       /\ ToSet(edges[k].ins) \subseteq ToSet(edges[k].written)
       /\ ToSet(edges[k].written) \subseteq DOMAIN outEdges

NodesTyped ==
  /\ \A n \in DOMAIN inEdge : inEdge[n] \in DOMAIN edges
  /\ \A n \in DOMAIN outEdges :
       IsSeq(outEdges[n]) /\ ToSet(outEdges[n]) \subseteq DOMAIN edges

(* The first two directions of GraphConsistent, and the third.             *)
Producers ==
  /\ \A e \in DOMAIN edges :
       /\ IsInjective(edges[e].outs)
       /\ \A n \in ToSet(edges[e].outs) : n \in DOMAIN inEdge /\ inEdge[n] = e
  /\ \A n \in DOMAIN inEdge : n \in ToSet(edges[inEdge[n]].outs)

(* What makes n list the edge e as a consumer.                             *)
Consumes(e, n) ==
  \/ n \in ToSet(e.ins)
  \/ n \in ToSet(e.written) /\ e.outs = <<n>> /\ e.rule = "phony"

Consumers ==
  \A n \in DOMAIN outEdges, e \in DOMAIN edges :
    e \in ToSet(outEdges[n]) <=> Consumes(edges[e], n)

Graph == EdgesTyped /\ NodesTyped /\ Producers /\ Consumers /\ KindsKept

LEMMA GraphIsConsistent == Graph => GraphConsistent
<1> SUFFICES ASSUME Graph PROVE GraphConsistent
  OBVIOUS
<1>1. ASSUME NEW n \in DOMAIN outEdges, NEW e \in DOMAIN edges
      PROVE  Contains(outEdges[n], e) <=>
               \/ Contains(edges[e].ins, n)
               \/ Contains(edges[e].written, n) /\ edges[e].outs = <<n>>
                    /\ edges[e].rule = "phony"
  <2>1. IsSeq(outEdges[n]) /\ IsSeq(edges[e].ins) /\ IsSeq(edges[e].written)
    BY DEF Graph, EdgesTyped, NodesTyped
  <2>2. /\ Contains(outEdges[n], e) <=> e \in ToSet(outEdges[n])
        /\ Contains(edges[e].ins, n) <=> n \in ToSet(edges[e].ins)
        /\ Contains(edges[e].written, n) <=> n \in ToSet(edges[e].written)
    BY <2>1, SeqContains
  <2> QED BY <2>2 DEF Graph, Consumers, Consumes
<1> QED BY <1>1 DEF Graph, Producers, GraphConsistent

---------------------------------------------------------------------------
(* A build statement *)

LEMMA NodesAreSeq ==
  ASSUME NEW st, NEW evals, IsSeq(evals)
  PROVE  IsSeq(Nodes(st, evals))
<1> DEFINE f == Nodes(st, evals)
<1>1. f = [i \in DOMAIN evals |-> f[i]]
  BY DEF Nodes
<1> HIDE DEF f
<1>2. IsSeq(f)
  BY <1>1, SeqMapped
<1> QED BY <1>2 DEF f

(* What ParseEdge does when it takes the statement.                        *)
LEMMA EdgeParsed ==
  ASSUME Typed, ParseEdge, ~ UNCHANGED <<edges, inEdge, outEdges>>
  PROVE  \E outs, ins, nodes :
           /\ IsSeq(outs) /\ IsSeq(ins) /\ outs # << >> /\ ~ AddOutFails(outs)
           /\ ToSet(outs) \cup ToSet(ins) \subseteq nodes
           /\ edges' = Append(edges, ParsedEdge(Statement, ins, outs))
           /\ inEdge' = [n \in DOMAIN inEdge \cup ToSet(outs) |->
                           IF n \in ToSet(outs) THEN Len(edges) + 1 ELSE inEdge[n]]
           /\ outEdges' = AddIns(Len(edges) + 1, ins, nodes)
<1> DEFINE outs == Nodes(Statement, Statement.outs)
           ins == Nodes(Statement, Statement.ins)
           vals == Nodes(Statement, Statement.validations)
           all == outs \o ins \o vals
<1>1. Reads("build")
  BY DEF ParseEdge
<1>2. IsSeq(outs) /\ IsSeq(ins) /\ IsSeq(vals)
  BY <1>1, StatementKnown, NodesAreSeq DEF Reads
<1>3. /\ outs # << >> /\ ~ AddOutFails(outs)
      /\ edges' = Append(edges, ParsedEdge(Statement, ins, outs))
      /\ inEdge' = [n \in DOMAIN inEdge \cup ToSet(outs) |->
                      IF n \in ToSet(outs) THEN Len(edges) + 1 ELSE inEdge[n]]
      /\ outEdges' = AddIns(Len(edges) + 1, ins, ToSet(all))
  BY DEF ParseEdge, Refuse, graph
<1> HIDE DEF outs, ins, vals
<1>4. IsSeq(outs \o ins) /\ ToSet(outs \o ins) = ToSet(outs) \cup ToSet(ins)
  BY <1>2, SeqConcat
<1>5. ToSet(all) = ToSet(outs) \cup ToSet(ins) \cup ToSet(vals)
  BY <1>2, <1>4, SeqConcat
<1> QED BY <1>2, <1>3, <1>5

(* What the edge keeps of its inputs: all but the name of a phony target.  *)
LEMMA KeptFacts ==
  ASSUME NEW st, NEW ins, IsSeq(ins), NEW outs, IsSeq(outs), outs # << >>
  PROVE  /\ IsSeq(Kept(st, ins, outs)) /\ ToSet(Kept(st, ins, outs)) \subseteq ToSet(ins)
         /\ \A n \in ToSet(ins) :
              \/ n \in ToSet(Kept(st, ins, outs))
              \/ outs = <<n>> /\ st.rule = "phony"
<1>1. CASE ~ NamesItself(st, ins, outs)
  BY <1>1 DEF Kept
<1>2. CASE NamesItself(st, ins, outs)
  <2> DEFINE h == Head(outs)
  <2>1. Kept(st, ins, outs) = Without(ins, {h}) /\ Len(outs) = 1 /\ st.rule = "phony"
    BY <1>2 DEF Kept, NamesItself
  <2>2. outs = <<h>>
    <3>1. outs \in Seq(ToSet(outs))
      BY DEF IsSeq
    <3> QED BY <2>1, <3>1
  <2> HIDE DEF h
  <2>3. /\ IsSeq(Without(ins, {h}))
        /\ ToSet(Without(ins, {h})) = ToSet(ins) \ {h}
    BY WithoutFacts
  <2> QED BY <2>1, <2>2, <2>3
<1> QED BY <1>1, <1>2

(* An input keeps its kind.                                                *)
KindKept(e) ==
  LET dropped == IF e.ins = e.written THEN {}
                 ELSE {Head(e.outs)} \X {"explicit", "implicit", "order-only"}
  IN  \/ Kinds(e, e.ins) = Without(Kinds(e, e.written), dropped)
      \/ <<Head(e.outs), "order-only">> \in ToSet(Kinds(e, e.written))

LEMMA KindsOfParsed ==
  ASSUME NEW st, st.implicit \in Nat, st.orderOnly \in Nat,
         NEW ins, IsSeq(ins), NEW outs
  PROVE  KindKept(ParsedEdge(st, ins, outs))
<1> DEFINE e == ParsedEdge(st, ins, outs)
           h == Head(outs)
<1>1. /\ e.ins = Kept(st, ins, outs) /\ e.written = ins /\ e.outs = outs
      /\ e.implicit = st.implicit /\ e.orderOnly = st.orderOnly
  BY DEF ParsedEdge
<1> SUFFICES KindKept(e)
  OBVIOUS
<1> HIDE DEF e
<1>2. CASE e.ins = e.written
  <2>1. IsSeq(Kinds(e, ins))
    BY KindsTyped
  <2>2. Without(Kinds(e, ins), {}) = Kinds(e, ins)
    BY <2>1, WithoutFacts
  <2> QED BY <1>1, <1>2, <2>2 DEF KindKept
<1>3. CASE e.ins # e.written
  <2>1. st.implicit = 0 /\ e.ins = Without(ins, {h})
    BY <1>1, <1>3 DEF Kept, NamesItself
  <2>2. CASE <<h, "order-only">> \in ToSet(Kinds(e, ins))
    BY <1>1, <2>2 DEF KindKept
  <2>3. CASE <<h, "order-only">> \notin ToSet(Kinds(e, ins))
    <3>1. Kinds(e, Without(ins, {h})) = Without(Kinds(e, ins), {h} \X KindNames)
      BY <1>1, <2>1, <2>3, KindsWithout
    <3> QED BY <1>1, <1>3, <2>1, <3>1 DEF KindKept, KindNames
  <2> QED BY <2>2, <2>3
<1> QED BY <1>2, <1>3

LEMMA OutEdgesAdded ==
  ASSUME NodesTyped, NEW i, NEW ins, IsSeq(ins), NEW nodes, NEW n \in DOMAIN outEdges \cup nodes
  PROVE  /\ IsSeq(AddIns(i, ins, nodes)[n])
         /\ ToSet(AddIns(i, ins, nodes)[n]) =
              (IF n \in DOMAIN outEdges THEN ToSet(outEdges[n]) ELSE {})
                \cup (IF n \in ToSet(ins) THEN {i} ELSE {})
<1> DEFINE a == IF n \in DOMAIN outEdges THEN outEdges[n] ELSE << >>
           b == IF Contains(ins, n) THEN <<i>> ELSE << >>
<1>1. AddIns(i, ins, nodes)[n] = a \o b
  BY DEF AddIns
<1>2. IsSeq(a) /\ ToSet(a) = IF n \in DOMAIN outEdges THEN ToSet(outEdges[n]) ELSE {}
  BY SeqEmpty DEF NodesTyped
<1>3. IsSeq(b) /\ ToSet(b) = IF n \in ToSet(ins) THEN {i} ELSE {}
  BY SeqEmpty, SeqOne, SeqContains
<1> HIDE DEF a, b
<1> QED BY <1>1, <1>2, <1>3, SeqConcat

LEMMA EdgeGraph ==
  ASSUME Typed, Graph, ParseEdge
  PROVE  Graph'
<1>1. CASE UNCHANGED <<edges, inEdge, outEdges>>
  BY <1>1 DEF Graph, EdgesTyped, NodesTyped, Producers, Consumers, KindsKept, IsSeq
<1>2. CASE ~ UNCHANGED <<edges, inEdge, outEdges>>
  <2>1. PICK outs, ins, nodes :
           /\ IsSeq(outs) /\ IsSeq(ins) /\ outs # << >> /\ ~ AddOutFails(outs)
           /\ ToSet(outs) \cup ToSet(ins) \subseteq nodes
           /\ edges' = Append(edges, ParsedEdge(Statement, ins, outs))
           /\ inEdge' = [n \in DOMAIN inEdge \cup ToSet(outs) |->
                           IF n \in ToSet(outs) THEN Len(edges) + 1 ELSE inEdge[n]]
           /\ outEdges' = AddIns(Len(edges) + 1, ins, nodes)
    BY <1>2, EdgeParsed
  <2> DEFINE e == ParsedEdge(Statement, ins, outs)
             last == Len(edges) + 1
  <2>2. IsSeq(edges) /\ Len(edges) \in Nat /\ DOMAIN edges = 1 .. Len(edges)
    BY SeqFacts DEF Graph, EdgesTyped
  <2>3. /\ IsSeq(edges') /\ edges'[last] = e
        /\ \A k \in DOMAIN edges : edges'[k] = edges[k]
        /\ DOMAIN edges' = DOMAIN edges \cup {last} /\ last \notin DOMAIN edges
    <3>1. /\ IsSeq(edges') /\ Len(edges') = last /\ edges'[last] = e
          /\ \A k \in 1 .. Len(edges) : edges'[k] = edges[k]
      BY <2>1, <2>2, SeqAppended
    <3>2. DOMAIN edges' = 1 .. last
      BY <3>1, SeqFacts
    <3> HIDE DEF e
    <3> QED BY <2>2, <3>1, <3>2
  <2>4. /\ e.outs = outs /\ e.written = ins /\ e.ins = Kept(Statement, ins, outs)
        /\ e.rule = Statement.rule
    BY DEF ParsedEdge
  <2>5. /\ IsSeq(e.ins) /\ ToSet(e.ins) \subseteq ToSet(ins)
        /\ \A n \in ToSet(ins) : \/ n \in ToSet(e.ins)
                                 \/ outs = <<n>> /\ e.rule = "phony"
    BY <2>1, <2>4, KeptFacts
  <2>6. KindKept(e)
    <3>1. Reads("build")
      BY DEF ParseEdge
    <3>2. Statement.implicit \in Nat /\ Statement.orderOnly \in Nat
      BY <3>1, StatementKnown DEF Reads
    <3> QED BY <2>1, <3>2, KindsOfParsed
  <2> HIDE DEF e, last
  <2>7. /\ DOMAIN outEdges' = DOMAIN outEdges \cup nodes
        /\ \A n \in DOMAIN outEdges' :
             /\ IsSeq(outEdges'[n])
             /\ ToSet(outEdges'[n]) =
                  (IF n \in DOMAIN outEdges THEN ToSet(outEdges[n]) ELSE {})
                    \cup (IF n \in ToSet(ins) THEN {last} ELSE {})
    <3>1. DOMAIN outEdges' = DOMAIN outEdges \cup nodes
      BY <2>1 DEF AddIns
    <3>2. NodesTyped /\ outEdges' = AddIns(last, ins, nodes)
      BY <2>1 DEF Graph, last
    <3>3. \A n \in DOMAIN outEdges \cup nodes :
            /\ IsSeq(AddIns(last, ins, nodes)[n])
            /\ ToSet(AddIns(last, ins, nodes)[n]) =
                 (IF n \in DOMAIN outEdges THEN ToSet(outEdges[n]) ELSE {})
                   \cup (IF n \in ToSet(ins) THEN {last} ELSE {})
      <4> SUFFICES ASSUME NEW n \in DOMAIN outEdges \cup nodes
                   PROVE  /\ IsSeq(AddIns(last, ins, nodes)[n])
                          /\ ToSet(AddIns(last, ins, nodes)[n]) =
                               (IF n \in DOMAIN outEdges THEN ToSet(outEdges[n]) ELSE {})
                                 \cup (IF n \in ToSet(ins) THEN {last} ELSE {})
        OBVIOUS
      <4>1. IsSeq(ins) /\ NodesTyped
        BY <2>1, <3>2
      <4> QED BY <4>1, OutEdgesAdded
    <3> QED BY <3>1, <3>2, <3>3
  <2>8. /\ DOMAIN inEdge' = DOMAIN inEdge \cup ToSet(outs)
        /\ \A n \in ToSet(outs) : inEdge'[n] = last
        /\ \A n \in DOMAIN inEdge : n \notin ToSet(outs) => inEdge'[n] = inEdge[n]
    BY <2>1 DEF last
  <2>9. \A n \in ToSet(outs) : n \notin DOMAIN inEdge
    BY <2>1, SeqFacts DEF AddOutFails
  <2>10. EdgesTyped'
    <3>1. ASSUME NEW k \in DOMAIN edges'
          PROVE  /\ IsSeq(edges'[k].outs) /\ IsSeq(edges'[k].ins) /\ IsSeq(edges'[k].written)
                 /\ ToSet(edges'[k].ins) \subseteq ToSet(edges'[k].written)
                 /\ ToSet(edges'[k].written) \subseteq DOMAIN outEdges'
      <4>1. CASE k = last
        BY <2>1, <2>3, <2>4, <2>5, <2>7, <4>1
      <4>2. CASE k # last
        <5>1. k \in DOMAIN edges /\ edges'[k] = edges[k]
          BY <2>3, <3>1, <4>2
        <5> QED BY <2>7, <5>1 DEF Graph, EdgesTyped
      <4> QED BY <4>1, <4>2
    <3> QED BY <2>3, <3>1 DEF EdgesTyped, IsSeq
  <2>11. NodesTyped'
    <3>1. \A n \in DOMAIN inEdge' : inEdge'[n] \in DOMAIN edges'
      BY <2>3, <2>8 DEF Graph, NodesTyped
    <3>2. \A n \in DOMAIN outEdges' : ToSet(outEdges'[n]) \subseteq DOMAIN edges'
      BY <2>3, <2>7 DEF Graph, NodesTyped
    <3> QED BY <2>7, <3>1, <3>2 DEF NodesTyped, IsSeq
  <2>12. Producers'
    <3>1. IsInjective(outs)
      <4>1. DOMAIN outs = 1 .. Len(outs) /\ Len(outs) \in Nat
        BY <2>1, SeqFacts
      <4>2. \A i \in DOMAIN outs : \A j \in 1 .. i - 1 : outs[i] # outs[j]
        BY <2>1 DEF AddOutFails
      <4>3. \A i, j \in DOMAIN outs : i # j => outs[i] # outs[j]
        BY <4>1, <4>2
      <4> QED BY <4>3 DEF IsInjective
    <3>2. ASSUME NEW k \in DOMAIN edges'
          PROVE  /\ IsInjective(edges'[k].outs)
                 /\ \A n \in ToSet(edges'[k].outs) : n \in DOMAIN inEdge' /\ inEdge'[n] = k
      <4>1. CASE k = last
        BY <2>3, <2>4, <2>8, <3>1, <4>1
      <4>2. CASE k # last
        <5>1. k \in DOMAIN edges /\ edges'[k] = edges[k]
          BY <2>3, <3>2, <4>2
        <5> QED BY <2>8, <2>9, <5>1 DEF Graph, Producers
      <4> QED BY <4>1, <4>2
    <3>3. ASSUME NEW n \in DOMAIN inEdge' PROVE n \in ToSet(edges'[inEdge'[n]].outs)
      <4>1. CASE n \in ToSet(outs)
        BY <2>3, <2>4, <2>8, <4>1
      <4>2. CASE n \notin ToSet(outs)
        <5>1. n \in DOMAIN inEdge /\ inEdge'[n] = inEdge[n]
          BY <2>8, <3>3, <4>2
        <5>2. edges'[inEdge'[n]] = edges[inEdge[n]]
          BY <2>3, <5>1 DEF Graph, NodesTyped
        <5> QED BY <5>1, <5>2 DEF Graph, Producers
      <4> QED BY <4>1, <4>2
    <3> QED BY <3>2, <3>3 DEF Producers, IsInjective, ToSet
  <2>13. Consumers'
    <3>1. ASSUME NEW n \in DOMAIN outEdges', NEW k \in DOMAIN edges'
          PROVE  k \in ToSet(outEdges'[n]) <=> Consumes(edges'[k], n)
      <4>1. CASE k = last
        <5>1. n \in DOMAIN outEdges => last \notin ToSet(outEdges[n])
          BY <2>3 DEF Graph, NodesTyped
        <5>2. last \in ToSet(outEdges'[n]) <=> n \in ToSet(ins)
          BY <2>7, <5>1
        <5>3. Consumes(e, n) <=> n \in ToSet(ins)
          BY <2>4, <2>5 DEF Consumes
        <5> QED BY <2>3, <4>1, <5>2, <5>3
      <4>2. CASE k # last
        <5>1. k \in DOMAIN edges /\ edges'[k] = edges[k]
          BY <2>3, <3>1, <4>2
        <5>2. CASE n \in DOMAIN outEdges
          BY <2>7, <4>2, <5>1, <5>2 DEF Graph, Consumers
        <5>3. CASE n \notin DOMAIN outEdges
          <6>1. k \notin ToSet(outEdges'[n])
            BY <2>7, <4>2, <5>3
          <6>2. n \notin ToSet(edges[k].ins) /\ n \notin ToSet(edges[k].written)
            BY <5>1, <5>3 DEF Graph, EdgesTyped
          <6> QED BY <5>1, <6>1, <6>2 DEF Consumes
        <5> QED BY <5>2, <5>3
      <4> QED BY <4>1, <4>2
    <3> QED BY <3>1 DEF Consumers, Consumes, ToSet
  <2>14. KindsKept'
    <3>1. ASSUME NEW k \in DOMAIN edges' PROVE KindKept(edges'[k])
      <4>1. CASE k = last
        BY <2>3, <2>6, <4>1
      <4>2. CASE k # last
        <5>1. k \in DOMAIN edges /\ edges'[k] = edges[k]
          BY <2>3, <3>1, <4>2
        <5> QED BY <5>1 DEF Graph, KindsKept, KindKept
      <4> QED BY <4>1, <4>2
    <3> QED BY <3>1 DEF KindsKept, KindKept
  <2> QED BY <2>10, <2>11, <2>12, <2>13, <2>14 DEF Graph
<1> QED BY <1>1, <1>2

LEMMA GraphAtFirst == Init => Graph
<1> SUFFICES ASSUME Init PROVE Graph
  OBVIOUS
<1>1. edges = << >> /\ inEdge = Empty /\ outEdges = Empty
  BY DEF Init
<1>2. IsSeq(edges) /\ DOMAIN edges = {} /\ DOMAIN inEdge = {} /\ DOMAIN outEdges = {}
  BY <1>1, SeqEmpty DEF Empty
<1> QED BY <1>2
     DEF Graph, EdgesTyped, NodesTyped, Producers, Consumers, KindsKept

LEMMA GraphStep == Typed /\ Graph /\ [Next]_vars => Graph'
<1> SUFFICES ASSUME Typed, Graph, [Next]_vars PROVE Graph'
  OBVIOUS
<1>1. CASE ParseEdge
  BY <1>1, EdgeGraph
<1>2. CASE ~ ParseEdge
  <2>1. UNCHANGED <<edges, inEdge, outEdges>>
    BY <1>2 DEF Next, vars, graph, ParsePool, ParseRule, ParseLet, ParseDefault,
                ParseFileInclude, EndOfFile, Refuse
  <2> QED BY <2>1 DEF Graph, EdgesTyped, NodesTyped, Producers, Consumers, KindsKept, IsSeq
<1> QED BY <1>1, <1>2

LEMMA GraphAlways == Spec => [](ScopesKept /\ Graph)
<1>1. Init => ScopesKept /\ Graph
  BY ScopesKeptAtFirst, GraphAtFirst
<1>2. ScopesKept /\ Graph /\ [Next]_vars => ScopesKept' /\ Graph'
  BY ScopesKeptStep, GraphStep DEF ScopesKept
<1> QED BY <1>1, <1>2, PTL DEF Spec

(* A node has one producer, and the two directions of the graph agree, in  *)
(* whatever order the statements come and however paths are spelled.       *)
THEOREM GraphAgrees == Spec => []GraphConsistent
<1>1. Graph => GraphConsistent
  BY GraphIsConsistent
<1> QED BY <1>1, GraphAlways, PTL

(* Every input stays explicit, implicit or order-only, as it was written,  *)
(* also when a phony target that names itself loses one.                   *)
THEOREM KindsStay == Spec => []KindsKept
<1>1. Graph => KindsKept
  BY DEF Graph
<1> QED BY <1>1, GraphAlways, PTL
=============================================================================
