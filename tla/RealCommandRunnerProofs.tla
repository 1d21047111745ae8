---------------------- MODULE RealCommandRunnerProofs ----------------------
(***************************************************************************)
(* Theorems of RealCommandRunner, for every number of processes, every -j  *)
(* and every capacity of the channel.                                      *)
(***************************************************************************)
EXTENDS RealCommandRunner, SequenceLemmas

---------------------------------------------------------------------------
(* The inductive invariant *)

(* The subprocess in hand: one just started, filed nowhere yet, or one     *)
(* taken from finishedQ.  The build loop waits only with something pending.*)
InHand ==
  /\ IF pc \in {"added", "finish"} THEN current \in Process ELSE current = NoProcess
  /\ pc = "added" => /\ current \notin edgeOf \cup ToSet(running)
                     /\ returned[current] = 0
                     /\ process[current] # "new"
  /\ pc \in {"next", "dowork", "finish"} => pending > 0

(* A subprocess that was never started is nowhere, one whose edge is in    *)
(* the map has not been given back, and one with a notice has ended.       *)
Fresh ==
  /\ \A p \in Process : process[p] = "new" =>
       p \notin edgeOf \cup ToSet(running) /\ returned[p] = 0
  /\ \A p \in edgeOf : returned[p] = 0
  /\ \A p \in ToSet(finishCh) : process[p] = "ended"

(* The running list holds every process that is alive, each once, and is   *)
(* within the limit.                                                       *)
Filed ==
  ~Stopped =>
    /\ \A i, j \in DOMAIN running : running[i] = running[j] => i = j
    /\ IF pc = "added"
       THEN Len(running) < Parallelism /\ Alive \subseteq ToSet(running) \cup {current}
       ELSE Len(running) <= Parallelism /\ Alive \subseteq ToSet(running)

(* The running list Clear is about to go through holds every process that  *)
(* is alive.                                                               *)
ClearSees == pc = "clear" => Alive \subseteq ToSet(running)

RInv ==
  /\ TypeOK /\ JobsBounded /\ Accounted /\ PendingCount /\ ClearSees /\ NoneSpared
  /\ InHand /\ Fresh /\ Filed

---------------------------------------------------------------------------
(* Sets of processes *)

(* Any set of processes can be counted. *)
LEMMA ProcessesFinite ==
  ASSUME NEW S \in SUBSET Process
  PROVE  IsFiniteSet(S) /\ Cardinality(S) \in Nat
BY RunnerConstants, FS_Subset, FS_CardinalityType

(* A set of processes that are on a list, but for the one in hand, is no   *)
(* larger than the list and that one.                                      *)
LEMMA OnList ==
  ASSUME NEW S \in SUBSET Process, NEW s \in Seq(Process), NEW c,
         S \subseteq ToSet(s) \cup {c}
  PROVE  /\ Cardinality(S) <= Len(s) + 1
         /\ S \subseteq ToSet(s) => Cardinality(S) <= Len(s)
<1> DEFINE T == ToSet(s)
<1>1. IsFiniteSet(T) /\ Cardinality(T) <= Len(s)
  BY ToSetFinite
<1>2. Cardinality(T) \in Nat /\ Cardinality(S) \in Nat /\ Len(s) \in Nat
  BY <1>1, ProcessesFinite, FS_CardinalityType
<1> HIDE DEF T
<1>3. /\ IsFiniteSet(T \cup {c})
      /\ Cardinality(T \cup {c}) = IF c \in T THEN Cardinality(T) ELSE Cardinality(T) + 1
  BY <1>1, FS_AddElement
<1>4. S \in SUBSET (T \cup {c})
  BY DEF T
<1>5. Cardinality(S) <= Cardinality(T \cup {c})
  BY <1>3, <1>4, FS_Subset
<1>6. S \subseteq T => Cardinality(S) <= Cardinality(T)
  BY <1>1, FS_Subset
<1> QED BY <1>1, <1>2, <1>3, <1>5, <1>6 DEF T

(* A step that starts nothing keeps -j. *)
LEMMA NoneStarted ==
  ASSUME TypeOK, JobsBounded, Alive' \subseteq Alive
  PROVE  JobsBounded'
<1>1. Alive \in SUBSET Process /\ Alive' \in SUBSET Alive /\ Alive' \in SUBSET Process
  BY DEF Alive
<1>2. Cardinality(Alive') <= Cardinality(Alive)
  BY <1>1, ProcessesFinite, FS_Subset
<1> QED BY <1>1, <1>2, ProcessesFinite, RunnerConstants DEF JobsBounded

---------------------------------------------------------------------------
(* The goroutines and the signal handler *)

(* The start of the build loop satisfies the invariant. *)
LEMMA InitRInv == Init => RInv
<1> SUFFICES ASSUME Init PROVE RInv
  OBVIOUS
<1>1. << >> \in Seq(Process) /\ ToSet(<< >>) = {} /\ Len(<< >>) = 0 /\ DOMAIN << >> = {}
  BY EmptySeq DEF ToSet
<1>2. TypeOK
  BY <1>1 DEF Init, TypeOK, PcValues
<1>3. Alive = {}
  BY DEF Init, Alive
<1>4. Filed
  BY <1>1, <1>3, RunnerConstants DEF Init, Filed
<1>5. JobsBounded /\ ClearSees /\ NoneSpared
  BY <1>3, FS_EmptySet, RunnerConstants DEF JobsBounded, ClearSees, NoneSpared
<1>6. Accounted /\ PendingCount
  BY <1>1, FS_EmptySet DEF Init, Accounted, PendingCount
<1>7. InHand /\ Fresh
  BY <1>1 DEF Init, InHand, Fresh
<1> QED BY <1>2, <1>4, <1>5, <1>6, <1>7 DEF RInv

(* The end of a process, or its notice, at any moment keeps the invariant. *)
LEMMA GoroutineStep ==
  ASSUME RInv, NEW p \in Process, ProcessEnds(p) \/ Notify(p)
  PROVE  RInv'
<1>1. /\ UNCHANGED <<running, finishedQ, edgeOf, pending, interrupted, signalled, pc,
                     current, returned>>
      /\ process[p] \in {"alive", "exited"}
  BY DEF ProcessEnds, Notify, lists
<1>2. /\ process' \in [Process -> {"new", "alive", "exited", "ended"}]
      /\ \A q \in Process : process'[q] = "new" <=> process[q] = "new"
      /\ \A q \in Process : process'[q] = "ended" <=> process[q] = "ended" \/ (q = p /\ Notify(p))
      /\ Alive' \subseteq Alive
  BY DEF ProcessEnds, Notify, RInv, TypeOK, Alive
<1>3. /\ finishCh' \in Seq(Process)
      /\ ToSet(finishCh) \subseteq ToSet(finishCh')
      /\ ToSet(finishCh') \subseteq ToSet(finishCh) \cup {p}
      /\ p \in ToSet(finishCh') => p \in ToSet(finishCh) \/ Notify(p)
      /\ Notify(p) => p \in ToSet(finishCh')
  <2>1. CASE ProcessEnds(p)
    BY <2>1 DEF ProcessEnds, Notify, lists, RInv, TypeOK
  <2>2. CASE Notify(p)
    BY <2>2, ToSetAppend DEF Notify, RInv, TypeOK
  <2> QED BY <2>1, <2>2
<1>4. TypeOK'
  BY <1>1, <1>2, <1>3 DEF RInv, TypeOK
<1>5. JobsBounded' /\ ClearSees' /\ NoneSpared'
  BY <1>1, <1>2, NoneStarted DEF RInv, ClearSees, NoneSpared
<1>6. Accounted'
  <2>1. ToSet(running) \subseteq Process
    BY DEF RInv, TypeOK, ToSet
  <2> QED BY <1>1, <1>2, <1>3, <2>1 DEF RInv, Accounted
<1>7. PendingCount'
  BY <1>1 DEF RInv, PendingCount
<1>8. InHand' /\ Fresh'
  <2>1. \A q \in ToSet(finishCh') : process'[q] = "ended"
    <3>1. ToSet(finishCh) \subseteq Process
      BY DEF RInv, TypeOK, ToSet
    <3> QED BY <1>2, <1>3, <3>1 DEF RInv, Fresh
  <2> QED BY <1>1, <1>2, <2>1 DEF RInv, InHand, Fresh
<1>9. Filed'
  BY <1>1, <1>2 DEF RInv, Filed, Stopped
<1> QED BY <1>4, <1>5, <1>6, <1>7, <1>8, <1>9 DEF RInv

---------------------------------------------------------------------------
(* The build loop's thread *)

(* Starting a process: it is in hand, and there is room for it. *)
LEMMA StartCommandStep ==
  ASSUME RInv, NEW p \in Process, StartCommand(p)
  PROVE  RInv'
<1>1. /\ pc = "idle" /\ CanRunMore /\ process[p] = "new"
      /\ process' = [process EXCEPT ![p] = "alive"]
      /\ pc' = "added" /\ current' = p
      /\ UNCHANGED <<lists, edgeOf, pending, interrupted, signalled, returned>>
      /\ UNCHANGED <<running, finishedQ, finishCh>>
  BY DEF StartCommand, lists
<1>2. TypeOK'
  BY <1>1 DEF RInv, TypeOK, PcValues
<1>3. Alive' = Alive \cup {p}
  BY <1>1 DEF RInv, TypeOK, Alive
<1>4. p \notin edgeOf \cup ToSet(running) /\ returned[p] = 0
  BY <1>1 DEF RInv, Fresh
<1>5. Len(running) < Parallelism
  <2>1. Len(running) \in Nat /\ Len(finishedQ) \in Nat /\ Len(<< >>) = 0
    BY EmptySeq DEF RInv, TypeOK
  <2> QED BY <1>1, <2>1, RunnerConstants DEF CanRunMore
<1>6. Filed'
  <2>1. /\ Alive \subseteq ToSet(running)
        /\ \A i, j \in DOMAIN running : running[i] = running[j] => i = j
    BY <1>1 DEF RInv, Filed, Stopped
  <2> QED BY <1>1, <1>3, <1>5, <2>1 DEF Filed
<1>7. JobsBounded'
  <2>1. Alive' \in SUBSET Process /\ Alive' \subseteq ToSet(running) \cup {p}
    BY <1>1, <1>3 DEF RInv, Filed, Stopped, Alive
  <2>2. Cardinality(Alive') <= Len(running) + 1 /\ Cardinality(Alive') \in Nat
    BY <2>1, OnList, ProcessesFinite DEF RInv, TypeOK
  <2> QED BY <1>5, <2>2, RunnerConstants DEF JobsBounded, RInv, TypeOK
<1>8. Accounted'
  <2>1. /\ edgeOf \subseteq ToSet(running) \cup ToSet(finishedQ) \cup {NoProcess}
        /\ \A q \in ToSet(running) : process[q] = "ended" => q \in ToSet(finishCh)
    BY <1>1 DEF RInv, Accounted, InHand
  <2>2. NoProcess \notin edgeOf
    BY RunnerConstants DEF RInv, TypeOK
  <2>3. \A q \in ToSet(running) : process'[q] = process[q]
    BY <1>1, <1>4 DEF RInv, TypeOK
  <2> QED BY <1>1, <2>1, <2>2, <2>3 DEF Accounted
<1>11. PendingCount' /\ ClearSees' /\ NoneSpared'
  BY <1>1 DEF RInv, PendingCount, ClearSees, NoneSpared
<1>9. InHand' /\ Fresh'
  BY <1>1, <1>4 DEF RInv, TypeOK, InHand, Fresh
<1> QED BY <1>2, <1>6, <1>7, <1>8, <1>9, <1>11 DEF RInv

(* Filing it: it goes to one of the lists, its edge to the map. *)
LEMMA FileProcessStep ==
  ASSUME RInv, FileProcess
  PROVE  RInv'
<1>1. /\ pc = "added" /\ pc' = "idle" /\ current' = NoProcess
      /\ edgeOf' = edgeOf \cup {current} /\ pending' = pending + 1
      /\ UNCHANGED <<process, finishCh, interrupted, signalled, returned>>
      /\ current \in Process /\ current \notin edgeOf \cup ToSet(running)
      /\ returned[current] = 0 /\ process[current] # "new"
  BY DEF FileProcess, RInv, InHand
<1>2. running \in Seq(Process) /\ finishedQ \in Seq(Process)
  BY DEF RInv, TypeOK
<1>3. Alive' = Alive /\ Exited' = Exited
  BY <1>1 DEF Alive, Exited
<1>4. \/ /\ current \in Exited
         /\ running' = running /\ finishedQ' \in Seq(Process)
         /\ ToSet(finishedQ') = ToSet(finishedQ) \cup {current}
      \/ /\ current \notin Exited
         /\ running' \in Seq(Process) /\ finishedQ' = finishedQ
         /\ ToSet(running') = ToSet(running) \cup {current}
         /\ Len(running') = Len(running) + 1
         /\ \A i, j \in DOMAIN running' : running'[i] = running'[j] => i = j
  <2>1. CASE current \in Exited
    <3>1. running' = running /\ finishedQ' = Append(finishedQ, current)
      BY <2>1 DEF FileProcess
    <3> QED BY <1>1, <1>2, <2>1, <3>1, ToSetAppend
  <2>2. CASE current \notin Exited
    <3>1. running' = Append(running, current) /\ finishedQ' = finishedQ
      BY <2>2 DEF FileProcess
    <3>2. running' \in Seq(Process) /\ ToSet(running') = ToSet(running) \cup {current}
      BY <1>1, <1>2, <3>1, ToSetAppend
    <3>3. /\ Len(running') = Len(running) + 1
          /\ \A i \in 1 .. Len(running) : running'[i] = running[i]
          /\ running'[Len(running) + 1] = current
      BY <1>1, <1>2, <3>1, AppendProperties
    <3>4. \A i, j \in DOMAIN running : running[i] = running[j] => i = j
      BY <1>1 DEF RInv, Filed, Stopped
    <3>5. \A i \in 1 .. Len(running) : running[i] # current
      BY <1>1, <1>2 DEF ToSet
    <3>6. \A i, j \in 1 .. Len(running) + 1 : running'[i] = running'[j] => i = j
      BY <1>2, <3>3, <3>4, <3>5
    <3> QED BY <1>2, <2>2, <3>1, <3>2, <3>3, <3>6
  <2> QED BY <2>1, <2>2
<1>5. TypeOK'
  BY <1>1, <1>2, <1>4 DEF RInv, TypeOK, PcValues
<1>6. Filed'
  <2>1. /\ Len(running) < Parallelism /\ Alive \subseteq ToSet(running) \cup {current}
        /\ \A i, j \in DOMAIN running : running[i] = running[j] => i = j
    BY <1>1 DEF RInv, Filed, Stopped
  <2>2. Len(running) \in Nat /\ Parallelism \in Nat
    BY <1>2, RunnerConstants
  <2>3. current \in Exited => current \notin Alive
    BY DEF Exited, Alive
  <2>4. Len(running') <= Parallelism /\ Alive \subseteq ToSet(running')
    BY <1>4, <2>1, <2>2, <2>3
  <2> QED BY <1>1, <1>3, <1>4, <2>1, <2>4 DEF Filed
<1>7. JobsBounded'
  <2>1. Alive' \subseteq Alive
    BY <1>3
  <2> QED BY <2>1, NoneStarted DEF RInv
<1>8. PendingCount'
  <2>1. edgeOf \in SUBSET Process /\ pending = Cardinality(edgeOf)
    BY <1>1 DEF RInv, TypeOK, PendingCount
  <2>2. Cardinality(edgeOf \cup {current}) = Cardinality(edgeOf) + 1
    BY <1>1, <2>1, ProcessesFinite, FS_AddElement
  <2> QED BY <1>1, <2>1, <2>2 DEF PendingCount
<1>9. Accounted'
  <2>1. /\ edgeOf \subseteq ToSet(running) \cup ToSet(finishedQ) \cup {current}
        /\ \A p \in ToSet(running) : process[p] = "ended" => p \in ToSet(finishCh)
    BY <1>1 DEF RInv, Accounted
  <2>2. process[current] = "ended" => current \in Exited
    BY <1>1 DEF Exited
  <2>3. edgeOf' \subseteq ToSet(running') \cup ToSet(finishedQ')
    BY <1>1, <1>4, <2>1
  <2>4. \A p \in ToSet(running') : process[p] = "ended" => p \in ToSet(finishCh)
    BY <1>4, <2>1, <2>2
  <2> QED BY <1>1, <2>3, <2>4 DEF Accounted
<1>10. ClearSees' /\ NoneSpared' /\ InHand'
  BY <1>1 DEF ClearSees, NoneSpared, InHand
<1>11. Fresh'
  BY <1>1, <1>4 DEF RInv, Fresh
<1> QED BY <1>5, <1>6, <1>7, <1>8, <1>9, <1>10, <1>11 DEF RInv

(* Steps that only move the build loop on, or set the flag. *)
LEMMA MovingStep ==
  ASSUME RInv,
         \/ BeginWait \/ Timeout \/ SeeInterrupt \/ StartCommandFails
         \/ Leave \/ Terminate \/ ReceiveSignal
  PROVE  RInv'
<1>1. /\ UNCHANGED <<process, lists, edgeOf, pending, current, returned>>
      /\ UNCHANGED <<running, finishedQ, finishCh>>
      /\ interrupted' \in BOOLEAN /\ signalled' \subseteq Process
  BY DEF RInv, TypeOK, BeginWait, Timeout, SeeInterrupt, StartCommandFails, Leave, Terminate,
         ReceiveSignal, lists, Alive
<1>2. /\ pc' \in PcValues /\ pc' # "aborted"
      /\ pc' = pc \/ (pc \notin {"added", "finish"} /\ pc' \notin {"added", "finish"})
      /\ Stopped => Stopped'
      /\ pc' \in {"next", "dowork", "finish"} => pending > 0
      /\ pc' = pc => pc # "aborted"
  BY DEF RInv, TypeOK, InHand, PcValues, BeginWait, Timeout, SeeInterrupt, StartCommandFails,
         Leave, Terminate, ReceiveSignal, Stopped
<1>3. TypeOK'
  BY <1>1, <1>2 DEF RInv, TypeOK
<1>4. Alive' = Alive
  BY <1>1 DEF Alive
<1>5. JobsBounded'
  BY <1>4, NoneStarted DEF RInv
<1>9. ClearSees' /\ NoneSpared'
  <2>1. CASE SeeInterrupt \/ StartCommandFails
    <3>1. pc' = "clear" /\ Alive \subseteq ToSet(running)
      BY <2>1 DEF SeeInterrupt, StartCommandFails, RInv, Filed, Stopped
    <3> QED BY <1>1, <1>4, <3>1 DEF ClearSees, NoneSpared
  <2>2. CASE Terminate
    <3>1. /\ Alive \subseteq ToSet(running) /\ pc' = "drain"
          /\ signalled' = Alive \cap ToSet(running)
      BY <2>2 DEF Terminate, RInv, ClearSees
    <3> QED BY <1>4, <3>1 DEF ClearSees, NoneSpared
  <2>3. CASE BeginWait \/ Timeout \/ Leave
    BY <2>3 DEF BeginWait, Timeout, Leave, ClearSees, NoneSpared
  <2>4. CASE ReceiveSignal
    BY <1>1, <1>4, <2>4 DEF ReceiveSignal, RInv, ClearSees, NoneSpared
  <2> QED BY <2>1, <2>2, <2>3, <2>4
<1>6. Accounted' /\ PendingCount'
  BY <1>1, <1>2 DEF RInv, TypeOK, PcValues, Accounted, PendingCount, Stopped
<1>7. InHand' /\ Fresh'
  BY <1>1, <1>2 DEF RInv, InHand, Fresh
<1>8. Filed'
  BY <1>1, <1>2, <1>4 DEF RInv, Filed
<1> QED BY <1>3, <1>5, <1>6, <1>7, <1>8, <1>9 DEF RInv

(* NextFinished takes a process in hand, or finds none. *)
LEMMA NextFinishedStep ==
  ASSUME RInv, NextFinished
  PROVE  RInv'
<1>1. /\ pc = "next" /\ pending > 0 /\ current = NoProcess
      /\ UNCHANGED <<process, running, finishCh, edgeOf, pending, interrupted, signalled,
                     returned>>
  BY DEF NextFinished, RInv, InHand
<1>2. \/ pc' = "dowork" /\ finishedQ' = finishedQ /\ current' = current
      \/ /\ pc' = "finish" /\ current' \in Process /\ finishedQ' \in Seq(Process)
         /\ ToSet(finishedQ) = {current'} \cup ToSet(finishedQ')
  <2>1. CASE finishedQ = << >>
    BY <2>1 DEF NextFinished
  <2>2. CASE finishedQ # << >>
    BY <2>2, ToSetHeadTail DEF NextFinished, RInv, TypeOK
  <2> QED BY <2>1, <2>2
<1>3. TypeOK'
  BY <1>1, <1>2 DEF RInv, TypeOK, PcValues
<1>4. Alive' = Alive
  BY <1>1 DEF Alive
<1>5. JobsBounded' /\ ClearSees' /\ NoneSpared'
  BY <1>2, <1>4, NoneStarted DEF RInv, ClearSees, NoneSpared
<1>6. Accounted'
  <2>1. NoProcess \notin edgeOf
    BY RunnerConstants DEF RInv, TypeOK
  <2> QED BY <1>1, <1>2, <2>1 DEF RInv, Accounted
<1>7. PendingCount' /\ InHand' /\ Fresh'
  BY <1>1, <1>2 DEF RInv, PendingCount, InHand, Fresh
<1>8. Filed'
  BY <1>1, <1>2, <1>4 DEF RInv, Filed, Stopped
<1> QED BY <1>3, <1>5, <1>6, <1>7, <1>8 DEF RInv

(* DoWork moves a process from one list to the other. *)
LEMMA ReceiveNoticeStep ==
  ASSUME RInv, ReceiveNotice
  PROVE  RInv'
<1> DEFINE h == Head(finishCh)
<1>1. /\ pc = "dowork" /\ pc' = "next" /\ pending > 0 /\ current = NoProcess
      /\ running' = RemoveFirst(running, h)
      /\ finishedQ' = Append(finishedQ, h) /\ finishCh' = Tail(finishCh)
      /\ finishCh # << >>
      /\ UNCHANGED <<process, edgeOf, pending, interrupted, signalled, current, returned>>
  BY DEF ReceiveNotice, RInv, InHand
<1>2. /\ h \in Process /\ finishCh' \in Seq(Process)
      /\ ToSet(finishCh) = {h} \cup ToSet(finishCh')
  BY <1>1, ToSetHeadTail DEF RInv, TypeOK
<1> HIDE DEF h
<1>3. finishedQ' \in Seq(Process) /\ ToSet(finishedQ') = ToSet(finishedQ) \cup {h}
  BY <1>1, <1>2, ToSetAppend DEF RInv, TypeOK
<1>4. /\ running \in Seq(Process)
      /\ \A i, j \in DOMAIN running : running[i] = running[j] => i = j
      /\ Len(running) <= Parallelism /\ Alive \subseteq ToSet(running)
  BY <1>1 DEF RInv, TypeOK, Filed, Stopped
<1>5. /\ running' \in Seq(Process)
      /\ ToSet(running') = ToSet(running) \ {h}
      /\ Len(running') <= Len(running)
      /\ \A i, j \in DOMAIN running' : running'[i] = running'[j] => i = j
  BY <1>1, <1>4, RemoveOnly
<1>6. TypeOK'
  BY <1>1, <1>2, <1>3, <1>5 DEF RInv, TypeOK, PcValues
<1>7. Alive' = Alive
  BY <1>1 DEF Alive
<1>8. process[h] = "ended" /\ h \notin Alive
  BY <1>2 DEF RInv, Fresh, Alive
<1>9. Filed'
  BY <1>1, <1>4, <1>5, <1>7, <1>8, RunnerConstants DEF RInv, TypeOK, Filed
<1>10. JobsBounded' /\ ClearSees' /\ NoneSpared'
  BY <1>1, <1>7, NoneStarted DEF RInv, ClearSees, NoneSpared
<1>11. Accounted'
  BY <1>1, <1>2, <1>3, <1>5 DEF RInv, Accounted
<1>12. PendingCount' /\ InHand' /\ Fresh'
  BY <1>1, <1>2, <1>5 DEF RInv, PendingCount, InHand, Fresh
<1> QED BY <1>6, <1>9, <1>10, <1>11, <1>12 DEF RInv

(* The edge of the process in hand leaves the map. *)
LEMMA FinishCommandStep ==
  ASSUME RInv, FinishCommand
  PROVE  RInv'
<1>1. /\ pc = "finish" /\ current \in Process /\ pending > 0
      /\ edgeOf' = edgeOf \ {current} /\ current' = NoProcess
      /\ returned' = [returned EXCEPT ![current] = IF current \in edgeOf THEN @ + 1 ELSE @]
      /\ UNCHANGED <<process, lists, interrupted, signalled>>
      /\ UNCHANGED <<running, finishedQ, finishCh>>
  BY DEF FinishCommand, RInv, InHand, lists
<1>2. \/ pc' = "clear" /\ pending' = pending
      \/ /\ pc' = IF current \in edgeOf THEN "idle" ELSE "panic"
         /\ pending' = pending - 1
  BY DEF FinishCommand
<1>3. TypeOK'
  BY <1>1, <1>2 DEF RInv, TypeOK, PcValues
<1>4. Alive' = Alive
  BY <1>1 DEF Alive
<1>5. JobsBounded' /\ ClearSees' /\ NoneSpared'
  <2>1. Alive \subseteq ToSet(running)
    BY <1>1 DEF RInv, Filed, Stopped
  <2> QED BY <1>1, <1>2, <1>4, <2>1, NoneStarted DEF RInv, ClearSees, NoneSpared
<1>6. Accounted'
  BY <1>1, <1>2 DEF RInv, Accounted
<1>7. PendingCount'
  <2>1. edgeOf \in SUBSET Process /\ pending = Cardinality(edgeOf)
    BY <1>1 DEF RInv, TypeOK, PendingCount
  <2>2. current \in edgeOf => Cardinality(edgeOf \ {current}) = Cardinality(edgeOf) - 1
    BY <2>1, ProcessesFinite, FS_RemoveElement
  <2> QED BY <1>1, <1>2, <2>1, <2>2 DEF PendingCount
<1>8. InHand' /\ Fresh'
  <2>1. process[current] = "ended"
    BY DEF FinishCommand
  <2> QED BY <1>1, <1>2, <2>1 DEF RInv, TypeOK, InHand, Fresh
<1>9. Filed'
  BY <1>1, <1>2, <1>4 DEF RInv, Filed, Stopped
<1> QED BY <1>3, <1>5, <1>6, <1>7, <1>8, <1>9 DEF RInv

(* Clear returns when the goroutines have ended. *)
LEMMA DrainStep ==
  ASSUME RInv, Drain
  PROVE  RInv'
<1>1. /\ pc = "drain" /\ pc' = "aborted"
      /\ \A p \in Process : process[p] \in {"new", "ended"}
      /\ running' = << >> /\ finishedQ' = << >>
      /\ UNCHANGED <<process, finishCh, edgeOf, pending, interrupted, signalled, current,
                     returned>>
      /\ current = NoProcess
  BY DEF Drain, RInv, InHand
<1>2. << >> \in Seq(Process) /\ ToSet(<< >>) = {}
  BY EmptySeq DEF ToSet
<1>3. TypeOK'
  BY <1>1, <1>2 DEF RInv, TypeOK, PcValues
<1>4. Alive' = Alive /\ Alive = {}
  BY <1>1 DEF Alive
<1>5. JobsBounded' /\ ClearSees' /\ NoneSpared'
  BY <1>1, <1>4, NoneStarted DEF RInv, ClearSees, NoneSpared
<1>6. Accounted' /\ PendingCount' /\ InHand' /\ Filed'
  BY <1>1 DEF Accounted, PendingCount, InHand, Filed, Stopped
<1>7. Fresh'
  BY <1>1, <1>2 DEF RInv, Fresh
<1> QED BY <1>3, <1>5, <1>6, <1>7 DEF RInv

(* Every step of the build loop, the goroutines and the signal handler     *)
(* keeps the invariant.                                                    *)
LEMMA RInvPreserved == RInv /\ [Next]_vars => RInv'
<1> SUFFICES ASSUME RInv, [Next]_vars PROVE RInv'
  OBVIOUS
<1>1. CASE UNCHANGED vars
  <2>1. Alive' = Alive
    BY <1>1 DEF vars, Alive
  <2>2. UNCHANGED <<running, finishedQ, finishCh>>
    BY <1>1 DEF vars, lists
  <2> QED BY <1>1, <2>1, <2>2
       DEF vars, RInv, TypeOK, JobsBounded, Accounted, PendingCount, ClearSees, NoneSpared,
           InHand, Fresh, Filed, Stopped
<1>2. CASE BuilderStep
  BY <1>2, StartCommandStep, FileProcessStep, MovingStep, NextFinishedStep,
     ReceiveNoticeStep, FinishCommandStep, DrainStep DEF BuilderStep
<1>3. CASE \E p \in Process : ProcessEnds(p) \/ Notify(p)
  BY <1>3, GoroutineStep
<1>4. CASE ReceiveSignal
  BY <1>4, MovingStep
<1> QED BY <1>1, <1>2, <1>3, <1>4 DEF Next, Stop

---------------------------------------------------------------------------
(* Theorems *)

(* The invariant holds in every reachable state, however fast processes    *)
(* end and whenever the signal comes.                                      *)
THEOREM RunnerInvariance == Spec => []RInv
<1>1. Init => RInv
  BY InitRInv
<1>2. RInv /\ [Next]_vars => RInv'
  BY RInvPreserved
<1> QED BY <1>1, <1>2, PTL DEF Spec

(* -j is kept, although CanRunMore counts lists that lag behind.           *)
THEOREM JobsAreBounded == Spec => []JobsBounded
<1>1. RInv => JobsBounded
  BY DEF RInv
<1> QED BY <1>1, RunnerInvariance, PTL

(* No completion is lost between process, channel and lists.               *)
THEOREM NothingLost == Spec => []Accounted
<1>1. RInv => Accounted
  BY DEF RInv
<1> QED BY <1>1, RunnerInvariance, PTL

(* pendingCommands agrees with the map of running commands.                *)
THEOREM PendingCounted == Spec => []PendingCount
<1>1. RInv => PendingCount
  BY DEF RInv
<1> QED BY <1>1, RunnerInvariance, PTL

(* When an abort waits for the commands, it has terminated all that are    *)
(* alive, whatever the lists looked like when it came.                     *)
THEOREM NoneIsSpared == Spec => []NoneSpared
<1>1. RInv => NoneSpared
  BY DEF RInv
<1> QED BY <1>1, RunnerInvariance, PTL

---------------------------------------------------------------------------
(* The runner implements CommandRunner *)

Accepted == edgeOf \cup {p \in Process : returned[p] > 0}

(* Every step is a step of CommandRunner, or none. *)
LEMMA StepKeepsPromise ==
  ASSUME RInv, [Next]_vars
  PROVE  [Promise!Next]_Promise!promiseVars
<1> USE DEF Promise!Next, Promise!promiseVars
<1> DEFINE Same == UNCHANGED <<Accepted, Exited, returned, Stopped>>
<1>1. CASE UNCHANGED vars
  <2>1. Same
    BY <1>1 DEF vars, Accepted, Exited, Stopped
  <2> QED BY <2>1 DEF Accepted
<1>2. CASE \E p \in Process : StartCommand(p)
  <2>1. PICK p \in Process : StartCommand(p)
    BY <1>2
  <2>2. Same
    BY <2>1 DEF StartCommand, Accepted, Exited, Stopped, RInv, TypeOK
  <2> QED BY <2>2 DEF Accepted
<1>3. CASE FileProcess
  <2>1. Stopped = FALSE /\ Stopped' = FALSE
    BY <1>3 DEF FileProcess, Stopped
  <2>2. /\ current \in Process /\ current \notin edgeOf /\ returned[current] = 0
        /\ edgeOf' = edgeOf \cup {current}
        /\ UNCHANGED <<process, returned>>
    BY <1>3 DEF FileProcess, RInv, InHand
  <2>4. current \notin Accepted /\ Accepted' = Accepted \cup {current}
    BY <2>2 DEF Accepted
  <2>5. UNCHANGED <<Exited, returned, Stopped>>
    BY <2>1, <2>2 DEF Exited
  <2>6. current \in Process
    BY <2>2
  <2>7. \E p \in Process : Promise!Accept(p)
    BY <2>1, <2>4, <2>5, <2>6 DEF Promise!Accept, Accepted
  <2>8. Promise!Next
    BY <2>7
  <2> QED BY <2>8
<1>4. CASE BeginWait \/ NextFinished \/ ReceiveNotice \/ Timeout \/ Terminate \/ Drain
           \/ ReceiveSignal
  <2>1. Same
    BY <1>4 DEF BeginWait, NextFinished, ReceiveNotice, Timeout, Terminate, Drain,
                ReceiveSignal, Accepted, Exited, Stopped
  <2> QED BY <2>1 DEF Accepted
<1>5. CASE SeeInterrupt \/ StartCommandFails \/ Leave
  <2>1. UNCHANGED <<Accepted, Exited, returned>>
    BY <1>5 DEF SeeInterrupt, StartCommandFails, Leave, Accepted, Exited
  <2>2. Stopped = FALSE /\ Stopped' = TRUE
    BY <1>5 DEF SeeInterrupt, StartCommandFails, Leave, Stopped
  <2>3. Promise!Stop
    BY <2>1, <2>2 DEF Promise!Stop, Accepted
  <2> QED BY <2>3
<1>6. CASE FinishCommand
  <2>1. /\ current \in Process /\ process[current] = "ended" /\ Stopped = FALSE
        /\ UNCHANGED Exited
    BY <1>6 DEF FinishCommand, RInv, InHand, Stopped, Exited
  <2>2. CASE current \in edgeOf
    <3>1. returned[current] = 0 /\ current \in Accepted \cap Exited
      BY <2>1, <2>2 DEF RInv, Fresh, Accepted, Exited
    <3>2. returned' = [returned EXCEPT ![current] = 1]
      BY <1>6, <2>2, <3>1 DEF FinishCommand
    <3>3. UNCHANGED Accepted
      BY <1>6, <2>1, <2>2, <3>2 DEF FinishCommand, Accepted, RInv, TypeOK
    <3>4. Stopped' \in BOOLEAN
      BY DEF Stopped
    <3>5. Promise!GiveBack(current)
      BY <2>1, <3>1, <3>2, <3>3, <3>4 DEF Promise!GiveBack, Accepted
    <3> QED BY <2>1, <3>5
  <2>3. CASE current \notin edgeOf
    <3>1. UNCHANGED returned
      BY <1>6, <2>1, <2>3 DEF FinishCommand, RInv, TypeOK
    <3>2. UNCHANGED Accepted
      BY <1>6, <2>3, <3>1 DEF FinishCommand, Accepted
    <3>3. Stopped' = TRUE
      BY <1>6, <2>3 DEF FinishCommand, Stopped
    <3>4. Promise!Stop
      BY <2>1, <3>1, <3>2, <3>3 DEF Promise!Stop, Accepted
    <3> QED BY <3>4
  <2> QED BY <2>2, <2>3
<1>7. CASE \E p \in Process : ProcessEnds(p)
  <2>1. PICK p \in Process : ProcessEnds(p)
    BY <1>7
  <2>2. UNCHANGED <<Accepted, returned, Stopped>> /\ p \notin Exited /\ Exited' = Exited \cup {p}
    BY <2>1 DEF ProcessEnds, Accepted, Exited, Stopped, RInv, TypeOK
  <2>3. Promise!End(p)
    BY <2>2 DEF Promise!End, Accepted
  <2> QED BY <2>3
<1>8. CASE \E p \in Process : Notify(p)
  <2>1. PICK p \in Process : Notify(p)
    BY <1>8
  <2>2. Same
    BY <2>1 DEF Notify, Accepted, Exited, Stopped, RInv, TypeOK
  <2> QED BY <2>2 DEF Accepted
<1> QED BY <1>1, <1>2, <1>3, <1>4, <1>5, <1>6, <1>7, <1>8 DEF Next, BuilderStep, Stop

(* The runner keeps the promise the build loop relies on: a command is     *)
(* given back at most once, after its process has ended, and never after   *)
(* the build stopped.                                                      *)
THEOREM PromiseKept == Spec => KeepsPromise
<1>1. Init => Promise!Init
  BY DEF Init, Promise!Init, Exited, Stopped
<1>2. RInv /\ [Next]_vars => [Promise!Next]_Promise!promiseVars
  BY StepKeepsPromise
<1> QED BY <1>1, <1>2, RunnerInvariance, PTL DEF Spec, KeepsPromise, Promise!Spec
===========================================================================
