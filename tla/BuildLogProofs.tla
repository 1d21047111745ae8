--------------------------- MODULE BuildLogProofs ---------------------------
(***************************************************************************)
(* The build log keeps what was recorded: a process that dies loses no     *)
(* record written completely, and a torn line is never taken for a record. *)
(***************************************************************************)
EXTENDS BuildLog, SequenceLemmas

---------------------------------------------------------------------------
(* Lines *)

(* The version lines and a scrap are not records: their fields differ.     *)
LEMMA OtherLines ==
  /\ Version \notin Records /\ BadVersion \notin Records /\ Scrap \notin Records
  /\ Version # BadVersion /\ Version # Scrap /\ BadVersion # Scrap
<1>1. \A r \in Records : DOMAIN r = {"out", "hash", "mtime"}
  BY DEF Records
<1>2. DOMAIN Version = {"version"} /\ DOMAIN BadVersion = {"version"} /\ DOMAIN Scrap = {"fields"}
  BY DEF Version, BadVersion, Scrap
<1>3. Version.version = 7 /\ BadVersion.version = 0
  BY DEF Version, BadVersion
<1>4. "out" \notin {"version"} /\ "out" \notin {"fields"} /\ "version" \notin {"fields"}
  OBVIOUS
<1> QED BY <1>1, <1>2, <1>3, <1>4

(* An entry and its line.                                                  *)
LEMMA LineOfEntry ==
  ASSUME NEW o \in Output, NEW e \in Entry
  PROVE  /\ Line(o, e) \in Records
         /\ Line(o, e).out = o /\ Line(o, e).hash = e.hash /\ Line(o, e).mtime = e.mtime
         /\ [hash |-> e.hash, mtime |-> e.mtime] = e
BY DEF Line, Entry, Records

(* A set of positions that is not empty has a last one.                    *)
LEMMA LastPosition ==
  ASSUME NEW n \in Nat, NEW P \in SUBSET (1 .. n), P # {}
  PROVE  \E i \in P : \A j \in P : j <= i
<1>1. IsFiniteSet(1 .. n)
  BY FS_Interval
<1>2. IsFiniteSet(P)
  BY <1>1, FS_Subset
<1> QED BY <1>2, GreatestElement

---------------------------------------------------------------------------
(* What Load reads *)

Whole(f) == f # Missing /\ f # << >> /\ Head(f) = Version

(* The entry of an output is its last record.                              *)
LEMMA LastRecord ==
  ASSUME NEW f \in Seq(Lines), Usable(f), NEW o \in Output, At(f, o) # {}
  PROVE  \E i \in At(f, o) :
           /\ \A j \in At(f, o) : j <= i
           /\ Read(f)[o] = [hash |-> f[i].hash, mtime |-> f[i].mtime]
<1>1. At(f, o) \subseteq 1 .. Len(f) /\ Len(f) \in Nat
  BY DEF At, RecordAt
<1>2. \E i \in At(f, o) : \A j \in At(f, o) : j <= i
  BY <1>1, LastPosition
<1> DEFINE i == CHOOSE i \in At(f, o) : \A j \in At(f, o) : j <= i
<1>3. i \in At(f, o) /\ \A j \in At(f, o) : j <= i
  BY <1>2
<1>4. Read(f)[o] = [hash |-> f[i].hash, mtime |-> f[i].mtime]
  BY DEF Read
<1> HIDE DEF i
<1> QED BY <1>3, <1>4

LEMMA ReadTyped ==
  ASSUME NEW f, f = Missing \/ f \in Seq(Lines)
  PROVE  Read(f) \in [Output -> Entry \cup {None}]
<1>1. ASSUME NEW o \in Output PROVE Read(f)[o] \in Entry \cup {None}
  <2>1. CASE ~Usable(f) \/ At(f, o) = {}
    BY <2>1 DEF Read
  <2>2. CASE Usable(f) /\ At(f, o) # {}
    <3>1. f \in Seq(Lines)
      BY <2>2 DEF Usable
    <3>2. PICK i \in At(f, o) : Read(f)[o] = [hash |-> f[i].hash, mtime |-> f[i].mtime]
      BY <2>2, <3>1, LastRecord
    <3>3. f[i] \in Records
      BY DEF At, RecordAt
    <3> QED BY <3>2, <3>3 DEF Records, Entry
  <2> QED BY <2>1, <2>2
<1>2. Read(f) = [o \in Output |-> Read(f)[o]]
  BY DEF Read
<1> QED BY <1>1, <1>2

(* A file that is not there, and one with only the version line, hold no   *)
(* entries.                                                                *)
LEMMA ReadNothing == /\ Read(Missing) = Nothing
                     /\ <<Version>> \in Seq(Lines) /\ Whole(<<Version>>)
                     /\ Read(<<Version>>) = Nothing
<1>1. Read(Missing) = Nothing
  BY DEF Read, Usable, Nothing
<1>2. <<Version>> \in Seq(Lines) /\ Whole(<<Version>>)
  <2>1. Version \in Lines
    BY DEF Lines
  <2>2. <<Version>> \in Seq(Lines) /\ <<Version>> # << >> /\ Head(<<Version>>) = Version
    BY <2>1
  <2> QED BY <2>2, NilsAreNone DEF Whole
<1>3. RecordAt(<<Version>>) = {}
  BY OtherLines DEF RecordAt
<1>4. \A o \in Output : At(<<Version>>, o) = {}
  BY <1>3 DEF At
<1>5. Read(<<Version>>) = Nothing
  BY <1>4 DEF Read, Nothing
<1> QED BY <1>1, <1>2, <1>5

(* A record appended to a log is read back, and hides no other output's.   *)
LEMMA ReadAppend ==
  ASSUME NEW f \in Seq(Lines), Whole(f), NEW o \in Output, NEW e \in Entry
  PROVE  LET g == Append(f, Line(o, e)) IN
         /\ g \in Seq(Lines) /\ Whole(g)
         /\ Read(g) = [Read(f) EXCEPT ![o] = e]
<1> DEFINE l == Line(o, e)
           g == Append(f, l)
           n == Len(f) + 1
<1>1. /\ l \in Records /\ l \in Lines
      /\ l.out = o /\ [hash |-> l.hash, mtime |-> l.mtime] = e
  BY LineOfEntry DEF Lines
<1> HIDE DEF l
<1>2. /\ g \in Seq(Lines) /\ Len(g) = n /\ g[n] = l
      /\ \A i \in 1 .. Len(f) : g[i] = f[i]
      /\ DOMAIN f = 1 .. Len(f) /\ DOMAIN g = 1 .. n /\ Len(f) \in Nat
  BY <1>1, AppendProperties
<1>3. Len(f) # 0 /\ Head(f) = f[1]
  BY EmptySeq DEF Whole
<1> HIDE DEF g
<1>4. Whole(g)
  <2>1. Len(g) # 0 /\ g[1] = f[1] /\ g # << >> /\ Head(g) = g[1]
    BY <1>2, <1>3, EmptySeq
  <2> QED BY <1>2, <1>3, <2>1, NilsAreNone DEF Whole
<1>5. RecordAt(g) = RecordAt(f) \cup {n}
  BY <1>1, <1>2 DEF RecordAt
<1>6. n \notin RecordAt(f)
  BY <1>2 DEF RecordAt
<1>7. \A i \in RecordAt(f) : g[i] = f[i] /\ i <= n
  BY <1>2 DEF RecordAt
<1>8. At(g, o) = At(f, o) \cup {n}
  BY <1>1, <1>2, <1>5, <1>7 DEF At
<1>9. \A p \in Output \ {o} : At(g, p) = At(f, p)
  BY <1>1, <1>2, <1>5, <1>7 DEF At
<1>10. Usable(f) /\ Usable(g)
  BY <1>4 DEF Whole, Usable
<1>11. Read(g)[o] = e
  <2>1. PICK i \in At(g, o) : /\ \A j \in At(g, o) : j <= i
                              /\ Read(g)[o] = [hash |-> g[i].hash, mtime |-> g[i].mtime]
    BY <1>2, <1>8, <1>10, LastRecord
  <2>2. i = n
    <3>1. n <= i /\ i <= n /\ i \in 1 .. n
      BY <1>2, <1>5, <1>7, <1>8, <2>1 DEF At, RecordAt
    <3> QED BY <1>2, <3>1
  <2> QED BY <1>1, <1>2, <2>1, <2>2
<1>12. ASSUME NEW p \in Output \ {o} PROVE Read(g)[p] = Read(f)[p]
  <2>1. CASE At(f, p) = {}
    BY <1>9, <2>1 DEF Read
  <2>2. CASE At(f, p) # {}
    <3>1. PICK i \in At(f, p) : /\ \A j \in At(f, p) : j <= i
                                /\ Read(f)[p] = [hash |-> f[i].hash, mtime |-> f[i].mtime]
      BY <1>10, <2>2, LastRecord
    <3>2. PICK k \in At(g, p) : /\ \A j \in At(g, p) : j <= k
                                /\ Read(g)[p] = [hash |-> g[k].hash, mtime |-> g[k].mtime]
      BY <1>2, <1>9, <1>10, <2>2, LastRecord
    <3>3. k = i
      <4>1. k <= i /\ i <= k /\ i \in 1 .. Len(f) /\ k \in 1 .. Len(f)
        BY <1>2, <1>9, <3>1, <3>2 DEF At, RecordAt
      <4> QED BY <1>2, <4>1
    <3>4. g[i] = f[i]
      BY <1>7 DEF At
    <3> QED BY <3>1, <3>2, <3>3, <3>4
  <2> QED BY <2>1, <2>2
<1>13. Read(g) = [p \in Output |-> Read(g)[p]] /\ Read(f) = [p \in Output |-> Read(f)[p]]
  BY DEF Read
<1>14. Read(g) = [Read(f) EXCEPT ![o] = e]
  BY <1>11, <1>12, <1>13
<1> QED BY <1>2, <1>4, <1>14 DEF g, l

---------------------------------------------------------------------------
(* What a write leaves *)

(* A line that continues a torn one is read as a record without a hash, if *)
(* as a record at all.                                                     *)
LEMMA GluedLines ==
  ASSUME NEW l \in Lines, NEW g \in Glued(l)
  PROVE  g \in Lines /\ (g \in Records => g.hash = NoHash)
<1>1. CASE l = Version
  BY <1>1, OtherLines DEF Glued, Lines
<1>2. CASE l = BadVersion
  BY <1>2, OtherLines DEF Glued, Lines
<1>3. CASE l = Scrap
  BY <1>3, OtherLines DEF Glued, Lines
<1>4. CASE l \in Records
  <2>1. g = [l EXCEPT !.hash = NoHash]
    BY <1>4, OtherLines DEF Glued
  <2>2. g \in Records /\ g.hash = NoHash
    BY <1>4, <2>1 DEF Records
  <2> QED BY <2>2 DEF Lines
<1> QED BY <1>1, <1>2, <1>3, <1>4 DEF Lines

LEMMA AppendedLines ==
  ASSUME NEW f \in Seq(Lines), ~eol => f # << >>, NEW l \in Lines, NEW g \in Appended(f, l)
  PROVE  /\ g \in Seq(Lines) /\ g # << >>
         /\ \A i \in DOMAIN g :
              \/ i \in DOMAIN f /\ g[i] = f[i]
              \/ g[i] = l
              \/ g[i] \in Records => g[i].hash = NoHash
<1>1. CASE eol
  <2>1. g = Append(f, l)
    BY <1>1 DEF Appended
  <2>2. /\ g \in Seq(Lines) /\ Len(g) = Len(f) + 1 /\ g[Len(f) + 1] = l
        /\ \A i \in 1 .. Len(f) : g[i] = f[i]
    BY <2>1, AppendProperties
  <2>3. g # << >>
    BY <2>2, EmptySeq
  <2> QED BY <2>2, <2>3
<1>2. CASE ~eol
  <2>1. Len(f) \in Nat \ {0}
    BY <1>2, EmptySeq
  <2>2. PICK x \in Glued(f[Len(f)]) : g = [f EXCEPT ![Len(f)] = x]
    BY <1>2 DEF Appended
  <2>3. f[Len(f)] \in Lines
    BY <2>1
  <2>4. x \in Lines /\ (x \in Records => x.hash = NoHash)
    BY <2>3, GluedLines
  <2>5. /\ g \in Seq(Lines) /\ Len(g) = Len(f)
        /\ \A i \in 1 .. Len(f) : g[i] = IF i = Len(f) THEN x ELSE f[i]
    BY <2>1, <2>2, <2>4
  <2>6. g # << >>
    BY <2>1, <2>5, EmptySeq
  <2> QED BY <2>4, <2>5, <2>6
<1> QED BY <1>1, <1>2

(* Opening the log for writing writes the version line of a new file.      *)
LEMMA WithVersionLines ==
  ASSUME NEW f, f = Missing \/ f \in Seq(Lines)
  PROVE  /\ WithVersion(f) \in Seq(Lines)
         /\ WithVersion(f) \notin {Missing, << >>}
         /\ f \notin {Missing, << >>} => WithVersion(f) = f
<1>1. <<Version>> \in Seq(Lines) /\ <<Version>> \notin {Missing, << >>}
  BY ReadNothing DEF Whole
<1> QED BY <1>1 DEF WithVersion

LEMMA CutLines ==
  ASSUME NEW o \in Output, NEW e \in Entry, NEW l \in Cuts(Line(o, e))
  PROVE  /\ l \in Lines
         /\ l \in Records => l = Line(o, e) \/ l.hash = NoHash
<1>1. Line(o, e) \in Records
  BY LineOfEntry
<1>2. l = Scrap \/ l = Line(o, e) \/ l = [Line(o, e) EXCEPT !.hash = NoHash]
  BY DEF Cuts
<1>3. [Line(o, e) EXCEPT !.hash = NoHash] \in Records
  BY <1>1 DEF Records
<1>4. [Line(o, e) EXCEPT !.hash = NoHash].hash = NoHash
  BY <1>1 DEF Records
<1> QED BY <1>1, <1>2, <1>3, <1>4, OtherLines DEF Lines

---------------------------------------------------------------------------
(* Type correctness *)

(* An open file is there and has its version line; the temporary file is   *)
(* there only while a log is rewritten, with the version line first.       *)
Typed ==
  /\ TypeOK
  /\ ~eol => file # << >>
  /\ handle => file \notin {Missing, << >>}
  /\ pc \in {"off", "create", "copy", "panicked"} => ~handle
  /\ pc \notin {"copy", "panicked"} => temp = Missing
  /\ pc = "copy" => Whole(temp) /\ todo \in SUBSET {o \in Output : entries[o] # None}

LEMMA InitTyped == Init => Typed
<1>1. Nothing \in [Output -> Entry \cup {None}]
  BY DEF Nothing
<1>2. NoRecord \in Entry
  BY LogAssumption DEF NoRecord, Entry
<1>3. [o \in Output |-> {}] \in [Output -> SUBSET Entry]
  OBVIOUS
<1> QED BY <1>1, <1>2, <1>3 DEF Init, Typed, TypeOK

(* A session that ends leaves the disk to the action.                      *)
LEMMA ClosedTyped ==
  ASSUME Closed,
         file' = Missing \/ file' \in Seq(Lines),
         eol' \in BOOLEAN /\ torn' \in BOOLEAN,
         ~eol' => file' # Missing /\ torn' /\ file' # << >>,
         last' \in [Output -> Entry \cup {None}] /\ ever' \in [Output -> SUBSET Entry]
  PROVE  Typed'
<1>1. Nothing \in [Output -> Entry \cup {None}] /\ NoRecord \in Entry
  BY LogAssumption DEF Nothing, NoRecord, Entry
<1> QED BY <1>1 DEF Closed, Typed, TypeOK

LEMMA StartTyped ==
  ASSUME Typed, NEW t \in {"build", "dry", "recompact", "restat"}, NEW u \in User, Start(t, u)
  PROVE  Typed'
<1>1. Read(file) \in [Output -> Entry \cup {None}]
  BY ReadTyped DEF Typed, TypeOK
<1>2. pc' \in {"idle", "create", "off"}
  BY DEF Start
<1> QED BY <1>1, <1>2 DEF Start, Typed, TypeOK, history

LEMMA CreateTempTyped ==
  ASSUME Typed, CreateTemp
  PROVE  Typed'
<1>1. /\ file' \in Seq(Lines) /\ file' \notin {Missing, << >>}
      /\ <<Version>> \in Seq(Lines) /\ Whole(<<Version>>)
  BY WithVersionLines, ReadNothing DEF CreateTemp, Typed, TypeOK
<1>2. eol' \in BOOLEAN /\ (~eol' => ~eol /\ file' # Missing /\ torn')
  BY <1>1 DEF CreateTemp, Typed, TypeOK, history
<1>3. todo' \in SUBSET {o \in Output : entries'[o] # None}
  BY DEF CreateTemp
<1> QED BY <1>1, <1>2, <1>3 DEF CreateTemp, Typed, TypeOK, history

(* A line is added to the temporary file.                                  *)
LEMMA TempGrows ==
  ASSUME Typed, Whole(temp), NEW o \in Output, NEW e \in Entry
  PROVE  Append(temp, Line(o, e)) \in Seq(Lines) /\ Whole(Append(temp, Line(o, e)))
BY ReadAppend DEF Typed, TypeOK, Whole

LEMMA CopyEntryTyped ==
  ASSUME Typed, CopyEntry
  PROVE  Typed'
<1>1. PICK o \in todo : /\ todo' = todo \ {o}
                        /\ temp' = IF o \in user THEN temp ELSE Append(temp, Line(o, entries[o]))
  BY DEF CopyEntry
<1>2. pc = "copy" /\ pc' = "copy" /\ Whole(temp) /\ o \in Output /\ entries[o] \in Entry
  BY DEF CopyEntry, Typed, TypeOK
<1>3. (temp' = Missing \/ temp' \in Seq(Lines)) /\ Whole(temp')
  BY <1>1, <1>2, TempGrows DEF Typed, TypeOK
<1>4. todo' \in SUBSET {p \in Output : entries'[p] # None}
  BY <1>1, <1>2 DEF CopyEntry, Typed
<1> QED BY <1>2, <1>3, <1>4 DEF CopyEntry, Typed, TypeOK, disk, history

LEMMA RestatEntryTyped ==
  ASSUME Typed, RestatEntry
  PROVE  Typed'
<1>1. PICK o \in todo, m \in 0 .. MaxMtime :
        /\ todo' = todo \ {o}
        /\ entries' = [entries EXCEPT ![o].mtime = m]
        /\ temp' = Append(temp, Line(o, entries'[o]))
  BY DEF RestatEntry
<1>2. pc = "copy" /\ pc' = "copy" /\ Whole(temp) /\ o \in Output /\ entries[o] \in Entry
  BY DEF RestatEntry, Typed, TypeOK
<1>3. /\ entries' \in [Output -> Entry \cup {None}] /\ entries'[o] \in Entry
      /\ \A p \in Output \ {o} : entries'[p] = entries[p]
  BY <1>1, <1>2 DEF Typed, TypeOK, Entry
<1>4. temp' \in Seq(Lines) /\ Whole(temp')
  BY <1>1, <1>2, <1>3, TempGrows
<1>5. todo' \in SUBSET {p \in Output : entries'[p] # None}
  BY <1>1, <1>2, <1>3 DEF Typed
<1> QED BY <1>2, <1>3, <1>4, <1>5 DEF RestatEntry, Typed, TypeOK, disk, history

LEMMA ReplaceLogTyped ==
  ASSUME Typed, ReplaceLog
  PROVE  Typed'
<1>1. /\ temp \in Seq(Lines) /\ ~handle
      /\ pc' \in {"idle", "off"} /\ file' = temp /\ eol' = TRUE /\ temp' = Missing
  BY DEF ReplaceLog, Typed, TypeOK, Whole
<1>2. /\ entries' \in [Output -> Entry \cup {None}]
      /\ last' \in [Output -> Entry \cup {None}]
  BY DEF ReplaceLog, Typed, TypeOK
<1> QED BY <1>1, <1>2 DEF ReplaceLog, Typed, TypeOK

LEMMA ReplaceTempTyped ==
  ASSUME Typed, ReplaceTemp
  PROVE  Typed'
<1>1. last' \in [Output -> Entry \cup {None}] /\ ever' \in [Output -> SUBSET Entry]
  BY DEF ReplaceTemp, Nothing
<1> QED BY <1>1, ClosedTyped DEF ReplaceTemp, Typed, TypeOK

LEMMA RecordCommandTyped ==
  ASSUME Typed, NEW e \in Edge, NEW h \in Hash, NEW m \in 0 .. MaxMtime, RecordCommand(e, h, m)
  PROVE  Typed'
<1>1. e \in Seq(Output) /\ e # << >>
  <2>1. e \in Seq(ToSet(e)) /\ e # << >>
    BY LogAssumption
  <2>2. ToSet(e) \subseteq Output
    BY DEF Output
  <2> QED BY <2>1, <2>2
<1>2. rec' \in Entry /\ rec'.hash \in Hash
  BY DEF RecordCommand, Entry
<1> QED BY <1>1, <1>2 DEF RecordCommand, Typed, TypeOK, disk, history

LEMMA OpenForWriteIfNeededTyped ==
  ASSUME Typed, OpenForWriteIfNeeded
  PROVE  Typed'
<1>1. file' \in Seq(Lines) /\ file' \notin {Missing, << >>}
  BY WithVersionLines DEF OpenForWriteIfNeeded, Typed, TypeOK
<1>2. eol' \in BOOLEAN /\ (~eol' => ~eol /\ file' # Missing /\ torn')
  BY <1>1 DEF OpenForWriteIfNeeded, Typed, TypeOK, history
<1> QED BY <1>1, <1>2 DEF OpenForWriteIfNeeded, Typed, TypeOK, history

(* What RecordCommand is about to write.                                   *)
LEMMA ToRecord ==
  ASSUME Typed, pc = "record"
  PROVE  /\ Head(todo) \in Output /\ rec \in Entry /\ rec.hash \in Hash
         /\ Tail(todo) \in Seq(Output)
         /\ Line(Head(todo), rec) \in Records /\ Line(Head(todo), rec) \in Lines
<1>1. todo \in Seq(Output) /\ todo # << >> /\ rec \in Entry /\ rec.hash \in Hash
  BY DEF Typed, TypeOK
<1>2. Head(todo) \in Output /\ Tail(todo) \in Seq(Output)
  BY <1>1, ToSetHeadTail
<1> QED BY <1>1, <1>2, LineOfEntry DEF Lines

LEMMA WriteEntryTyped ==
  ASSUME Typed, WriteEntry
  PROVE  Typed'
<1> DEFINE o == Head(todo)
<1>1. /\ o \in Output /\ rec \in Entry /\ rec.hash \in Hash /\ Tail(todo) \in Seq(Output)
      /\ Line(o, rec) \in Lines
  BY ToRecord DEF WriteEntry
<1>2. /\ entries' = [entries EXCEPT ![o] = rec]
      /\ file' \in Appended(file, Line(o, rec))
      /\ last' = [last EXCEPT ![o] = rec]
      /\ ever' = [ever EXCEPT ![o] = @ \cup {rec}]
  BY DEF WriteEntry
<1> HIDE DEF o
<1>3. /\ entries' \in [Output -> Entry \cup {None}] /\ last' \in [Output -> Entry \cup {None}]
      /\ ever' \in [Output -> SUBSET Entry]
  BY <1>1, <1>2 DEF Typed, TypeOK
<1>4. file \in Seq(Lines) /\ (~eol => file # << >>)
  BY DEF Typed, TypeOK, WriteEntry
<1>5. file' \in Seq(Lines) /\ file' # << >>
  BY <1>1, <1>2, <1>4, AppendedLines
<1>6. file' # Missing
  BY <1>5, NilsAreNone
<1>7. NoRecord \in Entry
  BY LogAssumption DEF NoRecord, Entry
<1>8. pc' \in {"idle", "record"} /\ (pc' = "record" => todo' \in Seq(Output) /\ todo' # << >>)
  BY <1>1 DEF WriteEntry
<1>9. rec' \in Entry /\ (pc' = "record" => rec'.hash \in Hash)
  BY <1>1, <1>7 DEF WriteEntry
<1>10. eol' = TRUE /\ UNCHANGED <<temp, handle, tool, user, torn>> /\ pc = "record"
  BY DEF WriteEntry
<1> QED BY <1>3, <1>5, <1>6, <1>8, <1>9, <1>10 DEF Typed, TypeOK

LEMMA TearVersionTyped ==
  ASSUME Typed, TearVersion
  PROVE  Typed'
<1>1. Version \in Lines /\ BadVersion \in Lines
  BY DEF Lines
<1>2. /\ <<Version>> \in Seq(Lines) /\ <<BadVersion>> \in Seq(Lines) /\ << >> \in Seq(Lines)
      /\ <<Version>> # << >> /\ <<BadVersion>> # << >>
  BY <1>1
<1>3. file' \in Seq(Lines) /\ eol' \in BOOLEAN /\ (~eol' => file' # << >>)
  BY <1>2 DEF TearVersion
<1>4. file' # Missing
  BY <1>3, NilsAreNone
<1>5. Closed /\ torn' = TRUE /\ UNCHANGED <<last, ever>>
  BY DEF TearVersion
<1> QED BY <1>3, <1>4, <1>5, ClosedTyped DEF Typed, TypeOK

LEMMA TearRecordTyped ==
  ASSUME Typed, TearRecord
  PROVE  Typed'
<1> DEFINE o == Head(todo)
<1>1. o \in Output /\ rec \in Entry
  BY ToRecord DEF TearRecord
<1>2. PICK l \in Cuts(Line(o, rec)) : file' \in Appended(file, l)
  BY DEF TearRecord
<1>3. ever' = [ever EXCEPT ![o] = @ \cup {rec}] /\ Closed /\ torn' = TRUE /\ eol' = FALSE
      /\ last' = last
  BY DEF TearRecord
<1> HIDE DEF o
<1>4. l \in Lines
  BY <1>1, <1>2, CutLines
<1>5. file \in Seq(Lines) /\ (~eol => file # << >>)
  BY DEF Typed, TypeOK, TearRecord
<1>6. file' \in Seq(Lines) /\ file' # << >>
  BY <1>2, <1>4, <1>5, AppendedLines
<1>7. file' # Missing
  BY <1>6, NilsAreNone
<1>8. ever' \in [Output -> SUBSET Entry]
  BY <1>1, <1>3 DEF Typed, TypeOK
<1> QED BY <1>3, <1>6, <1>7, <1>8, ClosedTyped DEF Typed, TypeOK

LEMMA TypedPreserved == Typed /\ [Next]_vars => Typed'
<1> SUFFICES ASSUME Typed, [Next]_vars PROVE Typed'
  OBVIOUS
<1>1. CASE \E t \in {"build", "dry", "recompact", "restat"}, u \in User : Start(t, u)
  BY <1>1, StartTyped
<1>2. CASE CreateTemp
  BY <1>2, CreateTempTyped
<1>3. CASE CopyEntry
  BY <1>3, CopyEntryTyped
<1>4. CASE IsPathDeadPanics
  BY <1>4 DEF IsPathDeadPanics, Typed, TypeOK, disk, session, history
<1>5. CASE RestatEntry
  BY <1>5, RestatEntryTyped
<1>6. CASE ReplaceLog
  BY <1>6, ReplaceLogTyped
<1>7. CASE ReplaceTemp
  BY <1>7, ReplaceTempTyped
<1>8. CASE \E e \in Edge, h \in Hash, m \in 0 .. MaxMtime : RecordCommand(e, h, m)
  BY <1>8, RecordCommandTyped
<1>9. CASE OpenForWriteIfNeeded
  BY <1>9, OpenForWriteIfNeededTyped
<1>10. CASE WriteEntry
  BY <1>10, WriteEntryTyped
<1>11. CASE TearVersion
  BY <1>11, TearVersionTyped
<1>12. CASE TearRecord
  BY <1>12, TearRecordTyped
<1>13. CASE EndSession
  BY <1>13, ClosedTyped DEF EndSession, Typed, TypeOK, disk, history
<1>14. CASE UNCHANGED vars
  BY <1>14 DEF vars, Typed, TypeOK, Whole, disk, session, history
<1> QED BY <1>1, <1>2, <1>3, <1>4, <1>5, <1>6, <1>7, <1>8, <1>9, <1>10, <1>11, <1>12, <1>13,
           <1>14 DEF Next

(* Every variable of the log holds what the code can put there.            *)
THEOREM LogTyped == Spec => []TypeOK
<1>1. Typed => TypeOK
  BY DEF Typed
<1> QED BY <1>1, InitTyped, TypedPreserved, PTL DEF Spec
---------------------------------------------------------------------------
(* Nothing is lost *)

(* What a recompaction has copied so far.                                  *)
Copied == [o \in Output |-> IF o \in Dead \cup todo THEN None ELSE entries[o]]

(* As long as no write was cut short the file starts with its version line *)
(* and holds the last record of each output, the session knows what the    *)
(* file holds, and the temporary file what was copied of it.               *)
DInv ==
  ~torn => /\ file # Missing => Whole(file)
           /\ Read(file) = last
           /\ pc \in {"idle", "record", "create"} => entries = last
           /\ pc = "copy" /\ tool # "restat" => entries = last /\ Read(temp) = Copied

LEMMA InitDInv == Init => DInv
BY ReadNothing DEF Init, DInv

(* Opening a log for writing loses and adds nothing.                       *)
LEMMA OpenedReadsSame ==
  ASSUME DInv, ~torn
  PROVE  LET g == WithVersion(file) IN Whole(g) /\ Read(g) = last
<1>1. CASE file = Missing
  BY <1>1, ReadNothing DEF DInv, WithVersion
<1>2. CASE file # Missing
  BY <1>2 DEF DInv, Whole, WithVersion
<1> QED BY <1>1, <1>2

(* A session that ends leaves a file that reads as before.                 *)
LEMMA ClosedDurable ==
  ASSUME Closed, ~torn' => (file' # Missing => Whole(file')) /\ Read(file') = last'
  PROVE  DInv'
<1>1. pc' = "off"
  BY DEF Closed
<1> QED BY <1>1 DEF DInv, Whole, Read, Usable, At, RecordAt

LEMMA StartDurable ==
  ASSUME Typed, DInv, NEW t \in {"build", "dry", "recompact", "restat"}, NEW u \in User,
         Start(t, u)
  PROVE  DInv'
<1> SUFFICES ASSUME ~torn' PROVE DInv'
  BY DEF DInv
<1>1. ~torn /\ last' = last /\ entries' = Read(file) /\ pc' \in {"idle", "create", "off"}
  BY DEF Start, history
<1>2. file' = file
  BY <1>1 DEF Start, DInv, Whole, Usable
<1> QED BY <1>1, <1>2 DEF DInv

LEMMA CreateTempDurable ==
  ASSUME Typed, DInv, CreateTemp
  PROVE  DInv'
<1> SUFFICES ASSUME ~torn' PROVE DInv'
  BY DEF DInv
<1>1. ~torn /\ last' = last /\ entries' = last /\ pc' = "copy"
  BY DEF CreateTemp, DInv, history
<1>2. file' = WithVersion(file)
  BY DEF CreateTemp
<1>3. Whole(file') /\ Read(file') = last'
  BY <1>1, <1>2, OpenedReadsSame
<1>4. Read(temp') = Nothing
  BY ReadNothing DEF CreateTemp
<1>5. Copied' = Nothing
  <2>1. \A o \in Output : o \notin todo' => entries'[o] = None
    BY DEF CreateTemp
  <2> QED BY <2>1 DEF Copied, Nothing
<1> QED BY <1>1, <1>3, <1>4, <1>5 DEF DInv

LEMMA CopyEntryDurable ==
  ASSUME Typed, DInv, CopyEntry
  PROVE  DInv'
<1> SUFFICES ASSUME ~torn' PROVE DInv'
  BY DEF DInv
<1>1. PICK o \in todo : /\ todo' = todo \ {o}
                        /\ temp' = IF o \in user THEN temp ELSE Append(temp, Line(o, entries[o]))
  BY DEF CopyEntry
<1>2. /\ ~torn /\ last' = last /\ file' = file /\ entries' = entries /\ pc' = "copy"
      /\ pc = "copy" /\ tool # "restat" /\ user # NilUser /\ user' = user /\ tool' = tool
  BY DEF CopyEntry, disk, history
<1>3. entries = last /\ Read(temp) = Copied /\ Read(file) = last /\ (file # Missing => Whole(file))
  BY <1>2 DEF DInv
<1>4. o \in Output /\ entries[o] \in Entry /\ Whole(temp) /\ temp \in Seq(Lines)
  BY <1>2 DEF Typed, TypeOK, Whole
<1>5. Dead = user /\ Dead' = user
  BY <1>2 DEF Dead
<1>6. Read(temp') = Copied'
  <2>1. CASE o \in user
    BY <1>1, <1>2, <1>3, <1>5, <2>1 DEF Copied
  <2>2. CASE o \notin user
    <3>1. Read(temp') = [Copied EXCEPT ![o] = entries[o]]
      BY <1>1, <1>3, <1>4, <2>2, ReadAppend
    <3> QED BY <1>1, <1>2, <1>4, <1>5, <2>2, <3>1 DEF Copied
  <2> QED BY <2>1, <2>2
<1> QED BY <1>2, <1>3, <1>6 DEF DInv

LEMMA RestatEntryDurable ==
  ASSUME Typed, DInv, RestatEntry
  PROVE  DInv'
<1>1. /\ torn' = torn /\ last' = last /\ file' = file /\ pc' = "copy" /\ tool' = "restat"
  BY DEF RestatEntry, disk, history
<1> QED BY <1>1 DEF DInv

LEMMA ReplaceLogDurable ==
  ASSUME Typed, DInv, ReplaceLog
  PROVE  DInv'
<1> SUFFICES ASSUME ~torn' PROVE DInv'
  BY DEF DInv
<1>1. /\ ~torn /\ pc = "copy" /\ tool # "restat" /\ todo = {} /\ file' = temp
      /\ pc' \in {"idle", "off"} /\ tool' = tool
  BY DEF ReplaceLog
<1>2. entries = last /\ Read(temp) = Copied /\ Whole(temp)
  BY <1>1 DEF DInv, Typed
<1>3. entries' = Copied /\ last' = Copied
  BY <1>1, <1>2 DEF ReplaceLog, Copied
<1> QED BY <1>1, <1>2, <1>3 DEF DInv

LEMMA ReplaceTempDurable ==
  ASSUME Typed, DInv, ReplaceTemp
  PROVE  DInv'
BY ClosedDurable, ReadNothing DEF ReplaceTemp

LEMMA RecordCommandDurable ==
  ASSUME Typed, DInv, NEW e \in Edge, NEW h \in Hash, NEW m \in 0 .. MaxMtime,
         RecordCommand(e, h, m)
  PROVE  DInv'
<1>1. /\ torn' = torn /\ last' = last /\ file' = file /\ entries' = entries
      /\ pc = "idle" /\ pc' = "record"
  BY DEF RecordCommand, disk, history
<1> QED BY <1>1 DEF DInv

LEMMA OpenForWriteIfNeededDurable ==
  ASSUME Typed, DInv, OpenForWriteIfNeeded
  PROVE  DInv'
<1> SUFFICES ASSUME ~torn' PROVE DInv'
  BY DEF DInv
<1>1. /\ ~torn /\ last' = last /\ entries' = entries /\ pc = "record" /\ pc' = "record"
      /\ file' = WithVersion(file)
  BY DEF OpenForWriteIfNeeded, history
<1>2. Whole(file') /\ Read(file') = last'
  BY <1>1, OpenedReadsSame
<1> QED BY <1>1, <1>2 DEF DInv

LEMMA WriteEntryDurable ==
  ASSUME Typed, DInv, WriteEntry
  PROVE  DInv'
<1> SUFFICES ASSUME ~torn' PROVE DInv'
  BY DEF DInv
<1> DEFINE o == Head(todo)
<1>1. o \in Output /\ rec \in Entry
  BY ToRecord DEF WriteEntry
<1>2. /\ ~torn /\ pc = "record" /\ pc' \in {"idle", "record"}
      /\ entries' = [entries EXCEPT ![o] = rec]
      /\ file' \in Appended(file, Line(o, rec))
      /\ last' = [last EXCEPT ![o] = rec]
  BY DEF WriteEntry
<1> HIDE DEF o
<1>3. file # Missing /\ file \in Seq(Lines) /\ eol
  BY <1>2 DEF Typed, TypeOK, WriteEntry
<1>4. file' = Append(file, Line(o, rec))
  BY <1>2, <1>3 DEF Appended
<1>5. Whole(file) /\ Read(file) = last /\ entries = last
  BY <1>2, <1>3 DEF DInv
<1>6. Whole(file') /\ Read(file') = last'
  BY <1>1, <1>2, <1>3, <1>4, <1>5, ReadAppend
<1>7. entries' = last'
  BY <1>2, <1>5
<1> QED BY <1>2, <1>6, <1>7 DEF DInv

LEMMA DInvPreserved == Typed /\ DInv /\ [Next]_vars => DInv'
<1> SUFFICES ASSUME Typed, DInv, [Next]_vars PROVE DInv'
  OBVIOUS
<1>1. CASE \E t \in {"build", "dry", "recompact", "restat"}, u \in User : Start(t, u)
  BY <1>1, StartDurable
<1>2. CASE CreateTemp
  BY <1>2, CreateTempDurable
<1>3. CASE CopyEntry
  BY <1>3, CopyEntryDurable
<1>4. CASE IsPathDeadPanics
  BY <1>4 DEF IsPathDeadPanics, DInv, disk, session, history
<1>5. CASE RestatEntry
  BY <1>5, RestatEntryDurable
<1>6. CASE ReplaceLog
  BY <1>6, ReplaceLogDurable
<1>7. CASE ReplaceTemp
  BY <1>7, ReplaceTempDurable
<1>8. CASE \E e \in Edge, h \in Hash, m \in 0 .. MaxMtime : RecordCommand(e, h, m)
  BY <1>8, RecordCommandDurable
<1>9. CASE OpenForWriteIfNeeded
  BY <1>9, OpenForWriteIfNeededDurable
<1>10. CASE WriteEntry
  BY <1>10, WriteEntryDurable
<1>11. CASE TearVersion \/ TearRecord
  BY <1>11 DEF TearVersion, TearRecord, DInv
<1>12. CASE EndSession
  <2>1. Closed /\ file' = file /\ last' = last /\ torn' = torn
    BY <1>12 DEF EndSession, disk, history
  <2> QED BY <2>1, ClosedDurable DEF DInv
<1>13. CASE UNCHANGED vars
  <2>1. UNCHANGED <<file, last, entries, temp, pc, tool, torn, user, todo>>
    BY <1>13 DEF vars, disk, session, history
  <2>2. Copied' = Copied
    BY <2>1 DEF Copied, Dead
  <2> QED BY <2>1, <2>2 DEF DInv
<1> QED BY <1>1, <1>2, <1>3, <1>4, <1>5, <1>6, <1>7, <1>8, <1>9, <1>10, <1>11, <1>12, <1>13
     DEF Next

(* Until a write is torn the file reads, at every moment, as the last      *)
(* record of each output that was written completely and not recompacted   *)
(* away as dead, and the session that uses it knows the same.              *)
THEOREM NoRecordLost == Spec => []Durable
<1>1. DInv => Durable
  BY DEF DInv, Durable
<1> QED BY <1>1, InitTyped, TypedPreserved, InitDInv, DInvPreserved, PTL DEF Spec

---------------------------------------------------------------------------
(* Nothing is made up *)

(* A record of f that carries the hash of a command was written by it.     *)
Written(f) ==
  f # Missing => \A i \in RecordAt(f) : f[i].hash \in Hash =>
                   [hash |-> f[i].hash, mtime |-> f[i].mtime] \in ever[f[i].out]

(* So it is in the log, and in what a recompaction has of it.  A restat    *)
(* writes mtimes nobody recorded, but what it wrote is removed.            *)
GInv ==
  /\ Written(file)
  /\ tool # "restat" =>
       /\ Written(temp)
       /\ \A o \in Output : entries[o] # None /\ entries[o].hash \in Hash => entries[o] \in ever[o]

LEMMA InitGInv == Init => GInv
BY DEF Init, GInv, Written, Nothing

(* What is read from such a file was written.                              *)
LEMMA ReadWritten ==
  ASSUME NEW f, f = Missing \/ f \in Seq(Lines), Written(f),
         NEW o \in Output, Read(f)[o] # None, Read(f)[o].hash \in Hash
  PROVE  Read(f)[o] \in ever[o]
<1>1. Usable(f) /\ At(f, o) # {}
  BY DEF Read
<1>2. f # Missing /\ f \in Seq(Lines)
  BY <1>1 DEF Usable
<1>3. PICK i \in At(f, o) : Read(f)[o] = [hash |-> f[i].hash, mtime |-> f[i].mtime]
  BY <1>1, <1>2, LastRecord
<1>4. i \in RecordAt(f) /\ f[i].out = o
  BY DEF At
<1> QED BY <1>2, <1>3, <1>4 DEF Written

(* A log of only the version line has no records.                          *)
LEMMA VersionWritten ==
  ASSUME NEW f \in {Missing, << >>, <<Version>>, <<BadVersion>>}
  PROVE  Written(f)
<1>1. f # Missing => RecordAt(f) = {}
  BY OtherLines DEF RecordAt
<1> QED BY <1>1 DEF Written

(* A write adds at most the record it was to write, or one without a hash. *)
LEMMA AppendWritten ==
  ASSUME NEW f \in Seq(Lines), ~eol => f # << >>, Written(f),
         NEW l \in Lines, NEW g \in Appended(f, l),
         NEW o \in Output, NEW e \in Entry,
         l \in Records => l = Line(o, e) \/ l.hash = NoHash,
         \A p \in Output : ever[p] \subseteq ever'[p],
         e.hash \in Hash => e \in ever'[o]
  PROVE  \A i \in RecordAt(g) : g[i].hash \in Hash =>
           [hash |-> g[i].hash, mtime |-> g[i].mtime] \in ever'[g[i].out]
<1> SUFFICES ASSUME NEW i \in RecordAt(g), g[i].hash \in Hash
             PROVE  [hash |-> g[i].hash, mtime |-> g[i].mtime] \in ever'[g[i].out]
  OBVIOUS
<1>1. i \in DOMAIN g /\ g[i] \in Records /\ g[i].hash # NoHash
  BY LogAssumption DEF RecordAt
<1>2. (i \in DOMAIN f /\ g[i] = f[i]) \/ g[i] = l
  BY <1>1, AppendedLines
<1>3. CASE i \in DOMAIN f /\ g[i] = f[i]
  <2>1. i \in RecordAt(f)
    BY <1>1, <1>3 DEF RecordAt
  <2>2. f # Missing
    BY NilsAreNone
  <2>3. [hash |-> f[i].hash, mtime |-> f[i].mtime] \in ever[f[i].out]
    BY <1>3, <2>1, <2>2 DEF Written
  <2>4. f[i].out \in Output
    BY <1>1, <1>3 DEF Records
  <2> QED BY <1>3, <2>3, <2>4
<1>4. CASE g[i] = l
  <2>1. g[i] = Line(o, e)
    BY <1>1, <1>4
  <2> QED BY <2>1, LineOfEntry
<1> QED BY <1>2, <1>3, <1>4

(* A session that ends keeps nothing but the file.                         *)
LEMMA ClosedWritten ==
  ASSUME Closed, Written(file)'
  PROVE  GInv'
<1>1. temp' = Missing /\ entries' = Nothing
  BY DEF Closed
<1> QED BY <1>1 DEF GInv, Written, Nothing

LEMMA StartWritten ==
  ASSUME Typed, GInv, NEW t \in {"build", "dry", "recompact", "restat"}, NEW u \in User,
         Start(t, u)
  PROVE  GInv'
<1>1. /\ ever' = ever /\ entries' = Read(file) /\ file' \in {file, Missing}
      /\ temp' = Missing /\ (file = Missing \/ file \in Seq(Lines))
  BY DEF Start, history, Typed, TypeOK
<1>2. Written(file)' /\ Written(temp)'
  BY <1>1 DEF GInv, Written
<1>3. Written(file)
  BY DEF GInv
<1>4. \A o \in Output : entries'[o] # None /\ entries'[o].hash \in Hash => entries'[o] \in ever'[o]
  BY <1>1, <1>3, ReadWritten
<1> QED BY <1>2, <1>4 DEF GInv

LEMMA OpenedWritten ==
  ASSUME GInv, ever' = ever, file' = WithVersion(file)
  PROVE  Written(file)'
<1>1. CASE file \in {Missing, << >>}
  <2>1. Written(<<Version>>)
    BY VersionWritten
  <2> QED BY <1>1, <2>1 DEF Written, WithVersion
<1>2. CASE file \notin {Missing, << >>}
  BY <1>2 DEF GInv, Written, WithVersion
<1> QED BY <1>1, <1>2

LEMMA CreateTempWritten ==
  ASSUME Typed, GInv, CreateTemp
  PROVE  GInv'
<1>1. /\ ever' = ever /\ entries' = entries /\ tool' = tool /\ temp' = <<Version>>
      /\ file' = WithVersion(file)
  BY DEF CreateTemp, history
<1>2. Written(<<Version>>)
  BY VersionWritten
<1>3. Written(temp)'
  BY <1>1, <1>2 DEF Written
<1> QED BY <1>1, <1>3, OpenedWritten DEF GInv

LEMMA CopyEntryWritten ==
  ASSUME Typed, GInv, CopyEntry
  PROVE  GInv'
<1>1. PICK o \in todo : temp' = IF o \in user THEN temp ELSE Append(temp, Line(o, entries[o]))
  BY DEF CopyEntry
<1>2. /\ ever' = ever /\ entries' = entries /\ file' = file /\ tool' = tool
      /\ pc = "copy" /\ tool # "restat"
  BY DEF CopyEntry, disk, history
<1>3. o \in Output /\ entries[o] \in Entry /\ temp # Missing /\ temp \in Seq(Lines)
  BY <1>2 DEF Typed, TypeOK, Whole
<1>4. Written(temp) /\ (entries[o].hash \in Hash => entries[o] \in ever[o])
  BY <1>2, <1>3, NilsAreNone DEF GInv
<1>5. Written(temp)'
  <2>1. CASE o \in user
    BY <1>1, <1>2, <1>4, <2>1 DEF Written
  <2>2. CASE o \notin user
    <3> DEFINE l == Line(o, entries[o])
               g == Append(temp, l)
    <3>1. /\ l \in Lines /\ l.out = o
          /\ l.hash = entries[o].hash /\ [hash |-> l.hash, mtime |-> l.mtime] = entries[o]
      BY <1>3, LineOfEntry DEF Lines
    <3> HIDE DEF l
    <3>2. /\ DOMAIN g = 1 .. Len(temp) + 1 /\ g[Len(temp) + 1] = l
          /\ DOMAIN temp = 1 .. Len(temp) /\ \A i \in 1 .. Len(temp) : g[i] = temp[i]
      BY <1>3, <3>1, AppendProperties
    <3> HIDE DEF g
    <3>3. ASSUME NEW i \in RecordAt(g), g[i].hash \in Hash
          PROVE  [hash |-> g[i].hash, mtime |-> g[i].mtime] \in ever[g[i].out]
      <4>1. CASE g[i] = l
        BY <1>4, <3>1, <3>3, <4>1
      <4>2. CASE g[i] # l
        <5>1. i \in RecordAt(temp) /\ g[i] = temp[i]
          BY <3>2, <4>2 DEF RecordAt
        <5> QED BY <1>3, <1>4, <3>3, <5>1 DEF Written
      <4> QED BY <4>1, <4>2
    <3>4. temp' = g
      BY <1>1, <2>2 DEF g, l
    <3> QED BY <1>2, <3>3, <3>4 DEF Written
  <2> QED BY <2>1, <2>2
<1> QED BY <1>2, <1>5 DEF GInv, Written

LEMMA ReplaceLogWritten ==
  ASSUME Typed, GInv, ReplaceLog
  PROVE  GInv'
<1>1. /\ ever' = ever /\ file' = temp /\ temp' = Missing /\ tool # "restat"
      /\ \A o \in Output : entries'[o] = None \/ entries'[o] = entries[o]
  BY DEF ReplaceLog
<1> QED BY <1>1 DEF GInv, Written

LEMMA WriteEntryWritten ==
  ASSUME Typed, GInv, WriteEntry
  PROVE  GInv'
<1> DEFINE o == Head(todo)
<1>1. o \in Output /\ rec \in Entry /\ Line(o, rec) \in Lines
  BY ToRecord DEF WriteEntry
<1>2. /\ entries' = [entries EXCEPT ![o] = rec]
      /\ file' \in Appended(file, Line(o, rec))
      /\ ever' = [ever EXCEPT ![o] = @ \cup {rec}]
      /\ tool' = tool /\ temp' = temp /\ pc = "record"
  BY DEF WriteEntry
<1> HIDE DEF o
<1>3. file \in Seq(Lines) /\ (~eol => file # << >>) /\ Written(file) /\ temp = Missing
  BY <1>2 DEF Typed, TypeOK, WriteEntry, GInv
<1>4. (\A p \in Output : ever[p] \subseteq ever'[p]) /\ rec \in ever'[o]
  BY <1>1, <1>2 DEF Typed, TypeOK
<1>5. Written(file)'
  BY <1>1, <1>2, <1>3, <1>4, AppendWritten DEF Written
<1>6. tool # "restat" => \A p \in Output :
        entries'[p] # None /\ entries'[p].hash \in Hash => entries'[p] \in ever'[p]
  BY <1>1, <1>2, <1>4 DEF GInv, Typed, TypeOK
<1> QED BY <1>2, <1>3, <1>5, <1>6 DEF GInv, Written

LEMMA TearVersionWritten ==
  ASSUME Typed, GInv, TearVersion
  PROVE  GInv'
<1>1. file' \in {<< >>, <<BadVersion>>, <<Version>>} /\ Closed
  BY DEF TearVersion
<1>2. RecordAt(file') = {}
  BY <1>1, OtherLines DEF RecordAt
<1> QED BY <1>1, <1>2, ClosedWritten DEF Written, RecordAt

LEMMA TearRecordWritten ==
  ASSUME Typed, GInv, TearRecord
  PROVE  GInv'
<1> DEFINE o == Head(todo)
<1>1. o \in Output /\ rec \in Entry
  BY ToRecord DEF TearRecord
<1>2. PICK l \in Cuts(Line(o, rec)) : file' \in Appended(file, l)
  BY DEF TearRecord
<1>3. ever' = [ever EXCEPT ![o] = @ \cup {rec}] /\ Closed
  BY DEF TearRecord
<1> HIDE DEF o
<1>4. l \in Lines /\ (l \in Records => l = Line(o, rec) \/ l.hash = NoHash)
  BY <1>1, <1>2, CutLines
<1>5. file \in Seq(Lines) /\ (~eol => file # << >>) /\ Written(file)
  BY DEF Typed, TypeOK, TearRecord, GInv
<1>6. (\A p \in Output : ever[p] \subseteq ever'[p]) /\ rec \in ever'[o]
  BY <1>1, <1>3 DEF Typed, TypeOK
<1>7. Written(file)'
  BY <1>1, <1>2, <1>4, <1>5, <1>6, AppendWritten DEF Written
<1> QED BY <1>3, <1>7, ClosedWritten

LEMMA GInvPreserved == Typed /\ GInv /\ [Next]_vars => GInv'
<1> SUFFICES ASSUME Typed, GInv, [Next]_vars PROVE GInv'
  OBVIOUS
<1>1. CASE \E t \in {"build", "dry", "recompact", "restat"}, u \in User : Start(t, u)
  BY <1>1, StartWritten
<1>2. CASE CreateTemp
  BY <1>2, CreateTempWritten
<1>3. CASE CopyEntry
  BY <1>3, CopyEntryWritten
<1>4. CASE IsPathDeadPanics
  BY <1>4 DEF IsPathDeadPanics, GInv, Written, disk, session, history
<1>5. CASE RestatEntry
  BY <1>5 DEF RestatEntry, GInv, Written, disk, history
<1>6. CASE ReplaceLog
  BY <1>6, ReplaceLogWritten
<1>7. CASE ReplaceTemp
  <2>1. Closed /\ Written(file)'
    BY <1>7 DEF ReplaceTemp, Written
  <2> QED BY <2>1, ClosedWritten
<1>8. CASE \E e \in Edge, h \in Hash, m \in 0 .. MaxMtime : RecordCommand(e, h, m)
  BY <1>8 DEF RecordCommand, GInv, Written, disk, history
<1>9. CASE OpenForWriteIfNeeded
  <2>1. UNCHANGED <<temp, entries, tool, ever>> /\ file' = WithVersion(file)
    BY <1>9 DEF OpenForWriteIfNeeded, history
  <2>2. Written(file)'
    BY <2>1, OpenedWritten
  <2> QED BY <2>1, <2>2 DEF GInv, Written
<1>10. CASE WriteEntry
  BY <1>10, WriteEntryWritten
<1>11. CASE TearVersion
  BY <1>11, TearVersionWritten
<1>12. CASE TearRecord
  BY <1>12, TearRecordWritten
<1>13. CASE EndSession
  <2>1. Closed /\ Written(file)'
    BY <1>13 DEF EndSession, GInv, Written, disk, history
  <2> QED BY <2>1, ClosedWritten
<1>14. CASE UNCHANGED vars
  BY <1>14 DEF vars, GInv, Written, disk, session, history
<1> QED BY <1>1, <1>2, <1>3, <1>4, <1>5, <1>6, <1>7, <1>8, <1>9, <1>10, <1>11, <1>12, <1>13,
           <1>14 DEF Next

(* Wherever a write is cut, and whatever is written after it, an entry     *)
(* loaded with the hash of a command is one that was recorded for that     *)
(* output: a torn line costs a rebuild and never hides one.                *)
THEOREM NoRecordInvented == Spec => []Genuine
<1>1. Typed /\ GInv => Genuine
  BY ReadWritten DEF Typed, TypeOK, GInv, Genuine
<1> QED BY <1>1, InitTyped, TypedPreserved, InitGInv, GInvPreserved, PTL DEF Spec
=============================================================================
