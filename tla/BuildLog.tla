------------------------------ MODULE BuildLog ------------------------------
(***************************************************************************)
(* .ninja_log (buildlog.go) across sessions: the program is started, reads *)
(* the log, perhaps rewrites it, appends to it, and dies at any moment.    *)
(*                                                                         *)
(* The file is a sequence of lines.  A line is the version line, a record, *)
(* or a scrap: what is left of a record torn before its fifth field.  Only *)
(* the last line can lack its newline; the next line written then          *)
(* continues it.                                                           *)
(***************************************************************************)
EXTENDS Integers, SequencesExt

CONSTANTS
  Edge,            \* the edges that record, each a sequence of outputs
  User,            \* what the BuildLogUser of a session answers: the set of dead
                   \* outputs, or NilUser
  NilUser,         \* NinjaMain: it embeds a BuildLogUser that is nil
  Hash,            \* hashes of commands
  NoHash,          \* what a torn hash reads as: no command has it
  MaxMtime,        \* mtimes are 1..MaxMtime, 0 is "no file"
  MinEntries,      \* kMinCompactionEntryCount
  Ratio,           \* kCompactionRatio
  MaxLines,        \* bound: no record is begun at a longer file
  Missing, None    \* no file; no entry

ASSUME LogAssumption ==
  /\ NoHash \notin Hash
  /\ {MaxMtime, MinEntries, Ratio, MaxLines} \subseteq Nat
  /\ \A e \in Edge : e \in Seq(ToSet(e)) \ {<< >>}

Output == UNION {ToSet(e) : e \in Edge}

VARIABLES
  file,     \* .ninja_log: its lines, or Missing
  eol,      \* its last line is complete
  temp,     \* .ninja_log.recompact or .restat, while it is being written
  entries,  \* entries_
  handle,   \* log_file_ is open
  tool,     \* what the session was started for
  user,     \* the BuildLogUser
  pc,       \* where the session is
  todo,     \* outputs RecordCommand, or paths a copy, has still to write
  rec,      \* what RecordCommand writes for each of them
  last,     \* history: the last complete record of each output
  ever,     \* history: every record begun, by output
  torn      \* history: a write was cut short

disk == <<file, eol>>
session == <<entries, handle, tool, user, todo, rec>>
history == <<last, ever, torn>>
vars == <<disk, temp, session, pc, history>>

Entry == [hash : Hash \cup {NoHash}, mtime : 0..MaxMtime]
Line(o, e) == [out |-> o, hash |-> e.hash, mtime |-> e.mtime]
Records == [out : Output, hash : Hash \cup {NoHash}, mtime : 0..MaxMtime]
Version == [version |-> 7]
BadVersion == [version |-> 0]
Scrap == [fields |-> 4]
Lines == Records \cup {Version, BadVersion, Scrap}

(* No file and no entry are neither a file nor an entry. *)
ASSUME NilsAreNone == Missing \notin Seq(Lines) /\ None \notin Entry

(***************************************************************************)
(* What Load makes of a file.                                              *)
(***************************************************************************)
RecordAt(f) == {i \in DOMAIN f : f[i] \in Records}
At(f, o) == {i \in RecordAt(f) : f[i].out = o}

Usable(f) == f # Missing /\ (f = << >> \/ Head(f) = Version)

Read(f) ==
  [o \in Output |->
     IF ~Usable(f) \/ At(f, o) = {} THEN None
     ELSE LET i == CHOOSE i \in At(f, o) : \A j \in At(f, o) : j <= i
          IN  [hash |-> f[i].hash, mtime |-> f[i].mtime]]

NeedsRecompaction(f) ==
  LET total == Cardinality(RecordAt(f))
      unique == Cardinality({o \in Output : At(f, o) # {}})
  IN  f = << >> \/ (total > MinEntries /\ total > unique * Ratio)

(***************************************************************************)
(* What a write leaves.  Glued is how the torn last line reads once        *)
(* another line has continued it.                                          *)
(***************************************************************************)
Glued(l) == CASE l = Version -> {BadVersion}
              [] l = BadVersion -> {BadVersion, Version}
              [] l = Scrap -> {Scrap}
              [] OTHER -> {[l EXCEPT !.hash = NoHash]}

Appended(f, l) ==
  IF eol THEN {Append(f, l)}
  ELSE {[f EXCEPT ![Len(f)] = g] : g \in Glued(f[Len(f)])}

MutantCuts(l) == {Scrap, [l EXCEPT !.mtime = 0], l}  \* the mtime comes last

Cuts(l) == {Scrap, [l EXCEPT !.hash = NoHash], l}

WithVersion(f) == IF f \in {Missing, << >>} THEN <<Version>> ELSE f

TypeOK ==
  /\ file = Missing \/ file \in Seq(Lines)
  /\ eol \in BOOLEAN /\ handle \in BOOLEAN /\ torn \in BOOLEAN
  /\ ~eol => file # Missing /\ torn
  /\ temp = Missing \/ temp \in Seq(Lines)
  /\ entries \in [Output -> Entry \cup {None}]
  /\ tool \in {"build", "dry", "recompact", "restat"}
  /\ user \in User \cup {NilUser}
  /\ pc \in {"off", "idle", "record", "create", "copy", "panicked"}
  /\ pc = "record" => todo \in Seq(Output) /\ todo # << >>
  /\ rec \in Entry /\ (pc = "record" => rec.hash \in Hash)
  /\ last \in [Output -> Entry \cup {None}]
  /\ ever \in [Output -> SUBSET Entry]
-----------------------------------------------------------------------------
Dead == IF user = NilUser THEN {} ELSE user
Nothing == [o \in Output |-> None]
NoRecord == [hash |-> NoHash, mtime |-> 0]

Init ==
  /\ file = Missing /\ eol = TRUE /\ temp = Missing
  /\ entries = Nothing /\ handle = FALSE /\ tool = "build" /\ user = NilUser
  /\ pc = "off" /\ todo = << >>
  /\ rec = NoRecord
  /\ last = Nothing /\ ever = [o \in Output |-> {}] /\ torn = FALSE

Closed == /\ entries' = Nothing /\ handle' = FALSE /\ user' = NilUser /\ todo' = << >>
          /\ tool' = "build" /\ rec' = NoRecord /\ temp' = Missing /\ pc' = "off"

(***************************************************************************)
(* Load, and what follows at once.  A file of another version is removed.  *)
(* A dry run does not open the log for writing, but keeps the path given   *)
(* to NewBuildLog.                                                         *)
(***************************************************************************)
Start(t, u) ==
  /\ pc = "off"
  /\ entries' = Read(file)
  /\ file' = IF Usable(file) THEN file ELSE Missing
  /\ eol' = (Usable(file) => eol)
  /\ tool' = t /\ user' = u
  /\ pc' = CASE t = "dry" -> "idle"
             [] t = "build" -> IF Usable(file) /\ NeedsRecompaction(file)
                               THEN "create" ELSE "idle"
             [] OTHER -> IF Usable(file) THEN "create" ELSE "off"
  /\ UNCHANGED <<temp, handle, todo, rec, history>>

MutantCreateTemp ==  \* rewrites the log in place
  /\ pc = "create"
  /\ file' = <<Version>> /\ eol' = TRUE /\ handle' = FALSE
  /\ temp' = <<Version>>
  /\ todo' = {o \in Output : entries[o] # None}
  /\ pc' = "copy"
  /\ UNCHANGED <<entries, tool, user, rec, history>>

\* Close, which creates a missing file, then the temporary file with its version line.
CreateTemp ==
  /\ pc = "create"
  /\ file' = WithVersion(file)
  /\ eol' = (file \notin {Missing, << >>} => eol)
  /\ handle' = FALSE
  /\ temp' = <<Version>>
  /\ todo' = {o \in Output : entries[o] # None}
  /\ pc' = "copy"
  /\ UNCHANGED <<entries, tool, user, rec, history>>

\* Recompact: an entry is written to the temporary file unless it is dead.
CopyEntry ==
  /\ pc = "copy" /\ tool # "restat" /\ user # NilUser
  /\ \E o \in todo :
       /\ todo' = todo \ {o}
       /\ temp' = IF o \in user THEN temp ELSE Append(temp, Line(o, entries[o]))
  /\ UNCHANGED <<disk, entries, handle, tool, user, rec, pc, history>>

\* The call of IsPathDead panics when the embedded BuildLogUser is nil.
IsPathDeadPanics ==
  /\ pc = "copy" /\ tool # "restat" /\ user = NilUser /\ todo # {}
  /\ pc' = "panicked"
  /\ UNCHANGED <<disk, temp, session, history>>

\* Restat: an entry that is selected gets the mtime the disk has now.
RestatEntry ==
  /\ pc = "copy" /\ tool = "restat"
  /\ \E o \in todo, m \in 0..MaxMtime :
       /\ todo' = todo \ {o}
       /\ entries' = [entries EXCEPT ![o].mtime = m]
       /\ temp' = Append(temp, Line(o, entries'[o]))
  /\ UNCHANGED <<disk, handle, tool, user, rec, pc, history>>

\* The end of Recompact: dead entries go, the new file takes the place of the log.
ReplaceLog ==
  /\ pc = "copy" /\ tool # "restat" /\ todo = {}
  /\ file' = temp /\ eol' = TRUE /\ temp' = Missing
  /\ entries' = [o \in Output |-> IF o \in Dead THEN None ELSE entries[o]]
  /\ last' = [o \in Output |-> IF o \in Dead THEN None ELSE last[o]]
  /\ pc' = IF tool = "build" THEN "idle" ELSE "off"
  /\ UNCHANGED <<handle, tool, user, todo, rec, ever, torn>>

\* The end of Restat: the arguments are exchanged, the log takes the place
\* of the new file, and there is no log any more.
ReplaceTemp ==
  /\ pc = "copy" /\ tool = "restat" /\ todo = {}
  /\ file' = Missing /\ eol' = TRUE
  /\ last' = Nothing /\ ever' = [o \in Output |-> {}]
  /\ Closed
  /\ UNCHANGED torn

(***************************************************************************)
(* RecordCommand: for each output the entry, the open file, one line.      *)
(***************************************************************************)
RecordCommand(e, h, m) ==
  /\ pc = "idle" /\ tool \in {"build", "dry"}
  /\ ToSet(e) \cap Dead = {}
  /\ file # Missing => Len(file) < MaxLines
  /\ tool = "dry" => m = 0
  /\ todo' = e /\ rec' = [hash |-> h, mtime |-> m]
  /\ pc' = "record"
  /\ UNCHANGED <<disk, temp, entries, handle, tool, user, history>>

OpenForWriteIfNeeded ==
  /\ pc = "record" /\ ~handle
  /\ file' = WithVersion(file) /\ eol' = (file \notin {Missing, << >>} => eol)
  /\ handle' = TRUE
  /\ UNCHANGED <<temp, entries, tool, user, todo, rec, pc, history>>

WriteEntry ==
  /\ pc = "record" /\ handle
  /\ LET o == Head(todo)
     IN  /\ entries' = [entries EXCEPT ![o] = rec]
         /\ file' \in Appended(file, Line(o, rec))
         /\ last' = [last EXCEPT ![o] = rec]
         /\ ever' = [ever EXCEPT ![o] = @ \cup {rec}]
  /\ eol' = TRUE
  /\ todo' = Tail(todo)
  /\ IF Tail(todo) = << >> THEN pc' = "idle" /\ rec' = NoRecord ELSE UNCHANGED <<pc, rec>>
  /\ UNCHANGED <<temp, handle, tool, user, torn>>

\* The version line, or a record, is cut short: the write fails and the session ends.
TearVersion ==
  /\ pc = "record" /\ ~handle /\ file \in {Missing, << >>}
  /\ \/ file' = << >> /\ eol' = TRUE
     \/ file' \in {<<BadVersion>>, <<Version>>} /\ eol' = FALSE
  /\ torn' = TRUE
  /\ Closed
  /\ UNCHANGED <<last, ever>>

TearRecord ==
  /\ pc = "record" /\ handle
  /\ LET o == Head(todo)
     IN  /\ \E l \in Cuts(Line(o, rec)) : file' \in Appended(file, l)
         /\ ever' = [ever EXCEPT ![o] = @ \cup {rec}]
  /\ eol' = FALSE
  /\ torn' = TRUE
  /\ Closed
  /\ UNCHANGED last

\* The process ends or dies; nothing is buffered.
EndSession ==
  /\ pc # "off"
  /\ Closed
  /\ UNCHANGED <<disk, history>>

Next ==
  \/ \E t \in {"build", "dry", "recompact", "restat"}, u \in User : Start(t, u)
  \/ CreateTemp \/ CopyEntry \/ IsPathDeadPanics \/ RestatEntry \/ ReplaceLog \/ ReplaceTemp
  \/ \E e \in Edge, h \in Hash, m \in 0..MaxMtime : RecordCommand(e, h, m)
  \/ OpenForWriteIfNeeded \/ WriteEntry \/ TearVersion \/ TearRecord
  \/ EndSession

Spec == Init /\ [][Next]_vars
-----------------------------------------------------------------------------
(***************************************************************************)
(* Properties                                                              *)
(***************************************************************************)

\* At every moment, also in the middle of a recompaction, the file holds for every
\* output the record that was last written completely, so that a process that dies
\* loses none, and the scan of this run works with what the next run will load
\* (RecordCommand, Load, Recompact).  Nothing is promised once a write was torn.
Durable ==
  ~torn => /\ Read(file) = last
           /\ pc = "idle" => entries = last

\* A torn line never becomes a record of its own: an entry that carries the hash of a
\* command was written for that output, with that mtime, by RecordCommand (or Restat).
Genuine ==
  \A o \in Output :
    LET e == Read(file)[o] IN e # None /\ e.hash \in Hash => e \in ever[o]

\* What the comment of OpenBuildLog says of the log in a dry run: only otherwise is it
\* opened for writing.
DryRunKeepsLog == [][tool = "dry" /\ pc = "record" => file' = file]_vars

\* Opening the log ends with the log open; rewriting it does not end the program.
RecompactReturns == pc # "panicked"

\* The tool restat updates the mtimes of the entries in the log.
RestatKeepsEntries ==
  [][tool = "restat" /\ pc = "copy" /\ todo = {} /\ ~torn /\ pc' = "off" =>
       Read(file') = entries \/ file' = file]_vars
=============================================================================
