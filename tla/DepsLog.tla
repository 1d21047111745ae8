------------------------------ MODULE DepsLog ------------------------------
(***************************************************************************)
(* The deps log (depslog.go) across sessions of ninja.  A session loads    *)
(* the log, repairs or recompacts it, and appends records word by word; it *)
(* may die between any two of them.                                        *)
(*                                                                         *)
(* The file is a sequence of 32 bit words.  A word has the kind it was     *)
(* written as; a reader that has lost its place takes it for another, and  *)
(* AsId and Payload say what it then reads.                                *)
(***************************************************************************)
EXTENDS Integers, SequencesExt

CONSTANTS
  Output,     \* outputs with deps
  Live,       \* those whose edge still has a deps binding
  DepLists,   \* lists of nodes that commands report
  PathOf,     \* the path of a node, as a sequence of words
  Mtimes,     \* mtimes of outputs
  MinCompactionEntryCount, CompactionRatio,  \* 1000 and 3
  NoDeps,
  MaxWords    \* bound: no record is begun in a longer file

Node == DOMAIN PathOf  \* at most four: an id read as a size is below 4

ASSUME DepsLogConstants ==
  /\ Live \subseteq Output /\ Output \subseteq Node
  /\ DepLists \subseteq Seq(Node)
  /\ Cardinality(Node) <= 4
  /\ \A m, n \in Node : PathOf[m] = PathOf[n] => m = n
  /\ \A n \in Node : PathOf[n] \in Seq([kind : {"path"}, value : Nat]) \ {<< >>}
  /\ Mtimes \subseteq Nat
  /\ MinCompactionEntryCount \in Nat /\ CompactionRatio \in Nat
  /\ MaxWords \in Nat

VARIABLES
  file,     \* the words of .ninja_deps; empty when there is no file
  nodes,    \* nodes_: paths by id; id_ of a node is its place here
  deps,     \* deps_: by id of the output
  load,     \* the locals of Load
  todo,     \* the words RecordDeps has yet to write
  call,     \* its arguments
  pc,
  stored,   \* history: the deps last reported and recorded, by output
  torn,     \* history: a session died inside the payload of a record
  intact,   \* history: length of the file in front of the first torn record
  mended    \* history: the file is as the last repair left it

vars == <<file, nodes, deps, load, todo, call, pc, stored, torn, intact, mended>>
history == <<stored, torn, intact, mended>>

W(k, v) == [kind |-> k, value |-> v]
Zero == W("id", 0)  \* the word 0, also what Truncate pads with
Header == <<W("signature", 0), W("version", 4)>>

NoLoad == [at |-> 0, buf |-> << >>, total |-> 0, unique |-> 0]
NoCall == [out |-> << >>, deps |-> NoDeps]

Init ==
  /\ file = << >> /\ nodes = << >> /\ deps = << >>
  /\ load = NoLoad /\ todo = << >> /\ call = NoCall
  /\ pc = "closed"
  /\ stored = [o \in Output |-> NoDeps]
  /\ torn = FALSE /\ intact = 0 /\ mended = FALSE

---------------------------------------------------------------------------
(* Nodes and deps in memory *)

IdOf(path, known) == SelectInSeq(known, LAMBDA p : p = path) - 1

MutantWithIds(paths, known) ==  \* does not see the ids it has just given
  known \o SelectSeq(paths, LAMBDA p : ~Contains(known, p))

(* RecordId for those of paths without an id, in order. *)
WithIds(paths, known) ==
  LET ids[i \in 0 .. Len(paths)] ==
        IF i = 0 THEN known
        ELSE IF Contains(ids[i - 1], paths[i]) THEN ids[i - 1]
        ELSE Append(ids[i - 1], paths[i])
  IN  ids[Len(paths)]

UpdateDeps(old, id, d) ==
  [i \in 1 .. (IF id < Len(old) THEN Len(old) ELSE id + 1) |->
     IF i = id + 1 THEN d ELSE IF i <= Len(old) THEN old[i] ELSE NoDeps]

GetDeps(path) ==
  LET id == IdOf(path, nodes)
  IN IF id \in 0 .. Len(deps) - 1 THEN deps[id + 1] ELSE NoDeps

---------------------------------------------------------------------------
(* What is written *)

NodeRecord(path, id) == <<W("node", Len(path) + 1)>> \o path \o <<W("sum", id)>>

DepsRecord(out, d, known) ==
  <<W("deps", 3 + Len(d.nodes)), W("id", IdOf(out, known)), d.mtime[1], d.mtime[2]>>
  \o [i \in 1 .. Len(d.nodes) |-> W("id", IdOf(d.nodes[i], known))]

(* The records of the nodes that got an id, then the deps. *)
Records(out, d, old, new) ==
  LET ids[i \in 0 .. Len(new)] ==
        IF i <= Len(old) THEN << >> ELSE ids[i - 1] \o NodeRecord(new[i], i - 1)
  IN  ids[Len(new)] \o DepsRecord(out, d, new)

---------------------------------------------------------------------------
(* Load *)

(* Payload words that follow a size word.  Read as a size, the sum, path   *)
(* and mtime words exceed kMaxRecordSize; an id from 1 to 3 asks for that  *)
(* many bytes, of which one word is taken to be left or none.              *)
Payload(w) ==
  CASE w.kind \in {"node", "deps"} -> w.value
    [] w.kind = "id" /\ w.value = 0 -> 0
    [] OTHER -> 1
TooLarge(w) == w.kind \in {"sum", "path", "mtime"}

(* A word read as an int32.  The sizes of deps records have the high bit,  *)
(* a sum is the complement of an id; other words are larger than any id.   *)
AsId(w) ==
  CASE w.kind = "id" -> w.value
    [] w.kind \in {"sum", "deps"} -> -1
    [] OTHER -> MaxWords + 100

Word == file[load.at + 1]
Length == Payload(Word)
RecordEnd == load.at + 1 + Length

(* The buffer after f.Read(buf[:size]): a read at the end of the file is   *)
(* short and leaves what earlier records left.                             *)
Buffer ==
  [i \in 1 .. (IF Len(load.buf) < Length THEN Length ELSE Len(load.buf)) |->
     IF i <= Length /\ load.at + 1 + i <= Len(file) THEN file[load.at + 1 + i]
     ELSE IF i <= Len(load.buf) THEN load.buf[i] ELSE Zero]

BeginLoad ==
  /\ pc = "closed"
  /\ IF IsPrefix(Header, file)
     THEN pc' = "loading" /\ load' = [NoLoad EXCEPT !.at = 2] /\ UNCHANGED file
     ELSE pc' = "open" /\ file' = << >> /\ UNCHANGED load
  /\ UNCHANGED <<nodes, deps, todo, call, history>>

(* There is a size word, and some of the payload can be read. *)
Reading ==
  /\ pc = "loading" /\ load.at < Len(file)
  /\ ~TooLarge(Word)
  /\ Length > 0 => load.at + 1 < Len(file)

Unreadable ==
  /\ pc = "loading" /\ load.at < Len(file) /\ ~Reading
  /\ pc' = "recovering"
  /\ UNCHANGED <<file, nodes, deps, load, todo, call, history>>

GoodNode ==
  /\ Buffer[Length] = W("sum", Len(nodes))
  /\ ~Contains(nodes, SubSeq(Buffer, 1, Length - 1))

LoadNode ==
  /\ Reading /\ Word.kind = "node" /\ GoodNode
  /\ nodes' = Append(nodes, SubSeq(Buffer, 1, Length - 1))
  /\ load' = [load EXCEPT !.at = RecordEnd, !.buf = Buffer]
  /\ UNCHANGED <<file, deps, todo, call, pc, history>>

(* Ids are looked at one by one until one is not below len(nodes_). *)
ValidUpTo(i) == \A j \in 4 .. i : AsId(Buffer[j]) \in 0 .. Len(nodes) - 1

LoadDeps ==
  /\ Reading /\ Word.kind = "deps"
  /\ ValidUpTo(Length) /\ AsId(Buffer[1]) >= 0
  /\ LET out == AsId(Buffer[1])
         d == [mtime |-> <<Buffer[2], Buffer[3]>>,
               nodes |-> [i \in 1 .. Length - 3 |-> nodes[AsId(Buffer[i + 3]) + 1]]]
         isNew == out >= Len(deps) \/ deps[out + 1] = NoDeps
     IN /\ deps' = UpdateDeps(deps, out, d)
        /\ load' = [at |-> RecordEnd, buf |-> Buffer, total |-> load.total + 1,
                    unique |-> load.unique + IF isNew THEN 1 ELSE 0]
  /\ UNCHANGED <<file, nodes, todo, call, pc, history>>

(* A negative id passes the check and is used as an index. *)
NegativeId ==
  /\ Reading /\ Word.kind = "deps"
  /\ \/ \E i \in 4 .. Length : ValidUpTo(i - 1) /\ AsId(Buffer[i]) < 0
     \/ ValidUpTo(Length) /\ AsId(Buffer[1]) < 0
  /\ pc' = "panic"
  /\ UNCHANGED <<file, nodes, deps, load, todo, call, history>>

(* A node record of less than 4 bytes: size - 4 wraps around, and the path *)
(* is looked for beyond the buffer.                                        *)
SizeWraps ==
  /\ Reading /\ Word.kind = "id"
  /\ pc' = "panic"
  /\ UNCHANGED <<file, nodes, deps, load, todo, call, history>>

(* The record is refused; the offset has been moved behind it before. *)
Refused ==
  /\ Reading
  /\ \/ Word.kind = "node" /\ ~GoodNode
     \/ /\ Word.kind = "deps"
        /\ \E i \in 4 .. Length :
             ValidUpTo(i - 1) /\ AsId(Buffer[i]) >= Len(nodes)
  /\ load' = [load EXCEPT !.at = RecordEnd]
  /\ pc' = "recovering"
  /\ UNCHANGED <<file, nodes, deps, todo, call, history>>

MutantRecover ==  \* starts over instead
  /\ pc = "recovering"
  /\ file' = Header
  /\ pc' = "open" /\ load' = NoLoad /\ mended' = TRUE
  /\ UNCHANGED <<nodes, deps, todo, call, stored, torn, intact>>

(* Truncate to the offset, which may be behind the end of the file. *)
Recover ==
  /\ pc = "recovering"
  /\ file' = [i \in 1 .. load.at |-> IF i <= Len(file) THEN file[i] ELSE Zero]
  /\ pc' = "open" /\ load' = NoLoad /\ mended' = TRUE
  /\ UNCHANGED <<nodes, deps, todo, call, stored, torn, intact>>

NeedsRecompaction ==
  /\ load.total > MinCompactionEntryCount
  /\ load.total > load.unique * CompactionRatio

LoadEnds ==
  /\ pc = "loading" /\ load.at >= Len(file)
  /\ pc' = IF NeedsRecompaction THEN "recompact" ELSE "open"
  /\ load' = NoLoad
  /\ UNCHANGED <<file, nodes, deps, todo, call, history>>

---------------------------------------------------------------------------
(* Recompact *)

LivePaths == {PathOf[o] : o \in Live}

Kept(path) == path \in LivePaths /\ GetDeps(path) # NoDeps

MutantRewritten(log, out) ==  \* without resetting the ids
  [file |-> log.file \o Records(out, GetDeps(out), nodes, nodes),
   nodes |-> nodes,
   deps |-> UpdateDeps(log.deps, IdOf(out, nodes), GetDeps(out))]

(* One more output recorded in the new log. *)
Rewritten(log, out) ==
  LET new == WithIds(<<out>> \o GetDeps(out).nodes, log.nodes)
  IN [file |-> log.file \o Records(out, GetDeps(out), log.nodes, new),
      nodes |-> new,
      deps |-> UpdateDeps(log.deps, IdOf(out, new), GetDeps(out))]

(* The log of the outputs whose deps are kept, in the order of their ids. *)
NewLog ==
  LET log[i \in 0 .. Len(nodes)] ==
        IF i = 0 THEN [file |-> Header, nodes |-> << >>, deps |-> << >>]
        ELSE IF Kept(nodes[i]) THEN Rewritten(log[i - 1], nodes[i]) ELSE log[i - 1]
  IN  log[Len(nodes)]

(* The new log is written to a temporary file that replaces the log; a     *)
(* session that dies before leaves the log as it was.                      *)
Recompact ==
  /\ pc = "recompact"
  /\ file' = NewLog.file /\ nodes' = NewLog.nodes /\ deps' = NewLog.deps
  /\ stored' = [o \in Output |-> IF o \notin Live THEN NoDeps
                                 ELSE IF torn THEN GetDeps(PathOf[o]) ELSE stored[o]]
  /\ torn' = FALSE /\ intact' = 0 /\ mended' = FALSE
  /\ pc' = "open"
  /\ UNCHANGED <<load, todo, call>>

---------------------------------------------------------------------------
(* RecordDeps *)

MutantIsKnown(out, d, new) ==  \* does not compare the nodes
  new = nodes /\ GetDeps(out) # NoDeps /\ GetDeps(out).mtime = d.mtime

(* Nothing needs to be written: all nodes had ids, and mtime and nodes are *)
(* those of the last record.                                               *)
IsKnown(out, d, new) == new = nodes /\ GetDeps(out) = d

RecordDeps(o, m, list) ==
  /\ pc = "open" /\ Len(file) <= MaxWords
  /\ LET out == PathOf[o]
         d == [mtime |-> <<W("mtime", m), W("mtime", 0)>>,
               nodes |-> [i \in 1 .. Len(list) |-> PathOf[list[i]]]]
         new == WithIds(<<out>> \o d.nodes, nodes)
     IN IF IsKnown(out, d, new)
        THEN stored' = [stored EXCEPT ![o] = d] /\ UNCHANGED <<call, todo, pc>>
        ELSE /\ call' = [out |-> out, deps |-> d]
             /\ todo' = (IF file = << >> THEN Header ELSE << >>) \o Records(out, d, nodes, new)
             /\ pc' = "writing" /\ UNCHANGED stored
  /\ UNCHANGED <<file, nodes, deps, load, torn, intact, mended>>

(* One word more; after the last one memory is up to date. *)
Write ==
  /\ pc = "writing"
  /\ file' = Append(file, Head(todo))
  /\ todo' = Tail(todo)
  /\ mended' = FALSE
  /\ IF Len(todo) > 1
     THEN UNCHANGED <<nodes, deps, call, pc, stored>>
     ELSE LET new == WithIds(<<call.out>> \o call.deps.nodes, nodes)
          IN /\ nodes' = new
             /\ deps' = UpdateDeps(deps, IdOf(call.out, new), call.deps)
             /\ stored' = [o \in Output |-> IF PathOf[o] = call.out THEN call.deps
                                            ELSE stored[o]]
             /\ call' = NoCall /\ pc' = "open"
  /\ UNCHANGED <<load, torn, intact>>

---------------------------------------------------------------------------
IsSize(w) == w.kind \in {"node", "deps"}

InsidePayload ==
  /\ pc = "writing"
  /\ Head(todo).kind \in {"path", "sum", "id", "mtime"}
  /\ ~IsSize(Last(file))

(* The session ends: by a return, a failed write, or a crash.  A crash in  *)
(* Load, which changes the file only by its last step, is left out.        *)
EndSession ==
  /\ pc \in {"open", "writing", "recompact", "panic"}
  /\ nodes' = << >> /\ deps' = << >> /\ load' = NoLoad
  /\ todo' = << >> /\ call' = NoCall
  /\ pc' = "closed"
  /\ IF InsidePayload
     THEN /\ ~torn  \* bound: one torn record between recompactions
          /\ torn' = TRUE
          /\ intact' = SelectLastInSeq(file, IsSize) - 1
     ELSE UNCHANGED <<torn, intact>>
  /\ UNCHANGED <<file, stored, mended>>

Next ==
  \/ BeginLoad \/ LoadNode \/ LoadDeps \/ NegativeId \/ SizeWraps
  \/ Unreadable \/ Refused \/ Recover \/ LoadEnds
  \/ Recompact
  \/ \E o \in Output, m \in Mtimes, list \in DepLists : RecordDeps(o, m, list)
  \/ Write
  \/ EndSession

Spec == Init /\ [][Next]_vars
---------------------------------------------------------------------------
(* Properties *)

Kinds == {"signature", "version", "node", "deps", "id", "sum", "path", "mtime"}
Words == [kind : Kinds, value : Nat]
Deps  == [mtime : Words \X Words, nodes : Seq(Seq(Words))]
PcValues == {"closed", "loading", "recovering", "recompact", "open", "writing",
             "panic"}

TypeOK ==
  /\ file \in Seq(Words) /\ nodes \in Seq(Seq(Words))
  /\ deps \in Seq(Deps \cup {NoDeps}) /\ stored \in [Output -> Deps \cup {NoDeps}]
  /\ load \in [at : Nat, buf : Seq(Words), total : Nat, unique : Nat]
  /\ todo \in Seq(Words) /\ (pc = "writing") = (todo # << >>)
  /\ call.out \in Seq(Words) /\ call.deps \in Deps \cup {NoDeps}
  /\ pc \in PcValues /\ intact \in Nat /\ torn \in BOOLEAN /\ mended \in BOOLEAN

(* Unless a session died inside the payload of a record, a session that    *)
(* has loaded the log knows, for every output, the deps last recorded      *)
(* completely: deaths anywhere else, between the records of the new ids    *)
(* and their deps, inside the header or after a size word, and             *)
(* recompactions are harmless (Load, RecordDeps, Recompact).               *)
Remembered ==
  pc \in {"open", "writing", "recompact"} /\ ~torn =>
    \A o \in Output : GetDeps(PathOf[o]) = stored[o]

(* No node has two ids, and every id in deps_ is that of a node, so that   *)
(* Recompact and GetFirstReverseDepsNode may look it up in nodes_.         *)
IdsAgree ==
  /\ \A i, j \in 1 .. Len(nodes) : nodes[i] = nodes[j] => i = j
  /\ Len(deps) <= Len(nodes)

(* Whatever was torn, a repair never cuts off a record that was complete   *)
(* before (Load's offset and Truncate).                                    *)
IntactKept == Len(file) >= intact

---------------------------------------------------------------------------
(* What comments say, and the code does not do *)

(* A record that ends early is noticed: Load reports a "premature end".    *)
PrematureEndIsNoticed == load.at <= Len(file) \/ pc # "loading"

(* Load truncates a bad log to the last known good offset: the next Load   *)
(* of the repaired file finds nothing to repair.                           *)
RepairIsGood == ~(mended /\ pc = "recovering")
===========================================================================
