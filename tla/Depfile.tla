------------------------------- MODULE Depfile -------------------------------
(***************************************************************************)
(* DepfileParser.Parse (depfile_parser.go) on what a compiler writes, and  *)
(* extractDeps (builder.go), which makes nodes of the inputs.              *)
(*                                                                         *)
(* The file is a sequence of tokens: letters, "." and "..", "/", and the   *)
(* characters with a meaning of their own.  An action is one round of the  *)
(* scanner's inner loop, with what follows it when the round ends a word.  *)
(***************************************************************************)
EXTENDS Paths, FiniteSets

CONSTANTS
  DepFile,   \* the files compilers write: sequences of rules
             \* [targets, deps : sequences of paths, gap : what goes before a dep]
  None

Special == {" ", "nl", "#", "$", ":", "\\", "nul"}

(***************************************************************************)
(* What is written: blanks and hashes escaped, dollars doubled; ReadFile   *)
(* puts a zero byte behind it.                                             *)
(***************************************************************************)
Escaped(path) ==
  FlattenSeq([i \in DOMAIN path |-> CASE path[i] \in {" ", "#"} -> <<"\\", path[i]>>
                                      [] path[i] = "$" -> <<"$", "$">>
                                      [] OTHER -> <<path[i]>>])

Render(rules) ==
  FlattenSeq([i \in DOMAIN rules |->
    LET r == rules[i]
    IN  FlattenSeq([j \in DOMAIN r.targets |->
                      (IF j = 1 THEN << >> ELSE <<" ">>) \o Escaped(r.targets[j])])
        \o <<":">> \o FlattenSeq([j \in DOMAIN r.deps |-> r.gap \o Escaped(r.deps[j])])
        \o <<"nl">>])

VARIABLES
  rules,    \* what the compiler meant
  text,     \* the depfile, None when there is none
  pos,      \* pos, from 1
  word,     \* the file name being put together
  outs, ins,                 \* Outs, Ins
  targets, poisoned,         \* parsingTargets, poisonedInput
  haveTarget, isEmpty,
  nodes,    \* depsNodes: the nodes' paths
  pc        \* "read", "parse", "remove", "done", or why it failed:
            \* "unreadable", "refused", "kept"

state == <<outs, ins, targets, poisoned, haveTarget, isEmpty>>
vars == <<rules, text, pos, word, state, nodes, pc>>

Init ==
  /\ rules \in DepFile
  /\ text \in {None, Render(rules) \o <<"nul">>}
  /\ pos = 1 /\ word = << >>
  /\ outs = << >> /\ ins = << >> /\ targets = TRUE /\ poisoned = FALSE
  /\ haveTarget = FALSE /\ isEmpty = TRUE
  /\ nodes = << >> /\ pc = "read"

(***************************************************************************)
(* ReadFile: a missing file counts as empty.                               *)
(***************************************************************************)
ReadFile ==
  /\ pc = "read"
  /\ \/ text = None /\ pc' = "done"
     \/ text # None /\ pc' = "parse"
     \/ text # None /\ pc' = "unreadable"
  /\ UNCHANGED <<rules, text, pos, word, state, nodes>>

Parsing == pc = "parse" /\ UNCHANGED <<rules, text, nodes>>
AtEnd(i) == i > Len(text)
Char(i) == IF AtEnd(i) THEN "end" ELSE text[i]

\* Backslashes from pos on, and what follows them.
Slashes ==
  CHOOSE n \in 0..Len(text) :
    (\A i \in pos..pos + n - 1 : Char(i) = "\\") /\ Char(pos + n) # "\\"
Follows == Char(pos + Slashes)
Backslashes(n) == [i \in 1..n |-> "\\"]

Emit(tokens, n) ==
  /\ word' = word \o tokens /\ pos' = pos + n
  /\ UNCHANGED <<state, pc>>

(***************************************************************************)
(* The word is complete: a target, up to the one with the colon, or a dep. *)
(* A target that is a dep already must not have deps.                      *)
(***************************************************************************)
AddUnless(there, s, x) == IF there \/ Contains(s, x) THEN s ELSE Append(s, x)

MutantEndWord(w, n, newline) ==                \* a dep again is no reason to refuse
  LET colon == w # << >> /\ Last(w) = ":"
      name == IF colon THEN Front(w) ELSE w
      bad == ~targets /\ name # << >> /\ poisoned
  IN  /\ pos' = pos + n /\ word' = << >>
      /\ pc' = IF bad THEN "refused" ELSE pc
      /\ isEmpty' = (isEmpty /\ name = << >>)
      /\ haveTarget' = (haveTarget \/ colon)
      /\ ins' = AddUnless(targets \/ bad \/ name = << >>, ins, name)
      /\ outs' = AddUnless(~targets \/ Contains(ins, name) \/ name = << >>, outs, name)
      /\ targets' = (newline \/ (targets /\ ~colon))
      /\ poisoned' = (~newline /\ (poisoned \/ (Contains(ins, name) /\ targets)))

EndWord(w, n, newline) ==
  LET colon == w # << >> /\ Last(w) = ":"
      name == IF colon THEN Front(w) ELSE w
      known == Contains(ins, name)
      bad == ~targets /\ ~known /\ name # << >> /\ poisoned
  IN  /\ pos' = pos + n /\ word' = << >>
      /\ pc' = IF bad THEN "refused" ELSE pc
      /\ isEmpty' = (isEmpty /\ name = << >>)
      /\ haveTarget' = (haveTarget \/ colon)
      /\ ins' = AddUnless(targets \/ bad \/ name = << >>, ins, name)
      /\ outs' = AddUnless(~targets \/ known \/ name = << >>, outs, name)
      /\ targets' = (newline \/ (targets /\ ~colon))
      /\ poisoned' = (~newline /\ (poisoned \/ (known /\ targets)))

(***************************************************************************)
(* After backslashes.                                                      *)
(***************************************************************************)
Continuation ==
  /\ Parsing /\ Slashes > 0 /\ Follows = "nl"
  /\ EndWord(word, Slashes + 1, FALSE)

EscapedBlank ==
  /\ Parsing /\ Slashes % 2 = 1 /\ Follows = " "
  /\ Emit(Backslashes(Slashes \div 2 - 1) \o <<" ">>, Slashes + 1)

BlankAfterPairs ==
  /\ Parsing /\ Slashes > 0 /\ Slashes % 2 = 0 /\ Follows = " "
  /\ EndWord(word \o Backslashes(Slashes - 1), Slashes, FALSE)

EscapedMark ==                                 \* # , or : inside a word
  /\ Parsing /\ Slashes > 0
  /\ \/ Follows = "#"
     \/ Follows = ":" /\ Char(pos + Slashes + 1) \notin {" ", "nl"}
  /\ Emit(Backslashes(Slashes - 1) \o <<Follows>>, Slashes + 1)

ColonAtEnd ==
  /\ Parsing /\ Slashes > 0 /\ Follows = ":" /\ Char(pos + Slashes + 1) \in {" ", "nl"}
  /\ EndWord(word \o Backslashes(Slashes) \o <<":">>, Slashes + 1, FALSE)

PlainBackslashes ==
  /\ Parsing /\ Slashes > 0 /\ Follows \notin {"nl", " ", "#", ":"}
  /\ Emit(Backslashes(Slashes), Slashes)

(***************************************************************************)
(* Without.                                                                *)
(***************************************************************************)
NoSlash == Parsing /\ ~AtEnd(pos) /\ Slashes = 0

Dollars == NoSlash /\ Char(pos) = "$" /\ Char(pos + 1) = "$" /\ Emit(<<"$">>, 2)
Newline == NoSlash /\ Char(pos) = "nl" /\ EndWord(word, 1, TRUE)
Plain == NoSlash /\ Char(pos) \notin Special \ {":"} /\ Emit(<<Char(pos)>>, 1)
OtherChar ==
  /\ NoSlash /\ \/ Char(pos) \in {" ", "#", "nul"}
                \/ Char(pos) = "$" /\ Char(pos + 1) # "$"
  /\ EndWord(word, 1, FALSE)

Finish ==
  /\ Parsing /\ AtEnd(pos)
  /\ IF word # << >> THEN EndWord(word, 0, FALSE)
     ELSE /\ pc' = IF haveTarget \/ isEmpty THEN "remove" ELSE "refused"
          /\ UNCHANGED <<pos, word, state>>

(***************************************************************************)
(* extractDeps: the inputs become nodes and the depfile is removed, or     *)
(* cannot be (unless -d keepdepfile).                                      *)
(***************************************************************************)
ExtractDeps ==
  /\ pc = "remove"
  /\ nodes' = [i \in DOMAIN ins |-> Canonicalize(ins[i])]
  /\ \/ text' = None /\ pc' = "done"
     \/ text' = text /\ pc' \in {"done", "kept"}
  /\ UNCHANGED <<rules, pos, word, state>>

Next ==
  \/ ReadFile \/ Continuation \/ EscapedBlank \/ BlankAfterPairs \/ EscapedMark
  \/ ColonAtEnd \/ PlainBackslashes \/ Dollars \/ Newline \/ Plain \/ OtherChar
  \/ Finish \/ ExtractDeps

Spec == Init /\ [][Next]_vars

-----------------------------------------------------------------------------
(***************************************************************************)
(* The parser gives back the dependencies the compiler meant, each once,   *)
(* with all rules of the file put together, and refuses a file only for a  *)
(* dependency that gets dependencies of its own (depfile_parser.go:44).    *)
(* Names with a backslash before a blank are BackslashesKept's business.   *)
(***************************************************************************)
Deps(n) == UNION {ToSet(rules[i].deps) : i \in 1..n}

Refused ==
  \E i \in DOMAIN rules :
    /\ ToSet(rules[i].targets) \cap Deps(i - 1) # {}
    /\ ~(ToSet(rules[i].deps) \subseteq Deps(i - 1))

Ambiguous(path) ==                             \* a backslash before a blank
  \E i \in DOMAIN path :
    path[i] = "\\" /\ (i = Len(path) \/ path[i + 1] = " ")

ParsedAsMeant ==
  (\A i \in DOMAIN rules : \A p \in ToSet(rules[i].targets \o rules[i].deps) : ~Ambiguous(p)) =>
    /\ pc = "refused" => Refused
    /\ pc = "remove" =>
         /\ ~Refused
         /\ ToSet(ins) = Deps(Len(rules)) /\ IsInjective(ins)
         /\ ToSet(outs) = UNION {ToSet(rules[i].targets) \ Deps(i - 1) : i \in DOMAIN rules}

(***************************************************************************)
(* A node stands for the file its dependency named, and each such file has *)
(* one node, where the path does not climb back out of a directory.        *)
(***************************************************************************)
OneNodePerFile ==
  \A i, j \in DOMAIN nodes :
    ~Climbs(ins[i]) =>
      /\ Walk(nodes[i]) = Walk(ins[i])
      /\ ~Climbs(ins[j]) => ((nodes[i] = nodes[j]) <=> (Walk(ins[i]) = Walk(ins[j])))

(***************************************************************************)
(* "converts a path string to canonical form" (util.go:219): it leads to   *)
(* the same file.                                                          *)
(***************************************************************************)
CanonicalFormIsSameFile == \A i \in DOMAIN nodes : Walk(nodes[i]) = Walk(ins[i])

(***************************************************************************)
(* "2N+1 backslashes + space: N backslashes + space" and "2N backslashes + *)
(* space: 2N backslashes, end of filename" (depfile_parser.go:77, 90).     *)
(***************************************************************************)
BackslashesKept ==
  [][/\ EscapedBlank => Len(word') = Len(word) + Slashes \div 2 + 1
     /\ BlankAfterPairs => \A w \in ToSet(ins') \ ToSet(ins) : Len(w) = Len(word) + Slashes]_vars
=============================================================================
