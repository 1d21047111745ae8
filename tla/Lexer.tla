-------------------------------- MODULE Lexer --------------------------------
(***************************************************************************)
(* Lexer (lexer.go) under the loops of ManifestParser that call it, on a   *)
(* file of build statements with their bindings.  An action is a round of  *)
(* one of those loops; Manifest models what is done with what was read.    *)
(*                                                                         *)
(* A text is a sequence of symbols.  A letter stands for a run of letters, *)
(* "build" for that keyword, "." for what can only follow in an            *)
(* identifier: a variable without braces ends before it.  An EvalString    *)
(* is a sequence of fragments: <<symbol>>, or <<"$">> \o name.  Every file *)
(* starts with the version that has $^ (Start); the tables of the scanner  *)
(* are the sets below.                                                     *)
(***************************************************************************)
EXTENDS Naturals, SequencesExt

CONSTANT Files    \* [text, meant]: a file, and what was meant, or None
CONSTANT None

VARIABLES
  file,           \* the file
  ofs,            \* ofs_, from 1
  part,           \* the part of the statement that is being read; or "done",
                  \* "refused"
  read            \* what was read: <<part, EvalString>>

vars == <<file, ofs, part, read>>

Letters == {"a", "build"}                      \* simple variable names
Ident == Letters \cup {"."}
Delimiters == {" ", "nl", "cr", "nul", "$", ":", "|"}

input == file.text \o <<"nul">>
At(p) == input[p]
Line(p) == CASE At(p) = "nl" -> p + 1          \* past a line end, or p
             [] At(p) = "cr" /\ At(p + 1) = "nl" -> p + 2
             [] OTHER -> p

\* Past the run of such symbols at p; the zero byte ends every run.
Past(S(_), p) == CHOOSE q \in p..Len(input) : ~S(At(q)) /\ \A r \in p..q - 1 : S(At(r))
Blank(c) == c = " "
InIdent(c) == c \in Ident
InName(c) == c \in Letters
InComment(c) == c \notin {"nl", "nul"}
Slice(p, q) == SubSeq(input, p, q - 1)

MutantEatWhitespace(p) == IF p > Len(input) THEN p ELSE Past(Blank, p)  \* blanks alone

RECURSIVE EatWhitespace(_)
EatWhitespace(p) ==                            \* lines that go on too
  IF p > Len(input) THEN p
  ELSE IF At(p) = " " THEN EatWhitespace(Past(Blank, p))
  ELSE IF At(p) = "$" /\ Line(p + 1) > p + 1 THEN EatWhitespace(Line(p + 1))
  ELSE p

(***************************************************************************)
(* ReadToken: [token, start, next], next to be assigned to ofs_.           *)
(***************************************************************************)
Token(t, p, q) == [token |-> t, start |-> p, next |-> EatWhitespace(q)]
LineToken(t, p, q) == [token |-> t, start |-> p, next |-> q]

Word(p) ==
  LET q == Past(InIdent, p)
  IN  Token(IF Slice(p, q) = <<"build">> THEN "build" ELSE "identifier", p, q)

Sign(p) ==
  CASE At(p) \in {":", "="} -> Token(At(p), p, p + 1)
    [] At(p) = "|" /\ At(p + 1) = "|" -> Token("||", p, p + 2)
    [] At(p) = "|" /\ At(p + 1) = "@" -> Token("|@", p, p + 2)
    [] At(p) = "|" /\ At(p + 1) \notin {"|", "@"} -> Token("|", p, p + 1)
    [] OTHER -> Token("lexing error", p, p + 1)

\* A comment that no line end follows is none.
IsComment(p) == At(p) = "#" /\ At(Past(InComment, p)) = "nl"

RECURSIVE ReadToken(_)
ReadToken(p) ==
  IF p > Len(input) THEN LineToken("eof", p, p + 1)
  ELSE LET b == Past(Blank, p)
       IN  CASE Line(b) > b -> LineToken("newline", p, Line(b))
             [] IsComment(b) -> ReadToken(Past(InComment, b) + 1)
             [] Line(b) = b /\ ~IsComment(b) /\ b > p -> Token("indent", p, b)
             [] At(p) = "nul" -> LineToken("eof", p, p + 1)
             [] At(p) \in Ident -> Word(p)
             [] OTHER -> Sign(p)

\* PeekToken: where to go on, or 0.
PeekToken(p, t) == LET k == ReadToken(p) IN IF k.token = t THEN k.next ELSE 0

ReadIdent(p) ==                                \* [ident, next], or no ident
  LET q == Past(InIdent, p) IN [ident |-> Slice(p, q), next |-> EatWhitespace(q)]

(***************************************************************************)
(* ReadEvalString: [ok, text, start, next].  A path ends before the        *)
(* delimiter, a value with the line.                                       *)
(***************************************************************************)
Fragments(s) == [i \in DOMAIN s |-> <<s[i]>>]

Escape(p) ==                                   \* after a $: [text, next], or next = 0
  LET c == At(p)
      q == Past(InIdent, p + 1)
  IN  CASE c = "{" -> IF At(q) = "}" THEN [text |-> <<<<"$">> \o Slice(p + 1, q)>>, next |-> q + 1]
                      ELSE [text |-> << >>, next |-> 0]
        [] c \in Letters -> [text |-> <<<<"$">> \o Slice(p, Past(InName, p))>>, next |-> Past(InName, p)]
        [] c \in {" ", "$", ":"} -> [text |-> <<<<c>>>>, next |-> p + 1]
        [] c = "^" -> [text |-> <<<<"nl">>>>, next |-> p + 1]
        [] Line(p) > p -> [text |-> << >>, next |-> Past(Blank, Line(p))]
        [] OTHER -> [text |-> << >>, next |-> 0]

RECURSIVE ReadEvalString(_, _, _)
ReadEvalString(p, path, text) ==
  LET Done(q) == [ok |-> TRUE, text |-> text, start |-> p,
                  next |-> IF path THEN EatWhitespace(q) ELSE q]
      Fail == [ok |-> FALSE, text |-> text, start |-> p, next |-> p]
      plain == Past(LAMBDA c : c \notin Delimiters, p)
  IN  IF p > Len(input) \/ At(p) = "nul" THEN Fail
      ELSE CASE plain > p -> ReadEvalString(plain, path, text \o Fragments(Slice(p, plain)))
             [] At(p) = "$" ->
                  IF Escape(p + 1).next = 0 THEN Fail
                  ELSE ReadEvalString(Escape(p + 1).next, path, text \o Escape(p + 1).text)
             [] Line(p) > p -> Done(IF path THEN p ELSE Line(p))
             [] At(p) = "cr" /\ Line(p) = p -> Fail
             [] At(p) \in {" ", ":", "|"} ->
                  IF path THEN Done(p) ELSE ReadEvalString(p + 1, path, Append(text, <<At(p)>>))

-----------------------------------------------------------------------------
(***************************************************************************)
(* The parser's loops.                                                     *)
(***************************************************************************)
Init ==
  /\ file \in Files
  /\ ofs = 1 /\ part = "statement" /\ read = << >>

Go(p, where) == ofs' = p /\ part' = where
Refused == Go(ofs, "refused")
Keep(e) == read' = Append(read, <<part, e>>)

Parse ==
  /\ part = "statement"
  /\ LET t == ReadToken(ofs)
     IN  CASE t.token = "newline" -> Go(t.next, "statement")
           [] t.token = "build" -> Go(t.next, "outs")
           [] t.token = "identifier" -> Go(t.start, "global")    \* UnreadToken
           [] t.token = "eof" -> Go(t.next, "done")
           [] OTHER -> Refused
  /\ UNCHANGED <<file, read>>

\* The lists of a build statement, and the sign before each.
Lists == {"outs", "implicit outs", "ins", "implicit", "order-only", "validations"}
Signs(list) ==
  CASE list = "outs" -> <<<<"|", "implicit outs">>, <<":", "rule">>>>
    [] list = "implicit outs" -> <<<<":", "rule">>>>
    [] list = "ins" -> <<<<"|", "implicit">>, <<"||", "order-only">>, <<"|@", "validations">>,
                         <<"newline", "bindings">>>>
    [] list = "implicit" -> <<<<"||", "order-only">>, <<"|@", "validations">>, <<"newline", "bindings">>>>
    [] list = "order-only" -> <<<<"|@", "validations">>, <<"newline", "bindings">>>>
    [] list = "validations" -> <<<<"newline", "bindings">>>>

\* Some path was read since the statement began.
HasOutput == read # << >> /\ Last(read)[1] \in {"outs", "implicit outs"}

MutantEmpty(e) == e.text = << >> /\ At(e.start) # ":"  \* reads on

Empty(e) == e.text = << >>

ReadList ==
  /\ part \in Lists
  /\ LET e == ReadEvalString(ofs, TRUE, << >>)
         next == SelectSeq(Signs(part), LAMBDA s : PeekToken(e.next, s[1]) # 0)
         output == part \in {"outs", "implicit outs"}
     IN  IF ~e.ok \/ (output /\ e.text = <<<<":">>>>)
         THEN Refused /\ UNCHANGED read
         ELSE IF ~Empty(e) THEN Go(e.next, part) /\ Keep(e.text)
         ELSE /\ UNCHANGED read
              /\ IF next = << >> \/ (next[1][2] = "rule" /\ ~HasOutput) THEN Refused
                 ELSE Go(PeekToken(e.next, next[1][1]), next[1][2])
  /\ UNCHANGED file

ReadRule ==
  /\ part = "rule"
  /\ LET r == ReadIdent(ofs)
     IN  IF r.ident = << >> THEN Refused /\ UNCHANGED read
         ELSE Go(r.next, "ins") /\ Keep(Fragments(r.ident))
  /\ UNCHANGED file

\* Indented lines are the statement's; the loop reads them until one is not.
Bindings ==
  /\ part = "bindings"
  /\ LET t == ReadToken(ofs)
     IN  IF t.token = "indent" THEN Go(t.next, "let") ELSE Go(t.start, "statement")
  /\ UNCHANGED <<file, read>>

ParseLet ==
  /\ part \in {"let", "global"}
  /\ LET r == ReadIdent(ofs)
         equals == PeekToken(r.next, "=")
         e == ReadEvalString(equals, FALSE, << >>)
     IN  IF r.ident = << >> \/ equals = 0 \/ ~e.ok
         THEN Refused /\ UNCHANGED read
         ELSE /\ Go(e.next, IF part = "let" THEN "bindings" ELSE "statement")
              /\ read' = read \o <<<<part, Fragments(r.ident)>>, <<"value", e.text>>>>
  /\ UNCHANGED file

Next == Parse \/ ReadList \/ ReadRule \/ Bindings \/ ParseLet
Spec == Init /\ [][Next]_vars

-----------------------------------------------------------------------------
(***************************************************************************)
(* Whatever the layout - blanks, lines that go on, comments, line ends,    *)
(* escapes - a statement is read as it was meant: every path whole, in the *)
(* list it was written in.  The tests compare no path that is read.        *)
(***************************************************************************)
ReadAsMeant ==
  file.meant # None =>
    /\ part # "refused"
    /\ part = "done" => read = file.meant
    /\ IsPrefix(read, file.meant)

(***************************************************************************)
(* On any text whatever each round of a loop reads something, so that the  *)
(* parser comes to an end (manifest_parser.go:71, 225, 284, 352).          *)
(***************************************************************************)
Advances ==
  [][part' \in {"done", "refused"} \/ ofs' > ofs \/ <<part, part'>> \in
       {<<"statement", "global">>, <<"bindings", "statement">>}]_vars
=============================================================================
