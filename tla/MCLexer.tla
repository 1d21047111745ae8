------------------------------ MODULE MCLexer ------------------------------
(***************************************************************************)
(* Lexer for TLC: any text of up to three symbols, alone or behind a       *)
(* beginning; build statements of every shape, in several layouts, with    *)
(* names that need escapes, variables, and keywords for names.             *)
(***************************************************************************)
EXTENDS Lexer

Symbols == {"a", "build", ".", " ", "nl", "cr", "#", ":", "=", "|", "@", "$", "{", "}", "^", "?", "nul"}
Upto(n, S) == UNION {[1..k -> S] : k \in 0..n}
AnyText == {[text |-> t, meant |-> None] : t \in Upto(3, Symbols)}
Started == {[text |-> <<"build", " ">> \o s \o t, meant |-> None] :
              s \in {<<"a">>, <<"a", ":", "a">>, <<"a", ":", "a", "nl", " ">>, <<"$", "{">>},
              t \in Upto(3, Symbols \ {"build", "?", "^"})}

Escaped(e) ==
  FlattenSeq([i \in DOMAIN e |->
    CASE e[i] \in {<<" ">>, <<"$">>, <<":">>} -> <<"$">> \o e[i]
      [] e[i] = <<"nl">> -> <<"$", "^">>
      [] Len(e[i]) > 1 -> <<"$", "{">> \o Tail(e[i]) \o <<"}">>
      [] OTHER -> e[i]])

Paths == {<<<<"a">>>>, <<<<"build">>, <<".">>>>, <<<<"a">>, <<" ">>, <<"a">>>>, <<<<":">>, <<"$">>>>,
          <<<<"$", "a", ".">>, <<"a">>>>, <<<<"#">>, <<"nl">>>>, <<<<"=">>, <<"$", "a">>>>}
Gaps == {<<" ">>, <<" ", " ">>, <<" ", "$", "nl", " ">>, <<" ", "$", "cr", "nl">>}
Ends == {<<"nl">>, <<"cr", "nl">>, <<"nl", " ", "#", "a", "nl">>}

\* The parts of a statement, and the sign before each list.
Shape == {s \in SUBSET {"outs", "implicit outs", "ins", "implicit", "order-only", "validations", "let"} :
            {"outs", "implicit outs"} \cap s # {}}
List(s, list, sign, gap, path) ==
  IF list \notin s THEN [text |-> << >>, meant |-> << >>]
  ELSE [text |-> gap \o sign \o (IF sign = << >> THEN << >> ELSE gap)
                   \o Escaped(path) \o gap \o <<"a">> \o gap,
        meant |-> <<<<list, path>>, <<list, <<<<"a">>>>>>>>]

Statement(s, path, gap, end) ==
  LET L(list, sign) == List(s, list, sign, gap, path)
      rule == [text |-> <<":">> \o gap \o <<"build">>, meant |-> <<<<"rule", <<<<"build">>>>>>>>]
      eol == [text |-> end, meant |-> << >>]
      let == IF "let" \notin s THEN [text |-> << >>, meant |-> << >>]
             ELSE [text |-> <<" ", "a", "=">> \o gap \o Escaped(path) \o <<" ", ":">> \o end,
                   meant |-> <<<<"let", <<<<"a">>>>>>, <<"value", path \o <<<<" ">>, <<":">>>>>>>>]
      parts == <<L("outs", << >>), L("implicit outs", <<"|">>), rule, L("ins", << >>),
                 L("implicit", <<"|">>), L("order-only", <<"|", "|">>), L("validations", <<"|", "@">>),
                 eol, let>>
  IN  [text |-> <<"build">> \o FlattenSeq([i \in DOMAIN parts |-> parts[i].text]),
       meant |-> FlattenSeq([i \in DOMAIN parts |-> parts[i].meant])]

Written == {Statement(s, path, gap, end) : s \in Shape, path \in Paths, gap \in Gaps, end \in Ends}
Global == {[text |-> <<"a", " ", "=">> \o gap \o Escaped(path) \o end,
            meant |-> <<<<"global", <<<<"a">>>>>>, <<"value", path>>>>] :
             path \in Paths, gap \in Gaps, end \in Ends}
Texts == AnyText \cup Started \cup Written \cup Global
============================================================================
