----------------------------- MODULE MCDepfile -----------------------------
(***************************************************************************)
(* Depfile for TLC: one rule of up to two targets and two dependencies,    *)
(* or a rule and what -MP adds or a second rule; names with blanks, marks, *)
(* backslashes, and several spellings of one file.                         *)
(***************************************************************************)
EXTENDS Depfile

Names == {<<"a">>, <<"b", " ", "a">>, <<"#", "a">>, <<"a", "$">>, <<"b", "\\", "a", ":", "b">>}
Spelled == {<<".", "/", "a">>, <<"b", "/", "/", "a">>, <<"..", "/", ".", "/", "a">>,
            <<".", "/", "..", "/", "..", "/", "a">>, <<"..", "/", "..", "/", "a">>,
            <<"/", "b", "/">>, <<"b", "/", ".">>}
Gaps == {<<" ">>, <<" ", "\\", "nl", " ">>}

Upto(n, S) == UNION {[1..k -> S] : k \in 0..n}
OneRule ==
  {<<[targets |-> t, deps |-> d, gap |-> g]>> :
     t \in Upto(2, Names) \ {<< >>}, d \in Upto(2, Names \cup Spelled), g \in Gaps}
TwoRules ==
  {<<[targets |-> <<s>>, deps |-> d, gap |-> <<" ">>],
     [targets |-> <<t>>, deps |-> e, gap |-> <<" ">>]>> :
     s \in {<<"a">>}, t \in Names, d \in Upto(2, Names), e \in Upto(2, Names)}
Backslash == {<<[targets |-> t, deps |-> <<d>>, gap |-> <<" ">>]>> :
                t \in {<< <<"a">> >>, << <<"a", "\\">> >>, << <<"a", "\\", "\\">>, <<"a">> >>}, d \in {<<"a", "\\", " ", "b">>, <<"a", "\\">>}}
Files == OneRule \cup TwoRules \cup Backslash

Climbing == {<<[targets |-> << <<"a">> >>, deps |-> <<d>>, gap |-> <<" ">>]>> :
               d \in {<<"a", "/", "..", "/", "b">>, <<"a", "/", "b">>}}
=============================================================================
