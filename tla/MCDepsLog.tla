----------------------------- MODULE MCDepsLog -----------------------------
(* DepsLog with two outputs, one of which is no longer live, and a header   *)
(* whose path takes three words, as many as the out id and the mtime of a   *)
(* deps record take.                                                        *)
EXTENDS DepsLog

PathWord(n) == W("path", n)
MCPathOf == ("o" :> <<PathWord(1)>>) @@ ("x" :> <<PathWord(2)>>)
            @@ ("h" :> <<PathWord(3), PathWord(4), PathWord(5)>>)
MCDepLists == {<< >>, <<"h">>, <<"h", "x">>}
===========================================================================
