----------------------------- MODULE MCBuilder -----------------------------
(***************************************************************************)
(* Instances of Builder for TLC.  Each graph is a handful of build         *)
(* statements; a .cfg picks one.                                           *)
(***************************************************************************)
EXTENDS Builder

(* Independent commands: three are ready at once, and a, when it finishes, *)
(* makes two aliases ready.                                                *)
WideEdges == {"a", "b", "c", "p", "q", "ln"}
WideNodes == {"src", "a.o", "b.o", "c.o", "p.t", "q.t", "prog"}
WidePools == {"default"}
WideRegular == [e \in WideEdges |->
  CASE e \in {"a", "b", "c"} -> {"src"} [] e \in {"p", "q"} -> {"a.o"}
    [] e = "ln" -> {"p.t", "q.t", "b.o"}]
WideOrderOnly == [e \in WideEdges |-> IF e = "ln" THEN {"c.o"} ELSE {}]
WideOutputs == [e \in WideEdges |->
  CASE e = "a" -> {"a.o"} [] e = "b" -> {"b.o"} [] e = "c" -> {"c.o"}
    [] e = "p" -> {"p.t"} [] e = "q" -> {"q.t"} [] e = "ln" -> {"prog"}]
WideDependents == [e \in WideEdges |->
  CASE e = "a" -> <<"p", "q">> [] e \in {"b", "c", "p", "q"} -> <<"ln">>
    [] e = "ln" -> << >>]
WideValidations == [e \in WideEdges |-> {}]
WidePoolOf == [e \in WideEdges |-> "default"]
WideDepth == [p \in WidePools |-> 0]

(* An object checked by a validation edge, over a generator with two       *)
(* outputs (its consumers are visited once per output) and a system header, *)
(* in a pool of depth 2; two documents over a phony edge without inputs, in *)
(* a pool of depth 1; a phony edge on top of them.                          *)
CheckEdges == {"cfg", "obj", "lint", "force", "doc", "man", "all"}
CheckNodes == {"src", "conf.h", "conf.mk", "obj.o", "lint.ok", "stamp", "doc.txt", "man.txt",
               "top", "sys.h"}
CheckPools == {"default", "io", "cc"}
CheckRegular == [e \in CheckEdges |->
  CASE e = "cfg" -> {"src"} [] e = "obj" -> {"conf.h", "sys.h"}
    [] e = "lint" -> {"conf.h", "conf.mk"} [] e = "force" -> {}
    [] e \in {"doc", "man"} -> {"stamp"} [] e = "all" -> {"doc.txt", "man.txt"}]
CheckOrderOnly == [e \in CheckEdges |->
  CASE e = "obj" -> {"conf.mk"} [] e = "lint" -> {"obj.o"} [] OTHER -> {}]
CheckOutputs == [e \in CheckEdges |->
  CASE e = "cfg" -> {"conf.h", "conf.mk"} [] e = "obj" -> {"obj.o"}
    [] e = "lint" -> {"lint.ok"} [] e = "force" -> {"stamp"}
    [] e = "doc" -> {"doc.txt"} [] e = "man" -> {"man.txt"}
    [] e = "all" -> {"top"}]
CheckDependents == [e \in CheckEdges |->
  CASE e = "cfg" -> <<"obj", "lint", "obj", "lint">> [] e = "obj" -> <<"lint">>
    [] e = "force" -> <<"doc", "man">> [] e \in {"doc", "man"} -> <<"all">> [] OTHER -> << >>]
CheckValidations == [e \in CheckEdges |-> IF e = "obj" THEN {"lint.ok"} ELSE {}]
CheckPoolOf == [e \in CheckEdges |->
  CASE e \in {"doc", "man"} -> "io" [] e \in {"obj", "lint"} -> "cc" [] OTHER -> "default"]
CheckDepth == [p \in CheckPools |-> CASE p = "io" -> 1 [] p = "cc" -> 2 [] OTHER -> 0]
===========================================================================
