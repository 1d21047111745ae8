------------------------------- MODULE MCScan -------------------------------
(***************************************************************************)
(* An instance of Scan: a generated header and a system header that are    *)
(* recorded dependencies of a compilation, which a validation edge checks; *)
(* an alias of the object, and a document made from it by a generator rule *)
(* with an order-only input that only a phony edge makes; and two edges    *)
(* that form a cycle once the deps of one of them are loaded.              *)
(***************************************************************************)
EXTENDS Scan

MCEdges == {"gen", "cc", "lint", "force", "alias", "doc", "c1", "c2"}
MCNodes == {"src", "h", "o", "ok", "f", "all", "txt", "x", "y", "sys"}
MCRegular == [e \in MCEdges |->
  CASE e = "gen" -> {"src"} [] e = "cc" -> {"src", "h", "sys"} [] e = "lint" -> {"o"}
    [] e = "force" -> {} [] e = "alias" -> {"o"} [] e = "doc" -> {"all"}
    [] e = "c1" -> {"src", "y"} [] e = "c2" -> {"x"}]
MCOrderOnly == [e \in MCEdges |->
  CASE e = "cc" -> {"h"} [] e = "doc" -> {"f"} [] OTHER -> {}]
MCOutputs == [e \in MCEdges |->
  CASE e = "gen" -> {"h"} [] e = "cc" -> {"o"} [] e = "lint" -> {"ok"}
    [] e = "force" -> {"f"} [] e = "alias" -> {"all"} [] e = "doc" -> {"txt"}
    [] e = "c1" -> {"x"} [] e = "c2" -> {"y"}]
MCMainOutput == [e \in MCEdges |-> CHOOSE o \in MCOutputs[e] : TRUE]
MCDependents == [e \in MCEdges |->
  CASE e = "gen" -> <<"cc">> [] e = "cc" -> <<"lint", "alias">>
    [] e \in {"force", "alias"} -> <<"doc">> [] e = "c1" -> <<"c2">>
    [] e = "c2" -> <<"c1">> [] OTHER -> << >>]
MCValidations == [e \in MCEdges |-> IF e = "cc" THEN {"ok"} ELSE {}]
MCPoolOf == [e \in MCEdges |-> "default"]
MCDepth == [p \in {"default"} |-> 0]
MCDiscovered == [e \in MCEdges |->
  CASE e = "cc" -> {"h", "sys"} [] e = "c1" -> {"y"} [] OTHER -> {}]
MCTargetLists == {<<"txt">>, <<"ok", "txt">>, <<"y", "h">>}

MCMtimes == [n \in MCNodes |->
  CASE n = "src" -> {0, 2} [] n \in {"h", "o"} -> {0, 1, 2, 3}
    [] n = "all" -> {0, 1} [] n = "txt" -> {1, 2} [] n \in {"f", "sys"} -> {0, 1}
    [] OTHER -> {0, 3}]
MCRecords == [e \in MCEdges |-> {NoRecord, 1, 2}]
Same(t) == [found |-> TRUE, same |-> TRUE, mtime |-> t]
Other(t) == [found |-> TRUE, same |-> FALSE, mtime |-> t]
MCEntries == [n \in MCNodes |->
  CASE n = "h" -> {NoEntry, Same(1), Same(3), Other(3)}
    [] n = "o" -> {NoEntry, Same(1), Same(2)}
    [] n = "txt" -> {NoEntry, Other(2), Same(1)}
    [] OTHER -> {Same(3)}]
===========================================================================
