----------------------------- MODULE MCManifest -----------------------------
(***************************************************************************)
(* Manifest for TLC: up to four statements, in any order, of two files     *)
(* with two spellings, a variable, a pool and a second file.               *)
(***************************************************************************)
EXTENDS Manifest

Plain == [kind |-> "build", outs |-> <<<<"a">>>>, implicitOuts |-> 0, rule |-> "cc", ins |-> <<<<"c">>>>,
          implicit |-> 0, orderOnly |-> 0, validations |-> << >>, vars |-> Empty]

Builds == {
  Plain,
  [Plain EXCEPT !.outs = <<<<"./a">>, <<"b">>>>, !.implicitOuts = 1, !.validations = <<<<"v">>>>],
  [Plain EXCEPT !.outs = <<<<"b">>, <<"./a">>, <<"a">>>>],
  [Plain EXCEPT !.outs = <<<<"b">>, <<"$", "x">>>>, !.ins = <<<<"$", "x">>, <<"./a">>, <<"c">>>>,
                !.implicit = 1, !.orderOnly = 1],
  [Plain EXCEPT !.rule = "phony", !.ins = <<<<"b">>, <<"./a">>, <<"c">>>>, !.orderOnly = 1],
  [Plain EXCEPT !.rule = "phony", !.ins = <<<<"b">>, <<"./a">>>>, !.orderOnly = 1],
  [Plain EXCEPT !.rule = "phony", !.ins = <<<<"b">>, <<"a">>, <<"c">>>>, !.implicit = 2],
  [Plain EXCEPT !.outs = <<<<"$", "y">>>>, !.vars = [y |-> <<"b">>, pool |-> <<"$", "x">>]]}

Others == {
  [kind |-> "pool", name |-> "p", depth |-> "2"],
  [kind |-> "rule", name |-> "cc", command |-> "cc", pool |-> << >>],
  [kind |-> "rule", name |-> "cc", command |-> "cc", pool |-> <<"$", "x">>],
  [kind |-> "let", var |-> "x", val |-> <<"p">>],
  [kind |-> "let", var |-> "x", val |-> <<"a">>],
  [kind |-> "default", path |-> <<"./a">>],
  [kind |-> "include", file |-> <<"rules.ninja">>],
  [kind |-> "subninja", file |-> <<"rules.ninja">>],
  [kind |-> "subninja", file |-> <<"$", "x">>]}

Files == [f \in {"rules.ninja", "a"} |->
  IF f = "a" THEN << >>
  ELSE <<[kind |-> "rule", name |-> "cc", command |-> "cc", pool |-> <<"p">>],
         [kind |-> "let", var |-> "x", val |-> <<"b">>],
         [Plain EXCEPT !.outs = <<<<"b">>>>, !.ins = <<<<"$", "x">>, <<"v">>>>, !.rule = "phony"]>>]

Mains == UNION {[1..n -> Builds \cup Others] : n \in 0..4}
Spelled == [t \in {"a", "./a", "b", "c", "v", "p"} |-> IF t = "./a" THEN "a" ELSE t]
=============================================================================
