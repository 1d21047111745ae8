------------------------------ MODULE Manifest ------------------------------
(***************************************************************************)
(* ManifestParser (manifest_parser.go) and the graph it makes in State     *)
(* (state.go).  A file is a sequence of statements, as the lexer delimits  *)
(* them; an action is one round of Parse's loop.  Included files are read  *)
(* by a parser on top of the one that includes them.                       *)
(*                                                                         *)
(* A path or a value is an EvalString of one fragment: <<text>>, or        *)
(* <<"$", variable>>.  What a text canonicalizes to is the constant        *)
(* Canonical (Paths says how).  When a statement is refused the program    *)
(* ends, so what the statement had done by then is left out.               *)
(***************************************************************************)
EXTENDS Naturals, SequencesExt

CONSTANTS
  File,        \* the files that can be included: names to statements
  Main,        \* what can be the statements of build.ninja
  Canonical,   \* from texts to paths
  WarnPhony    \* PhonyCycleActionWarn

IsSeq(s) == s \in Seq(ToSet(s))

\* What the lexer makes of a build statement.
ASSUME ManifestConstants ==
  \A sts \in Main \cup {File[f] : f \in DOMAIN File} :
    /\ IsSeq(sts)
    /\ \A st \in ToSet(sts) : st.kind = "build" =>
         /\ IsSeq(st.outs) /\ IsSeq(st.ins) /\ IsSeq(st.validations)
         /\ st.implicit \in Nat /\ st.orderOnly \in Nat

VARIABLES
  manifest,    \* the statements of build.ninja
  frames,      \* parsers, innermost last: the file, its next statement, its env
  scopes,      \* BindingEnvs: [parent, vars, rules]; the first is bindings_
  pools,       \* pools_
  edges,       \* edges_
  inEdge,      \* in_edge_ of the nodes that have one
  outEdges,    \* paths_: the nodes, to their out_edges_
  defaults,    \* defaults_
  pc           \* "parsing", "loaded", "refused"

graph == <<edges, inEdge, outEdges, defaults>>
vars == <<manifest, frames, scopes, pools, graph, pc>>

Statements(f) == IF f = "build.ninja" THEN manifest ELSE File[f]
Empty == [i \in {} |-> 0]
Bound(f, k, x) == [i \in DOMAIN f \cup {k} |-> IF i = k THEN x ELSE f[i]]

(***************************************************************************)
(* BindingEnv: the nearest scope that binds, or nothing.                   *)
(***************************************************************************)
LookupVariable(env, s, v) ==
  LET look[t \in DOMAIN env] ==
        IF v \in DOMAIN env[t].vars THEN env[t].vars[v]
        ELSE IF env[t].parent # 0 THEN look[env[t].parent] ELSE ""
  IN  look[s]

LookupRule(s, r) ==
  LET look[t \in DOMAIN scopes] ==
        IF r \in DOMAIN scopes[t].rules THEN scopes[t].rules[r]
        ELSE IF scopes[t].parent # 0 THEN look[scopes[t].parent] ELSE << >>
  IN  look[s]

Evaluate(env, s, e) == IF Len(e) = 1 THEN e[1] ELSE LookupVariable(env, s, e[2])

\* The edge's bindings, the rule's, the scopes around.
LookupWithFallback(env, s, v, e) ==
  IF v \in DOMAIN env[s].vars \/ e = << >> THEN LookupVariable(env, s, v)
  ELSE Evaluate(env, s, e)

(***************************************************************************)
(* NewState: the phony rule, and the default and the console pool.         *)
(***************************************************************************)
Init ==
  /\ manifest \in Main
  /\ frames = <<[file |-> "build.ninja", at |-> 1, env |-> 1]>>
  /\ scopes = <<[parent |-> 0, vars |-> Empty, rules |-> [phony |-> [pool |-> << >>]]]>>
  /\ pools = {"", "console"}
  /\ edges = << >> /\ inEdge = Empty /\ outEdges = Empty /\ defaults = << >>
  /\ pc = "parsing"

Top == Last(frames)
Env == Top.env
Statement == Statements(Top.file)[Top.at]

Reads(kind) ==
  /\ pc = "parsing" /\ Top.at <= Len(Statements(Top.file))
  /\ Statement.kind = kind
  /\ UNCHANGED manifest

Advanced == [frames EXCEPT ![Len(frames)].at = @ + 1]
Go == frames' = Advanced /\ UNCHANGED pc
Refuse == pc' = "refused" /\ UNCHANGED <<frames, scopes, pools, graph>>

ParsePool ==
  /\ Reads("pool")
  /\ IF Statement.name \in pools \/ Statement.depth = "" THEN Refuse
     ELSE pools' = pools \cup {Statement.name} /\ Go /\ UNCHANGED <<scopes, graph>>

\* Of a rule's bindings only the pool matters here.
ParseRule ==
  /\ Reads("rule")
  /\ IF Statement.name \in DOMAIN scopes[Env].rules \/ Statement.command = "" THEN Refuse
     ELSE /\ scopes' = [scopes EXCEPT ![Env].rules =
                          Bound(@, Statement.name, [pool |-> Statement.pool])]
          /\ Go /\ UNCHANGED <<pools, graph>>

ParseLet ==
  /\ Reads("let")
  /\ scopes' = [scopes EXCEPT ![Env].vars =
                  Bound(@, Statement.var, Evaluate(scopes, Env, Statement.val))]
  /\ Go /\ UNCHANGED <<pools, graph>>

-----------------------------------------------------------------------------
(***************************************************************************)
(* ParseEdge.  With bindings of its own, evaluated in the file's scope,    *)
(* the edge gets a scope; without, it has the file's.                      *)
(***************************************************************************)
EdgeScopes(st) ==
  IF st.vars = Empty THEN scopes
  ELSE Append(scopes, [parent |-> Env, rules |-> Empty,
                       vars |-> [v \in DOMAIN st.vars |-> Evaluate(scopes, Env, st.vars[v])]])

EdgeScope(st) == IF st.vars = Empty THEN Env ELSE Len(scopes) + 1

NoPath == "no path"
Nodes(st, evals) ==
  [i \in DOMAIN evals |->
     LET text == Evaluate(EdgeScopes(st), EdgeScope(st), evals[i])
     IN  IF text = "" THEN NoPath ELSE Canonical[text]]

PoolName(st) ==
  LookupWithFallback(EdgeScopes(st), EdgeScope(st), "pool", LookupRule(Env, st.rule).pool)

\* AddOut: one producer for a node, which names it once.
MutantAddOutFails(outs) == Head(outs) \in DOMAIN inEdge  \* looks at the first

AddOutFails(outs) ==
  \E i \in DOMAIN outs : outs[i] \in DOMAIN inEdge \/ \E j \in 1..i - 1 : outs[i] = outs[j]

\* AddIn: a node lists a consumer once.
AddIns(i, ins, new) ==
  [n \in DOMAIN outEdges \cup new |->
     (IF n \in DOMAIN outEdges THEN outEdges[n] ELSE << >>)
       \o IF Contains(ins, n) THEN <<i>> ELSE << >>]

\* An old CMake has a phony target name itself; the input is dropped, where
\* MaybePhonyCycleDiagnostic, and the counts of inputs stay.
MutantNamesItself(st, ins, outs) ==            \* implicit inputs or not
  WarnPhony /\ st.rule = "phony" /\ Len(outs) = 1 /\ Contains(ins, Head(outs))

NamesItself(st, ins, outs) ==
  /\ WarnPhony /\ st.rule = "phony" /\ Len(outs) = 1
  /\ st.implicitOuts = 0 /\ st.implicit = 0
  /\ Contains(ins, Head(outs))

\* Those of s that are not in D, in order.
Without(s, D) ==
  LET kept[i \in 0 .. Len(s)] ==
        IF i = 0 THEN << >>
        ELSE IF s[i] \in D THEN kept[i - 1] ELSE Append(kept[i - 1], s[i])
  IN  kept[Len(s)]

Kept(st, ins, outs) ==
  IF NamesItself(st, ins, outs) THEN Without(ins, {Head(outs)}) ELSE ins

ParsedEdge(st, ins, outs) ==                   \* `written' is history
  [rule |-> st.rule, outs |-> outs, ins |-> Kept(st, ins, outs), written |-> ins,
   implicit |-> st.implicit, orderOnly |-> st.orderOnly, validations |-> Nodes(st, st.validations)]

ParseEdge ==
  /\ Reads("build")
  /\ LET st == Statement
         outs == Nodes(st, st.outs)
         ins == Nodes(st, st.ins)
         all == outs \o ins \o Nodes(st, st.validations)
     IN  IF \/ LookupRule(Env, st.rule) = << >> \/ outs = << >>
            \/ PoolName(st) \notin pools
            \/ Contains(all, NoPath) \/ AddOutFails(outs)
         THEN Refuse
         ELSE /\ edges' = Append(edges, ParsedEdge(st, ins, outs))
              /\ inEdge' = [n \in DOMAIN inEdge \cup ToSet(outs) |->
                              IF n \in ToSet(outs) THEN Len(edges) + 1 ELSE inEdge[n]]
              /\ outEdges' = AddIns(Len(edges) + 1, ins, ToSet(all))
              /\ scopes' = EdgeScopes(st)
              /\ Go /\ UNCHANGED <<pools, defaults>>

\* A default must be a node already.
ParseDefault ==
  /\ Reads("default")
  /\ LET text == Evaluate(scopes, Env, Statement.path)
     IN  IF text = "" \/ Canonical[text] \notin DOMAIN outEdges THEN Refuse
         ELSE /\ defaults' = Append(defaults, Canonical[text])
              /\ Go /\ UNCHANGED <<scopes, pools, edges, inEdge, outEdges>>

-----------------------------------------------------------------------------
(***************************************************************************)
(* include reads in the scope of the includer, subninja in a new one.      *)
(***************************************************************************)
MutantSubScope == [scopes |-> scopes, env |-> Env]  \* subninja includes

SubScope ==
  [scopes |-> Append(scopes, [parent |-> Env, vars |-> Empty, rules |-> Empty]),
   env |-> Len(scopes) + 1]

ParseFileInclude ==
  /\ Reads("include") \/ Reads("subninja")
  /\ LET name == Evaluate(scopes, Env, Statement.file)
         sub == IF Statement.kind = "subninja" THEN SubScope ELSE [scopes |-> scopes, env |-> Env]
     IN  IF name \notin DOMAIN File THEN Refuse
         ELSE /\ scopes' = sub.scopes
              /\ frames' = Append(Advanced, [file |-> name, at |-> 1, env |-> sub.env])
              /\ UNCHANGED <<pools, graph, pc>>

EndOfFile ==
  /\ pc = "parsing" /\ Top.at > Len(Statements(Top.file))
  /\ IF Len(frames) > 1 THEN frames' = Front(frames) /\ UNCHANGED pc
     ELSE pc' = "loaded" /\ UNCHANGED frames
  /\ UNCHANGED <<manifest, scopes, pools, graph>>

Next ==
  \/ ParsePool \/ ParseRule \/ ParseLet \/ ParseEdge \/ ParseDefault
  \/ ParseFileInclude \/ EndOfFile

Spec == Init /\ [][Next]_vars

-----------------------------------------------------------------------------
(***************************************************************************)
(* The two directions of the graph agree, whatever the spelling of the     *)
(* paths: a node's in_edge_ is the one edge with that output, and it has   *)
(* an out edge for every edge with that input, but for a phony target that *)
(* named itself: there the edge stays among its own consumers (what        *)
(* RootNodes reads), although it lost the input.                           *)
(***************************************************************************)
GraphConsistent ==
  /\ \A e \in DOMAIN edges :
       /\ IsInjective(edges[e].outs)
       /\ \A n \in ToSet(edges[e].outs) : n \in DOMAIN inEdge /\ inEdge[n] = e
  /\ \A n \in DOMAIN inEdge : n \in ToSet(edges[inEdge[n]].outs)
  /\ \A n \in DOMAIN outEdges, e \in DOMAIN edges :
       Contains(outEdges[n], e) <=>
         \/ Contains(edges[e].ins, n)
         \/ Contains(edges[e].written, n) /\ edges[e].outs = <<n>> /\ edges[e].rule = "phony"

(***************************************************************************)
(* An input is explicit, implicit or order-only by its place from the end  *)
(* of inputs_ (edge.go:85), and stays what the statement made it.  A phony *)
(* target that named itself after || is excepted: its count of order-only  *)
(* inputs is one too high then.                                            *)
(***************************************************************************)
Kinds(e, ins) ==                               \* each input with its kind
  [i \in DOMAIN ins |->
     <<ins[i], CASE i > Len(ins) - e.orderOnly -> "order-only"
                 [] i > Len(ins) - e.orderOnly - e.implicit
                      /\ i <= Len(ins) - e.orderOnly -> "implicit"
                 [] OTHER -> "explicit">>]

KindsKept ==
  \A k \in DOMAIN edges :
    LET e == edges[k]
        dropped == IF e.ins = e.written THEN {}
                   ELSE {Head(e.outs)} \X {"explicit", "implicit", "order-only"}
    IN  \/ Kinds(e, e.ins) = Without(Kinds(e, e.written), dropped)
        \/ <<Head(e.outs), "order-only">> \in ToSet(Kinds(e, e.written))

(***************************************************************************)
(* What a subninja declares stays in it: the rules and variables of the    *)
(* first scope are those of build.ninja and of the files it includes       *)
(* (manifest_parser.go:525).                                               *)
(***************************************************************************)
\* The files read in the first scope: build.ninja and what these include.
MainScope ==
  LET Files == DOMAIN File \cup {"build.ninja"}
      Names(e) == IF Len(e) = 1 THEN {e[1]} \cap DOMAIN File ELSE DOMAIN File
      Closed(S) ==
        /\ "build.ninja" \in S
        /\ \A f \in S : \A st \in ToSet(Statements(f)) :
             st.kind = "include" => Names(st.file) \subseteq S
  IN  {f \in Files : \A S \in SUBSET Files : Closed(S) => f \in S}

Declared(kind) ==
  UNION {{st \in ToSet(Statements(f)) : st.kind = kind} : f \in MainScope}

NothingLeaks ==
  /\ DOMAIN scopes[1].rules \subseteq {"phony"} \cup {st.name : st \in Declared("rule")}
  /\ DOMAIN scopes[1].vars \subseteq {st.var : st \in Declared("let")}
=============================================================================
