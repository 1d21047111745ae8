------------------------------ MODULE MCTools ------------------------------
(***************************************************************************)
(* Tools for TLC: two stages of a project, the second without its          *)
(* generated header, and a graph with a diamond, two outputs and phony     *)
(* edges between.                                                          *)
(***************************************************************************)
EXTENDS Tools

Edge(ins, outs) == [ins |-> ins, outs |-> outs, phony |-> FALSE, generator |-> FALSE,
                    deps |-> FALSE, files |-> {}]
Phony(ins, outs) == [Edge(ins, outs) EXCEPT !.phony = TRUE]
Compile(ins, outs) == [Edge(ins, outs) EXCEPT !.deps = TRUE, !.files = {"obj.rsp"}]
Configure == [Edge(<<"conf">>, <<"build.ninja">>) EXCEPT !.generator = TRUE]

Generated == <<Configure, Edge(<<"conf">>, <<"gen.h", "gen.c">>), Phony(<<"gen.h">>, <<"headers">>),
               Compile(<<"gen.c", "headers">>, <<"obj">>), Edge(<<"obj", "gen.h">>, <<"lib">>)>>
Written == <<Configure, Compile(<<"gen.c">>, <<"obj">>), Edge(<<"obj", "conf">>, <<"lib">>)>>
Forgotten == <<Edge(<<"conf">>, <<"gen.h">>), Edge(<<"gen.h">>, <<"gen.c">>),
               Compile(<<"conf">>, <<"obj">>), Compile(<<"conf", "gen.c">>, <<"lib">>),
               Phony(<<"obj", "lib">>, <<"headers">>)>>

Graphs == {Generated, Written, Forgotten}
Reads == {{}, {"gen.h"}, {"gen.c", "gen.h"}, {"conf", "build.ninja"}, {"gen.h", "headers", "conf"}}
Nodes == {"build.ninja", "conf", "gen.h", "gen.c", "headers", "obj", "lib"}
=============================================================================
