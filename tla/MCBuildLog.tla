----------------------------- MODULE MCBuildLog -----------------------------
(***************************************************************************)
(* BuildLog for TLC: an edge that has lost its second output in a later    *)
(* manifest; the program itself, which has no IsPathDead, and a user that  *)
(* knows of all outputs or no longer of that one.                          *)
(***************************************************************************)
EXTENDS BuildLog

Edges == {<<"y.c", "y.h">>, <<"y.c">>}
Users == {NilUser, {}, {"y.h"}}
=============================================================================
