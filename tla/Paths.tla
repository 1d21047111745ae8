-------------------------------- MODULE Paths --------------------------------
(***************************************************************************)
(* CanonicalizePathBytes (util.go), which decides what two spellings of a  *)
(* path are one node.  A path is a non-empty sequence of tokens: "/", the  *)
(* tokens "." and "..", and letters.  Slash bits are Windows' alone and    *)
(* left out.                                                               *)
(*                                                                         *)
(* The function copies components to the front of its own buffer.  What it *)
(* has copied after the leading part is kept here as components, with      *)
(* `open' for a last one that lacks its separator: what is copied next     *)
(* continues that component.                                               *)
(***************************************************************************)
EXTENDS Naturals, Sequences, SequencesExt

Up == <<"..">>
Nothing == {<< >>, <<".">>}

Split(path) ==
  FoldLeft(LAMBDA cs, c : IF c = "/" THEN Append(cs, << >>)
                          ELSE [cs EXCEPT ![Len(cs)] = Append(@, c)],
           << << >> >>, path)

Join(cs) ==
  IF cs = << >> THEN << >>
  ELSE FoldLeft(LAMBDA p, c : p \o <<"/">> \o c, Head(cs), Tail(cs))

IsAbsolute(path) == Head(path) = "/"

(***************************************************************************)
(* The buffer: what is copied, the components counted, and `open'.         *)
(***************************************************************************)
Copy(s, c) ==
  IF s.open THEN [s EXCEPT !.done[Len(s.done)] = @ \o c, !.open = FALSE]
  ELSE [s EXCEPT !.done = Append(@, c)]

MutantCopyUp(s, c) == [Copy(s, c) EXCEPT !.count = @ + 1]  \* counts the ".." it keeps

CopyUp(s, c) == Copy(s, c)

\* The last component and the separator before it are dropped; but where a
\* separator comes last, only that separator.
BackUp(s) ==
  IF ~s.open THEN [s EXCEPT !.open = s.done # << >>]
  ELSE [s EXCEPT !.done = Front(@), !.open = Len(s.done) > 1]

Component(s, c) ==
  IF c \in Nothing THEN s
  ELSE IF c # Up THEN [Copy(s, c) EXCEPT !.count = @ + 1]
  ELSE IF s.count > 0 THEN BackUp([s EXCEPT !.count = @ - 1])
  ELSE CopyUp(s, c)

LeadingUps(cs) ==
  CHOOSE n \in 0..Len(cs) - 1 :
    /\ \A i \in 1..n : cs[i] = Up
    /\ n = Len(cs) - 1 \/ cs[n + 1] # Up

Canonicalize(path) ==
  LET cs == Split(path)
      lead == IF IsAbsolute(path) THEN 1 ELSE LeadingUps(cs)
      s == FoldLeft(Component, [done |-> << >>, count |-> 0, open |-> FALSE],
                    SubSeq(cs, lead + 1, Len(cs)))
      whole == Join(SubSeq(cs, 1, lead) \o s.done)
  IN  IF whole # << >> THEN whole ELSE IF IsAbsolute(path) THEN <<"/">> ELSE <<".">>

-----------------------------------------------------------------------------
(***************************************************************************)
(* The reference: the file a path leads to, in a tree without links.       *)
(***************************************************************************)
Walk(path) ==
  LET to == FoldLeft(LAMBDA at, c :
                       IF c \in Nothing THEN at
                       ELSE IF c # Up THEN Append(at, c)
                       ELSE IF at # << >> /\ Last(at) # Up THEN Front(at)
                       ELSE IF IsAbsolute(path) THEN at
                       ELSE Append(at, Up),
                     << >>, Split(path))
  IN  IF IsAbsolute(path) THEN <<"/">> \o Join(to)
      ELSE IF to = << >> THEN <<".">> ELSE Join(to)

\* A ".." after a name, or above the root.
Climbs(path) ==
  LET cs == Split(path)
  IN  \E j \in DOMAIN cs :
        /\ cs[j] = Up
        /\ IsAbsolute(path) \/ \E i \in 1..j - 1 : cs[i] \notin Nothing \cup {Up}
=============================================================================
