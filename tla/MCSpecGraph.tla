---------------------------- MODULE MCSpecGraph ----------------------------
(***************************************************************************)
(* Instances of SpecGraph for TLC: three directories, the third of which   *)
(* may carry the spec id of the second; spec 4 is not there.               *)
(***************************************************************************)
EXTENDS SpecGraph

MCDirs == 1..3

\* Two contents that disagree on everything shared, and an empty one.
Contents ==
  {[glossary |-> {<<"term", "a">>}, symbols |-> <<<<"f", "s">>, <<"f", "t">>>>,
    contracts |-> {<<"f", "int">>}, actors |-> {"server"}, reqs |-> <<1>>],
   [glossary |-> {<<"term", "b">>}, symbols |-> <<<<"f", "s">>>>,
    contracts |-> {<<"f", "bool">>}, actors |-> {"client"}, reqs |-> <<1, 3, 3>>],
   [glossary |-> {}, symbols |-> <<>>, contracts |-> {}, actors |-> {}, reqs |-> <<2>>]}

Lists(n, ids) == UNION {[1..k -> ids] : k \in 0..n}

Spec1(prd, sid, deps, c) ==
  [prd |-> prd, sid |-> sid, deps |-> deps, glossary |-> c.glossary, symbols |-> c.symbols,
   contracts |-> c.contracts, actors |-> c.actors, reqs |-> c.reqs]

\* Graphs: all lists of at most two dependencies, of one for the last spec.
Empty == CHOOSE c \in Contents : c.actors = {}

MCGraphs ==
  {[d \in MCDirs |-> Spec1(TRUE, d, lists[d], Empty)] : lists \in {l \in [MCDirs -> Lists(2, 1..3)] : Len(l[3]) <= 1}}

\* Files: at most one dependency each, broken files, an id given twice.
MCFiles ==
  {[d \in MCDirs |->
      [Spec1(d # broken, IF d = 3 THEN third ELSE d, lists[d], Empty)
         EXCEPT !.reqs = IF d = unreadable THEN Nil ELSE @]] :
     lists \in [MCDirs -> Lists(1, {1, 2, 4}) \cup {Nil}], broken \in {0, 1},
     unreadable \in {0, 2}, third \in {2, 3}}

\* Contents: what the specs share, with an edge between the first two.
MCContents ==
  {[d \in MCDirs |-> Spec1(TRUE, d, IF d = 1 THEN <<2>> ELSE <<>>, contents[d])] :
     contents \in [MCDirs -> Contents]}

\* No directory with a prd.md that can be parsed.
MCNothing == {[d \in MCDirs |-> Spec1(FALSE, d, <<>>, Empty)]}

MCStart == MCGraphs \cup MCFiles \cup MCContents \cup MCNothing

MCDepLists == {<<1, 2>>, Nil}
=============================================================================
