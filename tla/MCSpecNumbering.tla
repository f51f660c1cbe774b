-------------------------- MODULE MCSpecNumbering --------------------------
(***************************************************************************)
(* Instances of SpecNumbering for TLC: who creates specs in which setting. *)
(***************************************************************************)
EXTENDS SpecNumbering

Both == {"cli", "library"}

MCSettings ==
  {[kinds |-> {"library"}, archiving |-> TRUE, alone |-> TRUE],
   [kinds |-> Both, archiving |-> TRUE, alone |-> TRUE],
   [kinds |-> Both, archiving |-> FALSE, alone |-> TRUE],
   [kinds |-> {"cli"}, archiving |-> FALSE, alone |-> FALSE]}

MCArchived == {[kinds |-> {"cli"}, archiving |-> TRUE, alone |-> TRUE]}
=============================================================================
