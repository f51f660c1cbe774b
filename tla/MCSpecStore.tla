---------------------------- MODULE MCSpecStore ----------------------------
(***************************************************************************)
(* Instances of SpecStore for TLC: clients are interchangeable.            *)
(***************************************************************************)
EXTENDS SpecStore, TLC

Symmetry == Permutations(Client)
=============================================================================
