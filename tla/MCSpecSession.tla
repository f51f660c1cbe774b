--------------------------- MODULE MCSpecSession ---------------------------
(***************************************************************************)
(* Instances of SpecSession for TLC: processes are interchangeable.        *)
(***************************************************************************)
EXTENDS SpecSession, TLC

Symmetry == Permutations(Proc)
=============================================================================
