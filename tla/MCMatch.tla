------------------------------- MODULE MCMatch -------------------------------
(***************************************************************************)
(* Instances of Match for TLC.                                             *)
(***************************************************************************)
EXTENDS Match, TLC

Symmetry == Permutations(Endpoints)
=============================================================================
