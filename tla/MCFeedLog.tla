------------------------------ MODULE MCFeedLog ------------------------------
(***************************************************************************)
(* Instances of FeedLog for TLC.                                           *)
(***************************************************************************)
EXTENDS FeedLog, TLC

Symmetry == Permutations(Endpoints) \cup Permutations(Positions)
=============================================================================
