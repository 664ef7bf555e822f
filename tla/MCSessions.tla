----------------------------- MODULE MCSessions -----------------------------
(***************************************************************************)
(* Instances of Sessions for TLC: the safety properties are insensitive to *)
(* the names of the endpoints, the liveness properties are not.            *)
(***************************************************************************)
EXTENDS Sessions, TLC

Symmetry == Permutations(Endpoints)
=============================================================================
