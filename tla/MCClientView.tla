---------------------------- MODULE MCClientView -----------------------------
(***************************************************************************)
(* Instances of ClientView for TLC.  The entities are numbers, as the ids   *)
(* of the lobby are: no symmetry.                                          *)
(***************************************************************************)
EXTENDS ClientView
=============================================================================
