--------------------------- MODULE MCPlayerActions ---------------------------
(***************************************************************************)
(* Instances of PlayerActions for TLC.                                     *)
(***************************************************************************)
EXTENDS PlayerActions, TLC
=============================================================================
