------------------------------- MODULE MCPong --------------------------------
(***************************************************************************)
(* Instances of Pong for TLC.                                              *)
(***************************************************************************)
EXTENDS Pong, TLC
=============================================================================
