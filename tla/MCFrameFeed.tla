----------------------------- MODULE MCFrameFeed -----------------------------
(***************************************************************************)
(* Instances of FrameFeed for TLC: its liveness, and what the code does    *)
(* not keep.  The invariants are checked with MCFeedLog.                   *)
(***************************************************************************)
EXTENDS FrameFeed
=============================================================================
