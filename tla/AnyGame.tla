------------------------------- MODULE AnyGame -------------------------------
(***************************************************************************)
(* What a game promises the server that broadcasts its frames, whichever   *)
(* game it is: while a frame is made, entities are created under the next  *)
(* ids, and deleted only when earlier frames left them or this one created *)
(* them; then the frame goes out with all of these packets.  So an id is   *)
(* created by one frame, deleted by at most one, and never used again.     *)
(***************************************************************************)
EXTENDS Integers

VARIABLES alive,     \* the entities that the frames so far leave
          next,      \* the ids below it are given
          created,   \* the CREATE_ packets of the frame being made
          deleted    \* its DELETE packets

vars == <<alive, next, created, deleted>>

Init == alive = {} /\ next = 0 /\ created = {} /\ deleted = {}

Create ==
    /\ next' >= next
    /\ created' = created \cup next .. (next' - 1)
    /\ UNCHANGED <<alive, deleted>>

Delete ==
    /\ deleted \subseteq deleted'
    /\ deleted' \subseteq alive \cup created
    /\ UNCHANGED <<alive, next, created>>

Frame ==
    /\ alive' = (alive \cup created) \ deleted
    /\ created' = {}
    /\ deleted' = {}
    /\ UNCHANGED next

Next == Create \/ Delete \/ Frame

Spec == Init /\ [][Next]_vars
=============================================================================
