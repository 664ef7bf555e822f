------------------------------ MODULE Playback ------------------------------
(***************************************************************************)
(* What a client promises its player: the game is played back.  Frames     *)
(* arrive as the network pleases; the first one there is shown first, then *)
(* each following one once it is there, none twice and none left out.      *)
(***************************************************************************)
EXTENDS Integers

VARIABLES life,      \* the frames that create, and the one that deletes, each entity
          arrived,   \* the frames that are there
          index,     \* the next frame to show, -1 before the first one is known
          visible    \* the entities on the screen

vars == <<life, arrived, index, visible>>

Init == arrived = {} /\ index = -1 /\ visible = {}

Arrive ==
    /\ \E n \in arrived' : arrived' = arrived \cup {n}
    /\ UNCHANGED <<life, index, visible>>

Begin ==
    /\ index = -1
    /\ index' \in arrived /\ \A n \in arrived : index' <= n
    /\ UNCHANGED <<life, arrived, visible>>

Show ==
    /\ index \in arrived
    /\ index' = index + 1
    /\ visible' = {i \in DOMAIN life : /\ i \in visible \/ index \in life[i].made
                                       /\ life[i].dead # index}
    /\ UNCHANGED <<life, arrived>>

\* Back to the lobby, whose screen shows nothing of the game.
Lobby == visible' = {} /\ UNCHANGED <<life, arrived, index>>

Next == Arrive \/ Begin \/ Show \/ Lobby

Spec == Init /\ [][Next]_vars
=============================================================================
