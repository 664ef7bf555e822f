------------------------------- MODULE FeedLog -------------------------------
(***************************************************************************)
(* The feed with a record of what it broadcast: under each frame's number  *)
(* the ids of the entities born in the frame, of all its CREATE_ packets,  *)
(* with those of the snapshot for newcomers, and of its DELETE packets.    *)
(* It is what the frameMap of a client that misses nothing holds, and what *)
(* module ClientView calls the lives of the entities.  The record is a     *)
(* history variable, which the feed never reads.                           *)
(***************************************************************************)
EXTENDS FrameFeed

VARIABLE log        \* history: frame number -> [born, made, deleted]

logVars == <<vars, log>>

LogInit == Init /\ log = Empty

\* The frame that a poll puts behind the queue, and what of it is new.
Sent == Last(sendQueue')
SentPackets ==
    [born |-> DOMAIN newest.created, made |-> DOMAIN Sent.created, deleted |-> Sent.deleted]

LogNext ==
    /\ Next
    /\ log' = IF PollSend THEN Assign(log, [n \in {NewestId} |-> SentPackets]) ELSE log

LogSpec == LogInit /\ [][LogNext]_logVars

(***************************************************************************)
(* The frames that go out give an entity one life: it is born in one frame *)
(* at most, before any snapshot shows it, and deleted by one at most; from *)
(* then on no frame creates it again, though a snapshot is taken after its *)
(* frame was made and frames of several threads overtake and replace each  *)
(* other (Server.cpp:225-238, GameState.cpp:91-140 and 372).               *)
(***************************************************************************)
OneLife ==
    /\ \A m, n \in DOMAIN log : m < n =>
          /\ log[m].made \cap log[n].born = {}
          /\ log[m].deleted \cap log[n].deleted = {}
          /\ log[m].deleted \cap log[n].made = {}
    /\ \A n \in DOMAIN log : (log[n].made \ log[n].born) \cap log[n].deleted = {}

\* Those lives, as ClientView takes them for granted: the frames, of the first
\* h, that create an entity, and the one that deletes it, none of them later;
\* or h, when none does.
LivesUpTo(h) ==
    LET ids == UNION {log[n].made \cup log[n].deleted : n \in DOMAIN log}
    IN \E life \in [ids -> [made : SUBSET (0..(h - 1)), dead : 0..h]] :
          /\ \A i \in ids : \A n \in life[i].made : n <= life[i].dead
          /\ \A n \in DOMAIN log :
                /\ log[n].made = {i \in ids : n \in life[i].made}
                /\ log[n].deleted = {i \in ids : life[i].dead = n}
=============================================================================
