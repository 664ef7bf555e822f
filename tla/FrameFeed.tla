------------------------------ MODULE FrameFeed ------------------------------
(***************************************************************************)
(* The way of a game frame from the game threads to the clients' sprites.  *)
(*                                                                         *)
(*   game threads   AGame::run: one frame each turn, stored in             *)
(*                  engineFrames under the thread's own number             *)
(*   server thread  Server::run: polls engineFrames, completes the newest  *)
(*                  frame with a snapshot for newcomers and with the       *)
(*                  positions that changed, and broadcasts it once         *)
(*   io thread      handle_send_timer: one queued message to all clients   *)
(*                                                                         *)
(* A frame and a poll each hold server_mutex; the clients come and go      *)
(* under clients_mutex_, so also in the middle of a poll, which reads      *)
(* their number twice without it (Server.cpp:231-232).                     *)
(*                                                                         *)
(* The game is any game: a frame creates, kills and moves any entities.    *)
(* The clients are ideal: no datagram is lost, and each one is applied as  *)
(* Client.cpp applies a frame.  Of engineFrames, only the newest frame is  *)
(* ever read; of the others the model keeps whether they were sent.        *)
(* Latency checks and the GAME_START broadcast, which pass through the     *)
(* same queue, are left out, and so is resendImportPackets, whose map      *)
(* stays empty (see SendFrame).                                            *)
(***************************************************************************)
EXTENDS Integers, Sequences, FiniteSets, SequencesExt, StdMap

CONSTANTS Endpoints,    \* the clients
          Kinds,        \* the types of entity the game creates
          Positions,    \* where they can be
          MaxThreads,   \* bound: GAME_START packets, each one starts a thread
          MaxFrames,    \* bound: the frames of all threads
          MaxEntities   \* bound: entities ever created

ASSUME FeedAssumption ==
    /\ IsFiniteSet(Endpoints) /\ Positions # {}
    /\ MaxThreads \in Nat /\ MaxFrames \in Nat /\ MaxEntities \in Nat

VARIABLES
    frameId,         \* the local frameId of each running game thread
    entities,        \* entities: id -> [kind, pos]
    idToSet,         \* id_to_set
    engineFrames,    \* engineFrames: frame id -> its flag sent
    newest,          \* frameInfos of the newest frame, while it is not sent
    clients,         \* who is in clients_
    pc,              \* where the poll of Server::run is
    warm,            \* 600 ms have passed since Server::run began
    lastClientCount, \* lastClientCount, local to Server::run
    lastKnown,       \* lastKnownPositions, static in PacketFactory
    unacknowledged,  \* the keys of unacknowledgedPackets
    sendQueue,       \* send_queue_
    shown,           \* the sprites of each client: id -> position
    newcomers,       \* history: who came since the last frame was broadcast
    left,            \* history: somebody left or restarted
    lost             \* history: a CREATE_ or DELETE was overtaken or dropped

gameVars == <<frameId, entities, idToSet>>
pollVars == <<pc, warm, lastClientCount, lastKnown, unacknowledged>>
clientVars == <<clients, shown, newcomers, left>>
frameVars == <<engineFrames, newest, lost>>
vars == <<gameVars, frameVars, pollVars, sendQueue, clientVars>>

NoInfos == [created |-> Empty, deleted |-> {}]

Init ==
    /\ frameId = <<>>
    /\ entities = Empty
    /\ idToSet = 0
    /\ engineFrames = Empty
    /\ newest = NoInfos
    /\ clients = {}
    /\ pc = "start"
    /\ warm = FALSE
    /\ lastClientCount = 0
    /\ lastKnown = Empty
    /\ unacknowledged = {}
    /\ sendQueue = <<>>
    /\ shown = [e \in Endpoints |-> Empty]
    /\ newcomers = {}
    /\ left = FALSE
    /\ lost = FALSE

------------------------------------------------------------------------------
(* Game threads.                                                           *)

\* PacketHandler::handleGameStart: one more thread runs the same game.
StartGame ==
    /\ Len(frameId) < MaxThreads
    /\ frameId' = Append(frameId, 0)
    /\ UNCHANGED <<entities, idToSet, frameVars, pollVars, sendQueue,
                   clientVars>>

\* spawnEntity and killEntity mark the frame with an IMPORTANT_PACKET.
Important(infos) == infos.created # Empty \/ infos.deleted # {}

ServerMutexFree == pc \in {"start", "poll"}

\* Mutant of Store: the frames are numbered from one.
StoreFromOne(id, infos) ==
    /\ engineFrames' = Emplace(engineFrames, [i \in {id + 1} |-> FALSE])
    /\ newest' = IF id + 1 \in DOMAIN engineFrames THEN newest ELSE infos
    /\ UNCHANGED lost

\* Mutant of Store: an assignment, which replaces the frame stored before.
StoreReplaces(id, infos) ==
    /\ engineFrames' = Assign(engineFrames, [i \in {id} |-> FALSE])
    /\ newest' = infos
    /\ lost' = (lost \/ Important(newest))

\* emplace does not replace a frame another thread stored under that number.
Store(id, infos) ==
    LET taken == id \in DOMAIN engineFrames
    IN /\ engineFrames' = Emplace(engineFrames, [i \in {id} |-> FALSE])
       /\ newest' = IF taken THEN newest ELSE infos
       /\ lost' = (lost \/ Important(IF taken THEN infos ELSE newest))

SumOf(s) == FoldSeq(+, 0, s)

\* Mutant of NewIds: an id is the number of entities there are.
NewIdsCounted(k) ==
    LET size == Cardinality(DOMAIN entities) IN size .. (size + k - 1)

\* spawnEntity's ids.
NewIds(k) == idToSet .. (idToSet + k - 1)

GameFrame(t) ==
    /\ t \in DOMAIN frameId
    /\ SumOf(frameId) < MaxFrames
    /\ ServerMutexFree
    /\ \E k \in 0..(MaxEntities - idToSet) :
          LET new == NewIds(k)
              all == DOMAIN entities \cup new
          IN \E kind \in [new -> Kinds], born \in [new -> Positions], gone \in SUBSET all :
             \E pos \in [all \ gone -> Positions] :
                /\ entities' = [i \in all \ gone |->
                      [kind |-> IF i \in new THEN kind[i] ELSE entities[i].kind,
                       pos |-> pos[i]]]
                /\ idToSet' = idToSet + k
                /\ Store(frameId[t], [created |-> born, deleted |-> gone])
    /\ frameId' = [frameId EXCEPT ![t] = @ + 1]
    /\ UNCHANGED <<pollVars, sendQueue, clientVars>>

------------------------------------------------------------------------------
(* Server::run.                                                            *)

\* Line 221: the count starts from whoever came before the thread ran.
StartServer ==
    /\ pc = "start"
    /\ pc' = "poll"
    /\ lastClientCount' = Cardinality(clients)
    /\ UNCHANGED <<gameVars, frameVars, warm, lastKnown,
                   unacknowledged, sendQueue, clientVars>>

Warm ==
    /\ pc = "poll"
    /\ ~warm
    /\ warm' = TRUE
    /\ UNCHANGED <<gameVars, frameVars, pc, lastClientCount, lastKnown,
                   unacknowledged, sendQueue, clientVars>>

NewestId == Cardinality(DOMAIN engineFrames) - 1

Unsent == engineFrames # Empty /\ ~engineFrames[NewestId]

\* Line 231: does somebody need a snapshot?
PollCompare ==
    /\ pc = "poll"
    /\ warm
    /\ Unsent
    /\ pc' = IF Cardinality(clients) > lastClientCount THEN "count" ELSE "send"
    /\ UNCHANGED <<gameVars, frameVars, warm, lastClientCount, lastKnown,
                   unacknowledged, sendQueue, clientVars>>

\* Mutant of PollCount: the newcomers are counted and get no snapshot.
PollCountOnly ==
    /\ pc = "count"
    /\ pc' = "send"
    /\ lastClientCount' = Cardinality(clients)
    /\ UNCHANGED <<gameVars, frameVars, warm, lastKnown,
                   unacknowledged, sendQueue, clientVars>>

\* Line 232.
PollCount ==
    /\ pc = "count"
    /\ pc' = "snapshot"
    /\ lastClientCount' = Cardinality(clients)
    /\ UNCHANGED <<gameVars, frameVars, warm, lastKnown,
                   unacknowledged, sendQueue, clientVars>>

\* sendAllEntitiesToNewClients: the types it has a CREATE_ packet for.
SnapshotKinds == {"Player", "Enemy", "Boss", "Bullet"}

Snapshot ==
    [i \in {j \in DOMAIN entities : entities[j].kind \in SnapshotKinds} |-> entities[i].pos]

\* PacketFactory: a CHANGE for each entity that is not where it was last.
Changed ==
    [i \in {j \in DOMAIN entities :
                j \notin DOMAIN lastKnown \/ lastKnown[j] # entities[j].pos} |->
        entities[i].pos]

\* createPacket writes a type as one byte, so IMPORTANT_PACKET, number 33, as
\* "!"; SendFrame looks for the two digits.
WrittenType == "!"
SoughtType == "33"

SendFrame(id, message, infos) ==
    /\ unacknowledged' = IF Important(infos) /\ WrittenType = SoughtType
                         THEN unacknowledged \cup {id} ELSE unacknowledged
    /\ sendQueue' = Append(sendQueue, message)

PollSend ==
    /\ pc \in {"snapshot", "send"}
    /\ pc' = "poll"
    /\ LET snapshot == IF pc = "snapshot" THEN Snapshot ELSE Empty
       IN SendFrame(NewestId,
                    [id |-> NewestId,
                     created |-> Emplace(newest.created, snapshot),
                     deleted |-> newest.deleted,
                     changed |-> Changed],
                    newest)
    /\ lastKnown' = Assign(lastKnown, Changed)
    /\ engineFrames' = [engineFrames EXCEPT ![NewestId] = TRUE]
    /\ newest' = NoInfos
    /\ newcomers' = {}
    /\ UNCHANGED <<gameVars, lost, warm, lastClientCount, clients, shown, left>>

Poll == StartServer \/ PollCompare \/ PollCount \/ PollSend

------------------------------------------------------------------------------
(* The io thread and the clients.                                          *)

\* Mutant of Apply: the sprites move before those of the frame are created.
ApplyMovesFirst(sprites, message) ==
    LET moved == [i \in DOMAIN sprites |->
                    IF i \in DOMAIN message.changed THEN message.changed[i] ELSE sprites[i]]
    IN Without(Emplace(moved, message.created), message.deleted)

\* Mutant of Apply: the DELETEs come before the CREATE_s.
ApplyDeletesFirst(sprites, message) ==
    LET made == Emplace(Without(sprites, message.deleted), message.created)
    IN [i \in DOMAIN made |->
          IF i \in DOMAIN message.changed THEN message.changed[i] ELSE made[i]]

\* One frame in Client::main_loop: createSprite, destroySprite, then
\* updateSpritePosition for the sprites that are there.
Apply(sprites, message) ==
    LET made == Without(Emplace(sprites, message.created), message.deleted)
    IN [i \in DOMAIN made |->
          IF i \in DOMAIN message.changed THEN message.changed[i] ELSE made[i]]

\* Mutant of HandleSendTimer: a message waits until there is somebody.
HandleSendTimerToSomeone ==
    /\ sendQueue # <<>> /\ clients # {}
    /\ sendQueue' = Tail(sendQueue)
    /\ shown' = [e \in Endpoints |->
                   IF e \in clients THEN Apply(shown[e], Head(sendQueue)) ELSE shown[e]]
    /\ UNCHANGED <<gameVars, frameVars, pollVars, clients, newcomers, left>>

HandleSendTimer ==
    /\ sendQueue # <<>>
    /\ sendQueue' = Tail(sendQueue)
    /\ shown' = [e \in Endpoints |->
                   IF e \in clients THEN Apply(shown[e], Head(sendQueue)) ELSE shown[e]]
    /\ UNCHANGED <<gameVars, frameVars, pollVars, clients, newcomers, left>>

Join ==
    /\ \E e \in Endpoints \ clients :
          /\ clients' = clients \cup {e}
          /\ newcomers' = newcomers \cup {e}
    /\ UNCHANGED <<gameVars, frameVars, pollVars, sendQueue, shown, left>>

Leave ==
    /\ \E e \in clients :
          /\ clients' = clients \ {e}
          /\ newcomers' = newcomers \ {e}
          /\ shown' = [shown EXCEPT ![e] = Empty]
    /\ left' = TRUE
    /\ UNCHANGED <<gameVars, frameVars, pollVars, sendQueue>>

\* A client dies unseen and comes back from the same port: createClient
\* finds it registered.
Restart ==
    /\ \E e \in clients :
          /\ newcomers' = newcomers \cup {e}
          /\ shown' = [shown EXCEPT ![e] = Empty]
    /\ left' = TRUE
    /\ UNCHANGED <<gameVars, frameVars, pollVars, sendQueue, clients>>

------------------------------------------------------------------------------

Frame == \E t \in 1..MaxThreads : GameFrame(t)

Next ==
    \/ StartGame \/ Frame \/ Warm \/ Poll \/ HandleSendTimer
    \/ Join \/ Leave \/ Restart

\* The server thread and the io thread keep running; the clock goes on.
Fairness == WF_vars(Poll) /\ WF_vars(Warm) /\ WF_vars(HandleSendTimer)

Spec == Init /\ [][Next]_vars
FairSpec == Spec /\ Fairness

------------------------------------------------------------------------------
(* Properties.                                                             *)

GameTypeOK ==
    /\ frameId \in Seq(Nat)
    /\ idToSet \in 0..MaxEntities
    /\ DOMAIN entities \subseteq 0..(idToSet - 1)
    /\ \A i \in DOMAIN entities : entities[i].kind \in Kinds /\ entities[i].pos \in Positions

FrameTypeOK ==
    /\ engineFrames \in [0..NewestId -> BOOLEAN]
    /\ DOMAIN newest.created \subseteq 0..(idToSet - 1)
    /\ newest.deleted \subseteq 0..(idToSet - 1)
    /\ lost \in BOOLEAN

PollTypeOK ==
    /\ pc \in {"start", "poll", "count", "snapshot", "send"}
    /\ pc \in {"count", "snapshot", "send"} => Unsent
    /\ warm \in BOOLEAN
    /\ lastClientCount \in 0..Cardinality(Endpoints)
    /\ DOMAIN lastKnown \subseteq 0..(idToSet - 1)
    /\ unacknowledged \subseteq DOMAIN engineFrames

ClientTypeOK ==
    /\ newcomers \subseteq clients /\ clients \subseteq Endpoints
    /\ left \in BOOLEAN
    /\ DOMAIN shown = Endpoints
    /\ \A e \in Endpoints : DOMAIN shown[e] \subseteq 0..(idToSet - 1)

\* The type of every variable; the frames stored are numbered from 0 without
\* a gap, whatever the threads.
TypeOK == GameTypeOK /\ FrameTypeOK /\ PollTypeOK /\ ClientTypeOK

(***************************************************************************)
(* The numbers of the frames broadcast only grow: a frame that went out    *)
(* stays marked, and none goes out twice or late, though threads share     *)
(* engineFrames and each one counts from 0 (GameState.cpp:363 and 372).    *)
(* The clients' frameMap rests on it.                                      *)
(***************************************************************************)
BroadcastInOrder ==
    [][\A i \in DOMAIN engineFrames : engineFrames[i] =>
          /\ i \in DOMAIN engineFrames' /\ engineFrames'[i]
          /\ Len(sendQueue') > Len(sendQueue) => i < Last(sendQueue').id]_vars

(***************************************************************************)
(* While one game is played its frames are all stored, each as the newest: *)
(* only a second GAME_START makes frames vanish (GameState.cpp:363, 372).  *)
(***************************************************************************)
OneGameDropsNothing == [][Frame /\ Len(frameId) = 1 => NewestId' = NewestId + 1]_vars

(***************************************************************************)
(* A sprite is where the server last said the entity is, unless a CHANGE   *)
(* is on its way: for early clients and newcomers, when frames overtake    *)
(* each other, and when two threads play (Server.cpp:185-208, 260-284).    *)
(***************************************************************************)
PositionsAgree ==
    \A e \in clients : \A i \in DOMAIN shown[e] \cap DOMAIN lastKnown :
        \/ shown[e][i] = lastKnown[i]
        \/ \E k \in 1..Len(sendQueue) : i \in DOMAIN sendQueue[k].changed

(***************************************************************************)
(* As long as no CREATE_ or DELETE was overtaken or dropped, no client     *)
(* shows an entity that is dead for longer than its DELETE takes: the      *)
(* snapshot (Server.cpp:193), taken later than the frame it is added to,   *)
(* does not contradict it.  Clients come, leave and restart at any time.   *)
(***************************************************************************)
NoGhostSprites ==
    ~lost => \A e \in clients : \A i \in DOMAIN shown[e] \ DOMAIN entities :
        \/ i \in newest.deleted
        \/ \E k \in 1..Len(sendQueue) : i \in sendQueue[k].deleted

\* Nothing is on its way, every move and every newcomer had a frame, and the
\* server knows of nobody to send a snapshot to.
Settled ==
    /\ pc = "poll" /\ sendQueue = <<>>
    /\ engineFrames # Empty /\ ~Unsent /\ Changed = Empty
    /\ newcomers = {}
    /\ lastClientCount >= Cardinality(clients)

InSync(e) ==
    \A i \in DOMAIN entities : entities[i].kind \in SnapshotKinds =>
        i \in DOMAIN shown[e] /\ shown[e][i] = entities[i].pos

(***************************************************************************)
(* Newcomers catch up: if nothing was overtaken or dropped and nobody has  *)
(* left, then every client shows what there is, where it is, once nothing  *)
(* is on its way; also those that came in the middle of a poll, between    *)
(* the two counts of lines 231 and 232 or after them.                      *)
(***************************************************************************)
NewcomersCatchUp == Settled /\ ~lost /\ ~left => \A e \in clients : InSync(e)

(***************************************************************************)
(* "Ensuring synchronization across all players" (README.md:20): the same  *)
(* when clients have left or restarted.                                    *)
(***************************************************************************)
ClientsInSync == Settled /\ ~lost => \A e \in clients : InSync(e)

(***************************************************************************)
(* Every frame, or a newer one, is broadcast and leaves the queue          *)
(* (Server.cpp:225-238, 300-305).                                          *)
(***************************************************************************)
FramesGoOut ==
    \A n \in 0..(MaxFrames - 1) :
        n \in DOMAIN engineFrames ~>
            sendQueue = <<>> /\ \E m \in DOMAIN engineFrames : m >= n /\ engineFrames[m]

(***************************************************************************)
(* "after 10 ms delay packet is considered as lost and will not be resent" *)
(* (Server.cpp:215): until then, a frame that creates or deletes is kept   *)
(* to be sent again.                                                       *)
(***************************************************************************)
RetransmissionArmed ==
    [][Len(sendQueue') > Len(sendQueue) /\ Important(newest) =>
          Last(sendQueue').id \in unacknowledged']_vars
=============================================================================
