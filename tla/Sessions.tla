------------------------------ MODULE Sessions ------------------------------
(***************************************************************************)
(* The server's session layer: the io thread that receives datagrams and   *)
(* sends the queued messages, the PacketHandler thread that handles one    *)
(* packet after the other, and the clients that talk to them over UDP.     *)
(*                                                                         *)
(* A queued packet does not say who sent it.  The handler asks the server  *)
(* for remote_endpoint_, which the io thread overwrites with the sender of *)
(* each datagram it receives, so the model keeps both: what the code       *)
(* reads, and (in the field "from", which no action reads to decide        *)
(* anything) who really sent the packet.                                   *)
(***************************************************************************)
EXTENDS ClientIds

CONSTANTS MaxDatagrams,     \* bound: datagrams the clients send in all
          MaxDuplicates,    \* bound: datagrams the network delivers twice
          NoEndpoint        \* remote_endpoint_ before anything is received

ASSUME BoundsAssumption == MaxDatagrams \in Nat /\ MaxDuplicates \in Nat
ASSUME EndpointAssumption == NoEndpoint \notin Endpoints

(***************************************************************************)
(* The packet types a client sends.  The five moves and shots (6, 16..19)  *)
(* share one handler, here PLAYER_ACTION; GAME_END and OPEN_MENU have      *)
(* handlers that change nothing, here GAME_END.                            *)
(***************************************************************************)
ClientPackets ==
    {"REQCONNECT", "DISCONNECTED", "GAME_START", "PLAYER_ACTION", "GAME_END"}
ServerPackets == {"NONE", "GAME_START", "GAME_STARTED", "GAME_NOT_STARTED"}
Started == {"GAME_START", "GAME_STARTED"}

Datagrams == [type : ClientPackets, from : Endpoints]

VARIABLES
    \* the clients and the network
    open,            \* open[e]: a client process runs on endpoint e
    net,             \* the datagrams on their way, a bag
    sends,           \* datagrams sent so far
    duplicates,      \* datagrams duplicated so far
    \* the io thread
    recvBuffer,      \* recv_buffer_: a set of at most one datagram
    remoteEndpoint,  \* remote_endpoint_
    sendQueue,       \* send_queue_, its GAME_START messages
    lastSent,        \* history: the last status handed to the socket for e
    \* the PacketHandler thread
    packetQueue,     \* m_packetQueue
    pc,              \* where the thread is
    packet,          \* the packet it handles
    endpoint,        \* its copy of remote_endpoint_
    toScan,          \* the ids its scan of clients_ has still to visit
    \* what it changes elsewhere
    running,         \* Server::m_running
    gameThreads,     \* detached threads in GameState::run
    lastAction       \* history: the addPlayerAction of the last packet handled

clientVars == <<open, net, sends, duplicates>>
ioVars == <<recvBuffer, remoteEndpoint>>
outVars == <<sendQueue, lastSent>>
handlerVars == <<packetQueue, pc, packet, endpoint, toScan>>
gameVars == <<running, gameThreads, lastAction>>
vars == <<regVars, clientVars, ioVars, outVars, handlerVars, gameVars>>

NoPacket == [type |-> "GAME_END", from |-> NoEndpoint]
NoAction == [id |-> -1, from |-> NoEndpoint]

Init ==
    /\ RegInit
    /\ open = [e \in Endpoints |-> FALSE]
    /\ net = [d \in Datagrams |-> 0]
    /\ sends = 0
    /\ duplicates = 0
    /\ recvBuffer = {}
    /\ remoteEndpoint = NoEndpoint
    /\ sendQueue = <<>>
    /\ lastSent = [e \in Endpoints |-> "none"]
    /\ packetQueue = <<>>
    /\ pc = "idle"
    /\ packet = NoPacket
    /\ endpoint = NoEndpoint
    /\ toScan = {}
    /\ running = FALSE
    /\ gameThreads = 0
    /\ lastAction = NoAction

------------------------------------------------------------------------------
(* The clients.  What a client sends may be lost: nothing obliges the      *)
(* network to deliver it.                                                  *)

Send(e, type) ==
    /\ sends < MaxDatagrams
    /\ sends' = sends + 1
    /\ net' = [net EXCEPT ![[type |-> type, from |-> e]] = @ + 1]

\* main_loop sends REQCONNECT once and never again.  The port is an argument
\* of the program, so a client that ended may start again on its endpoint.
Connect(e) ==
    /\ ~open[e]
    /\ open' = [open EXCEPT ![e] = TRUE]
    /\ Send(e, "REQCONNECT")
    /\ UNCHANGED duplicates

\* Start button, keys and mouse.
Play(e, type) ==
    /\ open[e]
    /\ Send(e, type)
    /\ UNCHANGED <<open, duplicates>>

\* The Q key sends DISCONNECTED; the end of main_loop sends it again.
PressQ(e) ==
    /\ open[e]
    /\ Send(e, "DISCONNECTED")
    /\ UNCHANGED <<open, duplicates>>

Quit(e) ==
    /\ open[e]
    /\ open' = [open EXCEPT ![e] = FALSE]
    /\ Send(e, "DISCONNECTED")
    /\ UNCHANGED duplicates

Crash(e) ==
    /\ open[e]
    /\ open' = [open EXCEPT ![e] = FALSE]
    /\ UNCHANGED <<net, sends, duplicates>>

Duplicate(d) ==
    /\ net[d] > 0
    /\ duplicates < MaxDuplicates
    /\ duplicates' = duplicates + 1
    /\ net' = [net EXCEPT ![d] = @ + 1]
    /\ UNCHANGED <<open, sends>>

ClientStep ==
    /\ \/ \E e \in Endpoints :
            \/ Connect(e) \/ PressQ(e) \/ Quit(e) \/ Crash(e)
            \/ \E type \in {"GAME_START", "PLAYER_ACTION", "GAME_END"} : Play(e, type)
       \/ \E d \in Datagrams : Duplicate(d)
    /\ UNCHANGED <<regVars, ioVars, outVars, handlerVars, gameVars>>

------------------------------------------------------------------------------
(* The io thread.  The socket fills recv_buffer_ and remote_endpoint_      *)
(* before handle_receive runs: at any time once start_receive was called.  *)

\* Mutant of IoReceive: the sender of the first datagram is kept for ever.
IoReceiveFirstSender ==
    /\ recvBuffer = {}
    /\ \E d \in Datagrams :
          /\ net[d] > 0
          /\ net' = [net EXCEPT ![d] = @ - 1]
          /\ recvBuffer' = {d}
          /\ remoteEndpoint' = IF remoteEndpoint = NoEndpoint THEN d.from ELSE remoteEndpoint
    /\ UNCHANGED <<regVars, open, sends, duplicates, outVars, handlerVars, gameVars>>

IoReceive ==
    /\ recvBuffer = {}
    /\ \E d \in Datagrams :
          /\ net[d] > 0
          /\ net' = [net EXCEPT ![d] = @ - 1]
          /\ recvBuffer' = {d}
          /\ remoteEndpoint' = d.from
    /\ UNCHANGED <<regVars, open, sends, duplicates, outVars, handlerVars, gameVars>>

HandleReceive ==
    /\ \E d \in recvBuffer : packetQueue' = Append(packetQueue, d)
    /\ recvBuffer' = {}
    /\ UNCHANGED <<regVars, clientVars, remoteEndpoint, outVars, pc, packet,
                   endpoint, toScan, gameVars>>

\* One message to all clients, under clients_mutex_, which the scan of
\* handlePlayerAction holds.
HandleSendTimer ==
    /\ pc # "scan"
    /\ sendQueue # <<>>
    /\ sendQueue' = Tail(sendQueue)
    /\ lastSent' = [e \in Endpoints |->
                      IF Registered(e) THEN Head(sendQueue) ELSE lastSent[e]]
    /\ UNCHANGED <<regVars, clientVars, ioVars, handlerVars, gameVars>>

------------------------------------------------------------------------------
(* The PacketHandler thread.                                               *)

Pop ==
    /\ pc = "idle"
    /\ packetQueue # <<>>
    /\ packet' = Head(packetQueue)
    /\ packetQueue' = Tail(packetQueue)
    /\ pc' = "dispatch"
    /\ lastAction' = NoAction
    /\ UNCHANGED <<regVars, clientVars, ioVars, outVars, endpoint, toScan,
                   running, gameThreads>>

\* The handler returns; its locals end.
Done ==
    /\ pc' = "idle"
    /\ packet' = NoPacket
    /\ endpoint' = NoEndpoint

Handling(type) == pc = "dispatch" /\ packet.type = type

CopyRemoteEndpoint(next) ==
    /\ endpoint' = remoteEndpoint
    /\ pc' = next
    /\ UNCHANGED <<regVars, clientVars, ioVars, outVars, packetQueue, packet,
                   toScan, gameVars>>

ReqConnect == Handling("REQCONNECT") /\ CopyRemoteEndpoint("create")

\* The first critical section of reqConnectData.
Create ==
    /\ pc = "create"
    /\ CreateClient(endpoint)
    /\ lastSent' = IF Registered(endpoint) THEN lastSent
                   ELSE [lastSent EXCEPT ![endpoint] = "none"]
    /\ pc' = "reply"
    /\ UNCHANGED <<clientVars, ioVars, sendQueue, packetQueue, packet, endpoint,
                   toScan, gameVars>>

\* Mutant of Reply: m_running is not looked at.
ReplyNotStarted ==
    /\ pc = "reply"
    /\ lastSent' = [lastSent EXCEPT ![endpoint] = "GAME_NOT_STARTED"]
    /\ Done
    /\ UNCHANGED <<regVars, clientVars, ioVars, sendQueue, packetQueue, toScan,
                   gameVars>>

\* The second one.
Reply ==
    /\ pc = "reply"
    /\ lastSent' = [lastSent EXCEPT ![endpoint] =
                      IF running THEN "GAME_STARTED" ELSE "GAME_NOT_STARTED"]
    /\ Done
    /\ UNCHANGED <<regVars, clientVars, ioVars, sendQueue, packetQueue, toScan,
                   gameVars>>

HandleDisconnected == Handling("DISCONNECTED") /\ CopyRemoteEndpoint("remove")

DropClient ==
    /\ pc = "remove"
    /\ \/ RemoveClient(endpoint) /\ UNCHANGED lastSent
       \/ /\ ~Registered(endpoint)
          /\ lastSent' = [lastSent EXCEPT ![endpoint] = "NONE"]
          /\ UNCHANGED regVars
    /\ Done
    /\ UNCHANGED <<clientVars, ioVars, sendQueue, packetQueue, toScan, gameVars>>

\* Mutant of HandleGameStart: nothing is broadcast.
HandleGameStartSilent ==
    /\ Handling("GAME_START")
    /\ running' = TRUE
    /\ gameThreads' = gameThreads + 1
    /\ Done
    /\ UNCHANGED <<regVars, clientVars, ioVars, outVars, packetQueue, toScan,
                   lastAction>>

\* Every GAME_START starts one more game thread.
HandleGameStart ==
    /\ Handling("GAME_START")
    /\ running' = TRUE
    /\ sendQueue' = Append(sendQueue, "GAME_START")
    /\ gameThreads' = gameThreads + 1
    /\ Done
    /\ UNCHANGED <<regVars, clientVars, ioVars, lastSent, packetQueue, toScan,
                   lastAction>>

\* handlePlayerAction takes clients_mutex_ and starts its scan, or returns
\* early when no game runs.
HandlePlayerAction ==
    /\ Handling("PLAYER_ACTION")
    /\ IF running
       THEN pc' = "scan" /\ toScan' = Ids /\ UNCHANGED <<packet, endpoint>>
       ELSE Done /\ UNCHANGED toScan
    /\ UNCHANGED <<regVars, clientVars, ioVars, outVars, packetQueue, gameVars>>

\* One client compared with remote_endpoint_, read anew each time: the code
\* holds a reference to it.
ScanStep ==
    /\ pc = "scan"
    /\ \E id \in toScan :
          /\ \A j \in toScan : id <= j
          /\ \/ /\ clients[id] = remoteEndpoint
                /\ lastAction' = [id |-> id, from |-> packet.from]
                /\ toScan' = {}
                /\ Done
             \/ /\ clients[id] # remoteEndpoint
                /\ toScan' = toScan \ {id}
                /\ UNCHANGED <<pc, packet, endpoint, lastAction>>
    /\ UNCHANGED <<regVars, clientVars, ioVars, outVars, packetQueue, running,
                   gameThreads>>

ScanFailed ==
    /\ pc = "scan"
    /\ toScan = {}
    /\ Done
    /\ UNCHANGED <<regVars, clientVars, ioVars, outVars, packetQueue, toScan,
                   gameVars>>

HandleOther ==
    /\ Handling("GAME_END")
    /\ Done
    /\ UNCHANGED <<regVars, clientVars, ioVars, outVars, packetQueue, toScan,
                   gameVars>>

HandlerStep ==
    \/ Pop \/ ReqConnect \/ Create \/ Reply \/ HandleDisconnected \/ DropClient
    \/ HandleGameStart \/ HandlePlayerAction \/ ScanStep \/ ScanFailed
    \/ HandleOther

ServerStep == IoReceive \/ HandleReceive \/ HandleSendTimer \/ HandlerStep

Next == ClientStep \/ ServerStep

\* Each thread keeps running: the io_context runs the handlers that are
\* ready and the handler thread is never descheduled for good.  Nothing is
\* assumed of the network or of the clients.
Fairness ==
    /\ WF_vars(HandleReceive)
    /\ WF_vars(HandleSendTimer)
    /\ WF_vars(HandlerStep)

Spec == Init /\ [][Next]_vars
FairSpec == Spec /\ Fairness

------------------------------------------------------------------------------
(* Invariants.                                                             *)

Statuses == ServerPackets \cup {"none"}
PCs == {"idle", "dispatch", "create", "reply", "remove", "scan"}
Packets == [type : ClientPackets, from : Endpoints \cup {NoEndpoint}]

\* The type of every variable.
TypeOK ==
    /\ RegTypeOK
    /\ open \in [Endpoints -> BOOLEAN]
    /\ net \in [Datagrams -> Nat]
    /\ sends \in 0..MaxDatagrams
    /\ duplicates \in 0..MaxDuplicates
    /\ recvBuffer \subseteq Datagrams
    /\ remoteEndpoint \in Endpoints \cup {NoEndpoint}
    /\ sendQueue \in Seq({"GAME_START"})
    /\ lastSent \in [Endpoints -> Statuses]
    /\ packetQueue \in Seq(Datagrams)
    /\ pc \in PCs
    /\ packet \in Packets
    /\ endpoint \in Endpoints \cup {NoEndpoint}
    /\ toScan \subseteq Nat
    /\ running \in BOOLEAN
    /\ gameThreads \in Nat
    /\ lastAction \in [id : Nat \cup {-1}, from : Endpoints \cup {NoEndpoint}]

(***************************************************************************)
(* While nothing newer was received, remote_endpoint_ is the sender of the *)
(* newest packet: the one in the queue's tail or, the queue being empty,   *)
(* the one being handled, to the last comparison of a scan.  It is all     *)
(* that the handlers that read it (PacketHandler.cpp:105, 113, 240) can    *)
(* rely on.                                                                *)
(***************************************************************************)
NewestPacketSender ==
    recvBuffer = {} =>
        /\ packetQueue # <<>> => Last(packetQueue).from = remoteEndpoint
        /\ packetQueue = <<>> =>
              /\ pc \in {"dispatch", "scan"} => packet.from = remoteEndpoint
              /\ pc \in {"create", "reply", "remove"} => packet.from = endpoint

(***************************************************************************)
(* Once a game runs, every registered client was told so, or a GAME_START  *)
(* is on its way to it, or the handler is about to answer its REQCONNECT.  *)
(* createClient and the reply are two critical sections (Server.cpp:149    *)
(* and 152) and the io thread sends GAME_START to whoever is registered    *)
(* at that moment (303), so a client may come in between.                  *)
(***************************************************************************)
NobodyLeftInLobby ==
    running => \A e \in Endpoints : Registered(e) =>
        \/ lastSent[e] \in Started
        \/ sendQueue # <<>>
        \/ pc = "reply" /\ endpoint = e

------------------------------------------------------------------------------
(* Action properties.                                                      *)

(***************************************************************************)
(* A client told that the game started is never told afterwards that it    *)
(* has not: a queued GAME_START is never overtaken by a GAME_NOT_STARTED   *)
(* decided before it (Server.cpp:153-156 against 297-305).                 *)
(***************************************************************************)
NeverBackToLobby ==
    [][\A e \in Endpoints :
          Registered(e) /\ lastSent[e] \in Started =>
              lastSent'[e] # "GAME_NOT_STARTED"]_vars

(***************************************************************************)
(* If nothing newer was received, a request is served in the name of the   *)
(* client that sent it: an id is given to, or taken from, the sender of    *)
(* the packet, and an action is recorded under the sender's id, whatever   *)
(* came before (Server.cpp:131, 168, PacketHandler.cpp:248).               *)
(***************************************************************************)
SenderServed ==
    [][recvBuffer = {} /\ packetQueue = <<>> =>
          /\ \A i \in Ids \ Ids' : clients[i] = packet.from
          /\ \A i \in Ids' \ Ids : clients'[i] = packet.from
          /\ lastAction' \notin {lastAction, NoAction} =>
                 clients[lastAction'.id] = lastAction'.from]_vars

------------------------------------------------------------------------------
(* Liveness.                                                               *)

(***************************************************************************)
(* "All clients connected to the server receive a GAME_START packet"       *)
(* (protocol.md:47): whoever is registered while a game runs is told, as   *)
(* far as the server's socket, or leaves.                                  *)
(***************************************************************************)
StartReachesEveryone ==
    \A e \in Endpoints :
        running /\ Registered(e) ~> ~Registered(e) \/ lastSent[e] \in Started

------------------------------------------------------------------------------
(* In whose name a packet is handled.                                      *)

(***************************************************************************)
(* "Upon connection, the Client sends a REQCONNECT packet to confirm" and  *)
(* "the Server responds" (protocol.md:33-34): the response to a REQCONNECT *)
(* goes to the client that sent it, whoever sends meanwhile.               *)
(***************************************************************************)
ReplyToRequester == pc = "reply" => endpoint = packet.from
=============================================================================
