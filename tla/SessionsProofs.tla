--------------------------- MODULE SessionsProofs ---------------------------
(***************************************************************************)
(* The session layer, for any set of endpoints and any bounds.             *)
(***************************************************************************)
EXTENDS Sessions, ClientIdsProofs

------------------------------------------------------------------------------
(* The strengthening.  The invariants of Sessions are not inductive on     *)
(* their own: a step that reads remoteEndpoint needs to know that someone  *)
(* was heard, one that reads the receive buffer whose datagram it is, and  *)
(* one that tells a client that no game runs that nobody was told one does.*)

HeardSomeone ==
    recvBuffer # {} \/ packetQueue # <<>> \/ pc # "idle" =>
        remoteEndpoint \in Endpoints

EndpointCopied == pc \in {"create", "reply", "remove"} => endpoint \in Endpoints

BufferSender == \A d \in recvBuffer : d.from = remoteEndpoint

ToldOnlyIfRunning ==
    ~running => /\ sendQueue = <<>>
                /\ \A e \in Endpoints : lastSent[e] \notin Started

SessionInv ==
    /\ TypeOK
    /\ RegInv
    /\ HeardSomeone
    /\ EndpointCopied
    /\ BufferSender
    /\ ToldOnlyIfRunning

LEMMA InitInv == Init => SessionInv
<1>. SUFFICES ASSUME Init PROVE SessionInv
  OBVIOUS
<1>1. RegInv
  BY RegInitInv DEF Init
<1>2. TypeOK
  <2>1. /\ RegTypeOK
        /\ open \in [Endpoints -> BOOLEAN]
        /\ net \in [Datagrams -> Nat]
        /\ sends \in 0..MaxDatagrams
        /\ duplicates \in 0..MaxDuplicates
        /\ toScan \subseteq Nat
        /\ gameThreads \in Nat
    BY <1>1, BoundsAssumption DEF Init, RegInv
  <2>5. /\ sendQueue \in Seq({"GAME_START"})
        /\ packetQueue \in Seq(Datagrams)
    <3>1. sendQueue = <<>> /\ packetQueue = <<>>
      BY DEF Init
    <3>. QED
      BY <3>1
  <2>2. /\ recvBuffer \subseteq Datagrams
        /\ remoteEndpoint \in Endpoints \cup {NoEndpoint}
        /\ endpoint \in Endpoints \cup {NoEndpoint}
        /\ running \in BOOLEAN
    BY DEF Init
  <2>3. /\ lastSent \in [Endpoints -> Statuses]
        /\ pc \in PCs
    BY DEF Init, Statuses, PCs
  <2>4. /\ packet \in Packets
        /\ lastAction \in [id : Nat \cup {-1}, from : Endpoints \cup {NoEndpoint}]
    BY DEF Init, Packets, NoPacket, NoAction, ClientPackets
  <2>. QED
    BY <2>1, <2>2, <2>3, <2>4, <2>5 DEF TypeOK
<1>3. HeardSomeone /\ EndpointCopied /\ BufferSender /\ ToldOnlyIfRunning
  BY DEF Init, HeardSomeone, EndpointCopied, BufferSender, ToldOnlyIfRunning, Started
<1>. QED
  BY <1>1, <1>2, <1>3 DEF SessionInv

\* Only the two critical sections of the handler touch the register.
LEMMA RegisterStep ==
  ASSUME SessionInv, [Next]_vars
  PROVE  /\ RegInv'
         /\ [Table!Next]_(Table!vars)
<1>1. CASE UNCHANGED regVars
  <2>1. RegInv'
    BY <1>1, RegUnchangedInv DEF SessionInv
  <2>. QED
    BY <1>1, <2>1 DEF regVars, Table!vars
<1>2. CASE Create
  <2>1. endpoint \in Endpoints /\ RegInv /\ CreateClient(endpoint)
    BY <1>2 DEF Create, SessionInv, EndpointCopied
  <2>. QED
    BY <2>1, CreateClientInv, CreateClientJoins DEF Table!Next
<1>3. CASE DropClient /\ RemoveClient(endpoint)
  <2>1. endpoint \in Endpoints /\ RegInv
    BY <1>3 DEF DropClient, SessionInv, EndpointCopied
  <2>. QED
    BY <1>3, <2>1, RemoveClientInv, RemoveClientLeaves DEF Table!Next
<1>4. CASE DropClient /\ ~RemoveClient(endpoint)
  BY <1>4, <1>1 DEF DropClient
<1>5. CASE ClientStep
  BY <1>5, <1>1 DEF ClientStep
<1>6. CASE IoReceive \/ HandleReceive \/ HandleSendTimer
  BY <1>6, <1>1 DEF IoReceive, HandleReceive, HandleSendTimer
<1>7. CASE \/ Pop \/ ReqConnect \/ Reply \/ HandleDisconnected \/ HandleGameStart
           \/ HandlePlayerAction \/ ScanStep \/ ScanFailed \/ HandleOther
  BY <1>7, <1>1
     DEF Pop, ReqConnect, CopyRemoteEndpoint, Reply, HandleDisconnected, HandleGameStart,
         HandlePlayerAction, ScanStep, ScanFailed, HandleOther
<1>8. CASE UNCHANGED vars
  BY <1>8, <1>1 DEF vars
<1>. QED
  BY <1>2, <1>3, <1>4, <1>5, <1>6, <1>7, <1>8 DEF Next, ServerStep, HandlerStep

------------------------------------------------------------------------------
(* Types.                                                                  *)

\* Sending one datagram more.
LEMMA SendType ==
  ASSUME TypeOK, NEW e \in Endpoints, NEW type \in ClientPackets, Send(e, type)
  PROVE  /\ net' \in [Datagrams -> Nat]
         /\ sends' \in 0..MaxDatagrams
<1>1. [type |-> type, from |-> e] \in Datagrams
  BY DEF Datagrams
<1>2. net' \in [Datagrams -> Nat]
  BY <1>1 DEF Send, TypeOK
<1>3. sends' \in 0..MaxDatagrams
  BY BoundsAssumption DEF Send, TypeOK
<1>. QED
  BY <1>2, <1>3

LEMMA ClientType ==
  ASSUME TypeOK, ClientStep
  PROVE  /\ open' \in [Endpoints -> BOOLEAN]
         /\ net' \in [Datagrams -> Nat]
         /\ sends' \in 0..MaxDatagrams
         /\ duplicates' \in 0..MaxDuplicates
<1>1. ASSUME NEW e \in Endpoints, Connect(e) \/ PressQ(e) \/ Quit(e)
      PROVE  /\ open' \in [Endpoints -> BOOLEAN]
             /\ net' \in [Datagrams -> Nat]
             /\ sends' \in 0..MaxDatagrams
             /\ duplicates' \in 0..MaxDuplicates
  <2>1. net' \in [Datagrams -> Nat] /\ sends' \in 0..MaxDatagrams
    BY <1>1, SendType DEF Connect, PressQ, Quit, ClientPackets
  <2>. QED
    BY <1>1, <2>1 DEF TypeOK, Connect, PressQ, Quit
<1>2. ASSUME NEW e \in Endpoints, Crash(e)
      PROVE  /\ open' \in [Endpoints -> BOOLEAN]
             /\ net' \in [Datagrams -> Nat]
             /\ sends' \in 0..MaxDatagrams
             /\ duplicates' \in 0..MaxDuplicates
  BY <1>2 DEF TypeOK, Crash
<1>3. ASSUME NEW e \in Endpoints, NEW type \in {"GAME_START", "PLAYER_ACTION", "GAME_END"},
             Play(e, type)
      PROVE  /\ open' \in [Endpoints -> BOOLEAN]
             /\ net' \in [Datagrams -> Nat]
             /\ sends' \in 0..MaxDatagrams
             /\ duplicates' \in 0..MaxDuplicates
  <2>1. net' \in [Datagrams -> Nat] /\ sends' \in 0..MaxDatagrams
    BY <1>3, SendType DEF Play, ClientPackets
  <2>. QED
    BY <1>3, <2>1 DEF TypeOK, Play
<1>4. ASSUME NEW d \in Datagrams, Duplicate(d)
      PROVE  /\ open' \in [Endpoints -> BOOLEAN]
             /\ net' \in [Datagrams -> Nat]
             /\ sends' \in 0..MaxDatagrams
             /\ duplicates' \in 0..MaxDuplicates
  BY <1>4, BoundsAssumption DEF TypeOK, Duplicate
<1>. QED
  BY <1>1, <1>2, <1>3, <1>4 DEF ClientStep

\* The handler's locals after it returned.
LEMMA DoneType ==
  ASSUME Done
  PROVE  /\ pc' \in PCs
         /\ packet' \in Packets
         /\ endpoint' \in Endpoints \cup {NoEndpoint}
  BY DEF Done, NoPacket, Packets, PCs, ClientPackets

LEMMA TypeStep ==
  ASSUME SessionInv, [Next]_vars
  PROVE  TypeOK'
<1>. TypeOK /\ RegInv
  BY DEF SessionInv
<1>0. RegTypeOK'
  BY RegisterStep DEF RegInv
<1>1. CASE ClientStep
  BY <1>0, <1>1, ClientType
     DEF ClientStep, TypeOK, ioVars, outVars, handlerVars, gameVars
<1>2. CASE IoReceive
  <2>1. PICK d \in Datagrams :
          /\ net[d] > 0
          /\ net' = [net EXCEPT ![d] = @ - 1]
          /\ recvBuffer' = {d}
          /\ remoteEndpoint' = d.from
    BY <1>2 DEF IoReceive
  <2>2. net' \in [Datagrams -> Nat]
    BY <2>1 DEF TypeOK
  <2>3. recvBuffer' \subseteq Datagrams /\ remoteEndpoint' \in Endpoints
    BY <2>1 DEF Datagrams
  <2>. QED
    BY <1>0, <1>2, <2>2, <2>3 DEF IoReceive, TypeOK, outVars, handlerVars, gameVars
<1>3. CASE HandleReceive
  <2>1. packetQueue' \in Seq(Datagrams)
    BY <1>3 DEF HandleReceive, TypeOK
  <2>. QED
    BY <1>0, <1>3, <2>1 DEF HandleReceive, TypeOK, clientVars, outVars, gameVars
<1>4. CASE HandleSendTimer
  <2>1. sendQueue' \in Seq({"GAME_START"}) /\ Head(sendQueue) = "GAME_START"
    BY <1>4 DEF HandleSendTimer, TypeOK
  <2>2. lastSent' \in [Endpoints -> Statuses]
    BY <1>4, <2>1 DEF HandleSendTimer, TypeOK, Statuses, ServerPackets
  <2>. QED
    BY <1>0, <1>4, <2>1, <2>2 DEF HandleSendTimer, TypeOK, clientVars, ioVars, handlerVars, gameVars
<1>5. CASE Pop
  <2>1. packetQueue' \in Seq(Datagrams) /\ Head(packetQueue) \in Datagrams
    BY <1>5 DEF Pop, TypeOK
  <2>2. packet' \in Packets /\ pc' \in PCs
    BY <1>5, <2>1 DEF Pop, Packets, Datagrams, PCs
  <2>3. lastAction' \in [id : Nat \cup {-1}, from : Endpoints \cup {NoEndpoint}]
    BY <1>5 DEF Pop, NoAction
  <2>. QED
    BY <1>0, <1>5, <2>1, <2>2, <2>3 DEF Pop, TypeOK, clientVars, ioVars, outVars
<1>6. CASE ReqConnect \/ HandleDisconnected
  BY <1>0, <1>6
     DEF ReqConnect, HandleDisconnected, CopyRemoteEndpoint, TypeOK, PCs, clientVars,
         ioVars, outVars, gameVars
<1>7. CASE Create
  <2>1. lastSent' \in [Endpoints -> Statuses] /\ pc' \in PCs
    BY <1>7 DEF Create, TypeOK, Statuses, PCs
  <2>. QED
    BY <1>0, <1>7, <2>1 DEF Create, TypeOK, clientVars, ioVars, gameVars
<1>8. CASE Reply
  <2>1. lastSent' \in [Endpoints -> Statuses]
    BY <1>8 DEF Reply, TypeOK, Statuses, ServerPackets
  <2>. QED
    BY <1>0, <1>8, <2>1, DoneType DEF Reply, TypeOK, clientVars, ioVars, gameVars
<1>9. CASE DropClient
  <2>1. lastSent' \in [Endpoints -> Statuses]
    BY <1>9 DEF DropClient, TypeOK, Statuses, ServerPackets
  <2>. QED
    BY <1>0, <1>9, <2>1, DoneType DEF DropClient, TypeOK, clientVars, ioVars, gameVars
<1>10. CASE HandleGameStart
  <2>1. sendQueue' \in Seq({"GAME_START"})
    BY <1>10 DEF HandleGameStart, TypeOK
  <2>. QED
    BY <1>0, <1>10, <2>1, DoneType DEF HandleGameStart, TypeOK, clientVars, ioVars
<1>11. CASE HandlePlayerAction
  <2>0. Ids \subseteq Nat /\ toScan \subseteq Nat
    BY DEF TypeOK, RegTypeOK
  <2>1. toScan' \subseteq Nat
    BY <1>11, <2>0 DEF HandlePlayerAction
  <2>2. pc' \in PCs /\ packet' \in Packets /\ endpoint' \in Endpoints \cup {NoEndpoint}
    BY <1>11, DoneType DEF HandlePlayerAction, TypeOK, PCs
  <2>. QED
    BY <1>0, <1>11, <2>1, <2>2
       DEF HandlePlayerAction, TypeOK, clientVars, ioVars, outVars, gameVars
<1>12. CASE ScanStep
  <2>1. PICK id \in toScan :
          \/ /\ lastAction' = [id |-> id, from |-> packet.from]
             /\ toScan' = {}
             /\ Done
          \/ /\ toScan' = toScan \ {id}
             /\ UNCHANGED <<pc, packet, endpoint, lastAction>>
    BY <1>12 DEF ScanStep
  <2>2. id \in Nat /\ packet.from \in Endpoints \cup {NoEndpoint}
    BY DEF TypeOK, Packets
  <2>3. lastAction' \in [id : Nat \cup {-1}, from : Endpoints \cup {NoEndpoint}]
    BY <2>1, <2>2 DEF TypeOK
  <2>4. pc' \in PCs /\ packet' \in Packets /\ endpoint' \in Endpoints \cup {NoEndpoint}
    BY <2>1, DoneType DEF TypeOK
  <2>. QED
    BY <1>0, <1>12, <2>1, <2>3, <2>4 DEF ScanStep, TypeOK, clientVars, ioVars, outVars
<1>13. CASE ScanFailed \/ HandleOther
  BY <1>0, <1>13, DoneType
     DEF ScanFailed, HandleOther, TypeOK, clientVars, ioVars, outVars, gameVars
<1>14. CASE UNCHANGED vars
  BY <1>0, <1>14 DEF vars, TypeOK, clientVars, ioVars, outVars, handlerVars, gameVars
<1>. QED
  BY <1>1, <1>2, <1>3, <1>4, <1>5, <1>6, <1>7, <1>8, <1>9, <1>10, <1>11, <1>12,
     <1>13, <1>14 DEF Next, ServerStep, HandlerStep

------------------------------------------------------------------------------
(* The other parts of the strengthening.                                   *)

LEMMA HeardStep ==
  ASSUME SessionInv, [Next]_vars
  PROVE  HeardSomeone' /\ EndpointCopied' /\ BufferSender'
<1>. HeardSomeone /\ EndpointCopied /\ BufferSender
  BY DEF SessionInv
<1>1. CASE ClientStep
  BY <1>1 DEF ClientStep, ioVars, handlerVars, HeardSomeone, EndpointCopied, BufferSender
<1>2. CASE IoReceive
  <2>1. recvBuffer' = {} \/ \E d \in Datagrams : recvBuffer' = {d} /\ remoteEndpoint' = d.from
    BY <1>2 DEF IoReceive
  <2>2. remoteEndpoint' \in Endpoints
    BY <1>2 DEF IoReceive, Datagrams
  <2>. QED
    BY <1>2, <2>1, <2>2
       DEF IoReceive, handlerVars, HeardSomeone, EndpointCopied, BufferSender
<1>3. CASE HandleReceive
  BY <1>3 DEF HandleReceive, HeardSomeone, EndpointCopied, BufferSender
<1>4. CASE HandleSendTimer
  BY <1>4
     DEF HandleSendTimer, ioVars, handlerVars, HeardSomeone, EndpointCopied, BufferSender
<1>5. CASE Pop
  BY <1>5 DEF Pop, ioVars, HeardSomeone, EndpointCopied, BufferSender
<1>6. CASE ReqConnect \/ HandleDisconnected
  BY <1>6
     DEF ReqConnect, HandleDisconnected, Handling, CopyRemoteEndpoint, ioVars,
         HeardSomeone, EndpointCopied, BufferSender
<1>7. CASE Create
  BY <1>7 DEF Create, ioVars, HeardSomeone, EndpointCopied, BufferSender
<1>8. CASE Reply \/ DropClient \/ HandleGameStart \/ ScanFailed \/ HandleOther
  BY <1>8
     DEF Reply, DropClient, HandleGameStart, ScanFailed, HandleOther, Handling, Done,
         ioVars, HeardSomeone, EndpointCopied, BufferSender
<1>9. CASE HandlePlayerAction
  BY <1>9
     DEF HandlePlayerAction, Handling, Done, ioVars, HeardSomeone, EndpointCopied,
         BufferSender
<1>10. CASE ScanStep
  BY <1>10 DEF ScanStep, Done, ioVars, HeardSomeone, EndpointCopied, BufferSender
<1>11. CASE UNCHANGED vars
  BY <1>11 DEF vars, ioVars, handlerVars, HeardSomeone, EndpointCopied, BufferSender
<1>. QED
  BY <1>1, <1>2, <1>3, <1>4, <1>5, <1>6, <1>7, <1>8, <1>9, <1>10, <1>11
     DEF Next, ServerStep, HandlerStep

\* Only HandleGameStart queues a message, and it sets running before; what a
\* client is told comes from the queue or from running itself.
LEMMA ToldStep ==
  ASSUME SessionInv, [Next]_vars
  PROVE  ToldOnlyIfRunning'
<1>. ToldOnlyIfRunning /\ TypeOK
  BY DEF SessionInv
<1>1. CASE ClientStep \/ IoReceive \/ HandleReceive
  BY <1>1
     DEF ClientStep, IoReceive, HandleReceive, outVars, gameVars, ToldOnlyIfRunning
<1>2. CASE HandleSendTimer
  BY <1>2 DEF HandleSendTimer, gameVars, ToldOnlyIfRunning
<1>3. CASE Pop \/ ReqConnect \/ HandleDisconnected
  BY <1>3
     DEF Pop, ReqConnect, HandleDisconnected, CopyRemoteEndpoint, outVars, gameVars,
         ToldOnlyIfRunning
<1>4. CASE Create
  BY <1>4 DEF Create, gameVars, ToldOnlyIfRunning, Started, TypeOK
<1>5. CASE Reply
  BY <1>5 DEF Reply, gameVars, ToldOnlyIfRunning, Started, TypeOK
<1>6. CASE DropClient
  BY <1>6 DEF DropClient, gameVars, ToldOnlyIfRunning, Started, TypeOK
<1>7. CASE HandleGameStart
  BY <1>7 DEF HandleGameStart, ToldOnlyIfRunning
<1>8. CASE HandlePlayerAction \/ ScanFailed \/ HandleOther
  BY <1>8
     DEF HandlePlayerAction, ScanFailed, HandleOther, outVars, gameVars, ToldOnlyIfRunning
<1>9. CASE ScanStep
  BY <1>9 DEF ScanStep, outVars, ToldOnlyIfRunning
<1>10. CASE UNCHANGED vars
  BY <1>10 DEF vars, outVars, gameVars, ToldOnlyIfRunning
<1>. QED
  BY <1>1, <1>2, <1>3, <1>4, <1>5, <1>6, <1>7, <1>8, <1>9, <1>10
     DEF Next, ServerStep, HandlerStep

LEMMA SessionInvStep == SessionInv /\ [Next]_vars => SessionInv'
  BY RegisterStep, TypeStep, HeardStep, ToldStep DEF SessionInv

LEMMA SessionInvariant == Spec => []SessionInv
  BY InitInv, SessionInvStep, PTL DEF Spec

------------------------------------------------------------------------------
(* The theorems.                                                           *)

\* Every variable has its type, for any endpoints and bounds.
THEOREM SessionsTypes == Spec => []TypeOK
<1>1. SessionInv => TypeOK
  BY DEF SessionInv
<1>. QED
  BY <1>1, SessionInvariant, PTL

\* Whatever the clients send and the network loses, duplicates or reorders,
\* ids are never lost, given twice, or held twice by one endpoint.
THEOREM SessionsRegister == Spec => [](IdPartition /\ OneIdPerEndpoint)
<1>1. SessionInv => IdPartition /\ OneIdPerEndpoint
  BY DEF SessionInv, RegInv
<1>. QED
  BY <1>1, SessionInvariant, PTL

\* The server, with its threads and packets, implements the table of seats.
THEOREM SessionsImplementTable == Spec => ImplementsTable
<1>1. Init => Table!Init
  BY TableInit DEF Init
<1>2. SessionInv /\ [Next]_vars => [Table!Next]_(Table!vars)
  BY RegisterStep
<1>. QED
  BY <1>1, <1>2, SessionInvariant, PTL DEF Spec, ImplementsTable, Table!Spec

\* No client that knows that the game started is told the contrary.
THEOREM SessionsNeverBack == Spec => NeverBackToLobby
<1>1. SessionInv /\ [Next]_vars =>
        [\A e \in Endpoints :
           Registered(e) /\ lastSent[e] \in Started =>
               lastSent'[e] # "GAME_NOT_STARTED"]_vars
  <2>. SUFFICES ASSUME SessionInv, Next, NEW e \in Endpoints,
                       Registered(e), lastSent[e] \in Started
                PROVE  lastSent'[e] # "GAME_NOT_STARTED"
    OBVIOUS
  <2>1. running /\ TypeOK
    BY DEF SessionInv, ToldOnlyIfRunning
  <2>2. lastSent[e] # "GAME_NOT_STARTED"
    BY DEF Started
  <2>3. CASE UNCHANGED lastSent
    BY <2>2, <2>3
  <2>4. CASE HandleSendTimer
    <3>1. Head(sendQueue) = "GAME_START"
      BY <2>1, <2>4 DEF HandleSendTimer, TypeOK
    <3>. QED
      BY <2>2, <2>4, <3>1 DEF HandleSendTimer
  <2>5. CASE Create
    BY <2>1, <2>2, <2>5 DEF Create, TypeOK
  <2>6. CASE Reply
    BY <2>1, <2>2, <2>6 DEF Reply, TypeOK
  <2>7. CASE DropClient
    BY <2>1, <2>2, <2>7 DEF DropClient, TypeOK
  <2>8. CASE ClientStep \/ IoReceive \/ HandleReceive
    BY <2>3, <2>8 DEF ClientStep, IoReceive, HandleReceive, outVars
  <2>9. CASE \/ Pop \/ ReqConnect \/ HandleDisconnected \/ HandleGameStart
             \/ HandlePlayerAction \/ ScanStep \/ ScanFailed \/ HandleOther
    BY <2>3, <2>9
       DEF Pop, ReqConnect, CopyRemoteEndpoint, HandleDisconnected, HandleGameStart,
           HandlePlayerAction, ScanStep, ScanFailed, HandleOther, outVars
  <2>. QED
    BY <2>4, <2>5, <2>6, <2>7, <2>8, <2>9 DEF Next, ServerStep, HandlerStep
<1>. QED
  BY <1>1, SessionInvariant, PTL DEF Spec, NeverBackToLobby

\* What the last disjunct of NobodyLeftInLobby covers ends with the reply.
LEMMA LobbyStep ==
  ASSUME SessionInv, NobodyLeftInLobby, [Next]_vars
  PROVE  NobodyLeftInLobby'
<1>. SUFFICES ASSUME NEW e \in Endpoints, running', Registered(e)'
              PROVE  \/ lastSent'[e] \in Started
                     \/ sendQueue' # <<>>
                     \/ pc' = "reply" /\ endpoint' = e
  BY DEF NobodyLeftInLobby
<1>. TypeOK /\ RegInv /\ EndpointCopied
  BY DEF SessionInv
<1>1. CASE HandleGameStart
  BY <1>1 DEF HandleGameStart, TypeOK
<1>2. CASE HandleSendTimer
  <2>1. Registered(e)
    BY <1>2 DEF HandleSendTimer, regVars, Registered, Ids
  <2>2. Head(sendQueue) = "GAME_START"
    BY <1>2 DEF HandleSendTimer, TypeOK
  <2>. QED
    BY <1>2, <2>1, <2>2 DEF HandleSendTimer, Started
<1>3. CASE Create
  <2>1. CASE e = endpoint
    BY <1>3, <2>1 DEF Create
  <2>2. CASE e # endpoint
    <3>1. Registered(e)
      <4>1. CASE KeepClient(endpoint)
        BY <4>1 DEF KeepClient, regVars, Registered, Ids
      <4>2. CASE ReuseId(endpoint)
        BY <4>2, <2>2, HeadIsFree DEF ReuseId, Insert, Registered, Ids
      <4>3. CASE FreshId(endpoint)
        BY <4>3, <2>2 DEF FreshId, Insert, Registered, Ids, RegInv, RegTypeOK
      <4>. QED
        BY <1>3, <4>1, <4>2, <4>3 DEF Create, CreateClient
    <3>2. running /\ UNCHANGED sendQueue /\ lastSent'[e] = lastSent[e] /\ pc # "reply"
      BY <1>3, <2>2 DEF Create, gameVars, TypeOK
    <3>. QED
      BY <3>1, <3>2 DEF NobodyLeftInLobby
  <2>. QED
    BY <2>1, <2>2
<1>4. CASE Reply
  <2>1. Registered(e) /\ running /\ UNCHANGED sendQueue
    BY <1>4 DEF Reply, regVars, gameVars, Registered, Ids
  <2>2. CASE e = endpoint
    BY <1>4, <2>1, <2>2 DEF Reply, Started, TypeOK
  <2>3. CASE e # endpoint
    BY <1>4, <2>1, <2>3 DEF Reply, NobodyLeftInLobby, TypeOK
  <2>. QED
    BY <2>2, <2>3
<1>5. CASE DropClient
  <2>1. running /\ UNCHANGED sendQueue /\ pc # "reply"
    BY <1>5 DEF DropClient, gameVars
  <2>2. CASE RemoveClient(endpoint) /\ UNCHANGED lastSent
    <3>1. Registered(e)
      BY <2>2 DEF RemoveClient, Erase, Registered, Ids
    <3>. QED
      BY <2>1, <2>2, <3>1 DEF NobodyLeftInLobby
  <2>3. CASE /\ ~Registered(endpoint)
             /\ lastSent' = [lastSent EXCEPT ![endpoint] = "NONE"]
             /\ UNCHANGED regVars
    <3>1. Registered(e) /\ e # endpoint
      BY <2>3 DEF regVars, Registered, Ids
    <3>. QED
      BY <2>1, <2>3, <3>1 DEF NobodyLeftInLobby, TypeOK
  <2>. QED
    BY <1>5, <2>2, <2>3 DEF DropClient
<1>6. CASE UNCHANGED <<regVars, outVars, running, pc, endpoint>>
  BY <1>6 DEF regVars, outVars, Registered, Ids, NobodyLeftInLobby
<1>7. CASE UNCHANGED <<regVars, outVars, running>> /\ pc # "reply"
  BY <1>7 DEF regVars, outVars, Registered, Ids, NobodyLeftInLobby
<1>8. CASE ClientStep \/ IoReceive \/ HandleReceive \/ UNCHANGED vars
  BY <1>6, <1>8 DEF ClientStep, IoReceive, HandleReceive, vars, handlerVars, gameVars
<1>9. CASE Pop \/ ReqConnect \/ HandleDisconnected
  BY <1>7, <1>9
     DEF Pop, ReqConnect, HandleDisconnected, Handling, CopyRemoteEndpoint, gameVars
<1>10. CASE HandlePlayerAction \/ ScanFailed \/ HandleOther
  BY <1>7, <1>10 DEF HandlePlayerAction, ScanFailed, HandleOther, Handling, gameVars
<1>11. CASE ScanStep
  BY <1>7, <1>11 DEF ScanStep
<1>. QED
  BY <1>1, <1>2, <1>3, <1>4, <1>5, <1>8, <1>9, <1>10, <1>11
     DEF Next, ServerStep, HandlerStep

\* While a game runs, every registered client was told so or is about to be.
THEOREM SessionsLobby == Spec => []NobodyLeftInLobby
<1>1. Init => NobodyLeftInLobby
  BY DEF Init, NobodyLeftInLobby
<1>2. SessionInv /\ NobodyLeftInLobby /\ [Next]_vars => NobodyLeftInLobby'
  BY LobbyStep
<1>. QED
  BY <1>1, <1>2, SessionInvariant, PTL DEF Spec

\* The io thread and the handler agree on the sender of the newest packet as
\* long as nothing was received after it.
LEMMA NewestStep ==
  ASSUME SessionInv, NewestPacketSender, [Next]_vars
  PROVE  NewestPacketSender'
<1>. TypeOK /\ BufferSender
  BY DEF SessionInv
<1>1. CASE IoReceive
  <2>1. recvBuffer' # {}
    BY <1>1 DEF IoReceive
  <2>. QED
    BY <2>1 DEF NewestPacketSender
<1>2. CASE HandleReceive
  <2>1. PICK d \in recvBuffer : packetQueue' = Append(packetQueue, d)
    BY <1>2 DEF HandleReceive
  <2>2. d.from = remoteEndpoint /\ d \in Datagrams
    BY DEF BufferSender, TypeOK
  <2>3. packetQueue' # <<>> /\ Last(packetQueue') = d
    BY <2>1, <2>2 DEF Last, TypeOK
  <2>. QED
    BY <1>2, <2>2, <2>3 DEF HandleReceive, NewestPacketSender
<1>3. CASE Pop
  <2>1. /\ packetQueue' = Tail(packetQueue)
        /\ packet' = Head(packetQueue)
        /\ packetQueue \in Seq(Datagrams)
        /\ packetQueue # <<>>
        /\ UNCHANGED <<recvBuffer, remoteEndpoint>>
    BY <1>3 DEF Pop, ioVars, TypeOK
  <2>2. packetQueue' # <<>> => Last(packetQueue') = Last(packetQueue)
    BY <2>1 DEF Last
  <2>3. packetQueue' = <<>> => packet' = Last(packetQueue)
    <3>1. Len(packetQueue') = Len(packetQueue) - 1
      BY <2>1
    <3>2. packetQueue' = <<>> => Len(packetQueue') = 0
      OBVIOUS
    <3>3. Len(packetQueue) \in Nat
      BY <2>1
    <3>. QED
      BY <2>1, <3>1, <3>2, <3>3 DEF Last
  <2>4. pc' = "dispatch"
    BY <1>3 DEF Pop
  <2>5. CASE packetQueue' # <<>>
    BY <2>1, <2>2, <2>5 DEF NewestPacketSender
  <2>6. CASE packetQueue' = <<>>
    BY <2>1, <2>3, <2>4, <2>6 DEF NewestPacketSender
  <2>. QED
    BY <2>5, <2>6
<1>4. CASE UNCHANGED <<ioVars, packetQueue, packet, pc, endpoint>>
  BY <1>4 DEF ioVars, NewestPacketSender
<1>5. CASE UNCHANGED <<ioVars, packetQueue>> /\ pc' = "idle"
  BY <1>5 DEF ioVars, NewestPacketSender
<1>6. CASE ClientStep \/ HandleSendTimer \/ UNCHANGED vars
  BY <1>4, <1>6 DEF ClientStep, HandleSendTimer, vars, handlerVars
<1>7. CASE ReqConnect \/ HandleDisconnected
  BY <1>7
     DEF ReqConnect, HandleDisconnected, Handling, CopyRemoteEndpoint, ioVars,
         NewestPacketSender
<1>8. CASE Create
  BY <1>8 DEF Create, ioVars, NewestPacketSender
<1>9. CASE Reply \/ DropClient \/ HandleGameStart \/ ScanFailed \/ HandleOther
  BY <1>5, <1>9 DEF Reply, DropClient, HandleGameStart, ScanFailed, HandleOther, Done
<1>10. CASE HandlePlayerAction
  BY <1>10 DEF HandlePlayerAction, Handling, Done, ioVars, NewestPacketSender
<1>11. CASE ScanStep
  BY <1>11 DEF ScanStep, Done, ioVars, NewestPacketSender
<1>. QED
  BY <1>1, <1>2, <1>3, <1>6, <1>7, <1>8, <1>9, <1>10, <1>11
     DEF Next, ServerStep, HandlerStep

\* remote_endpoint_ is the sender of the newest packet until the next one.
THEOREM SessionsNewest == Spec => []NewestPacketSender
<1>1. Init => NewestPacketSender
  BY DEF Init, NewestPacketSender
<1>2. SessionInv /\ NewestPacketSender /\ [Next]_vars => NewestPacketSender'
  BY NewestStep
<1>. QED
  BY <1>1, <1>2, SessionInvariant, PTL DEF Spec

\* The clients a step adds, removes or acts for are found by an endpoint that
\* NewestPacketSender says is the sender's.
LEMMA ServedStep ==
  ASSUME SessionInv, NewestPacketSender, Next, recvBuffer = {}, packetQueue = <<>>
  PROVE  /\ \A i \in Ids \ Ids' : clients[i] = packet.from
         /\ \A i \in Ids' \ Ids : clients'[i] = packet.from
         /\ lastAction' \notin {lastAction, NoAction} =>
                clients[lastAction'.id] = lastAction'.from
<1>. RegInv /\ TypeOK /\ EndpointCopied
  BY DEF SessionInv
<1>1. CASE Create
  <2>1. endpoint = packet.from /\ endpoint \in Endpoints /\ UNCHANGED lastAction
    BY <1>1 DEF Create, NewestPacketSender, EndpointCopied, gameVars
  <2>2. CASE KeepClient(endpoint)
    BY <2>1, <2>2 DEF KeepClient, regVars, Ids
  <2>3. CASE ReuseId(endpoint)
    BY <2>1, <2>3, HeadIsFree DEF ReuseId, Insert, Ids
  <2>4. CASE FreshId(endpoint)
    BY <2>1, <2>4 DEF FreshId, Insert, Ids
  <2>. QED
    BY <1>1, <2>2, <2>3, <2>4 DEF Create, CreateClient
<1>2. CASE DropClient
  <2>1. endpoint = packet.from /\ UNCHANGED lastAction
    BY <1>2 DEF DropClient, NewestPacketSender, gameVars
  <2>2. CASE RemoveClient(endpoint)
    BY <2>1, <2>2, IdOfRegistered DEF RemoveClient, Erase, Ids
  <2>3. CASE UNCHANGED regVars
    BY <2>1, <2>3 DEF regVars, Ids
  <2>. QED
    BY <1>2, <2>2, <2>3 DEF DropClient
<1>3. CASE ScanStep
  BY <1>3 DEF ScanStep, NewestPacketSender, regVars, Ids
<1>4. CASE UNCHANGED <<regVars, gameVars>>
  BY <1>4 DEF regVars, gameVars, Ids
<1>5. CASE UNCHANGED <<regVars, lastAction>> \/ (UNCHANGED regVars /\ lastAction' = NoAction)
  BY <1>5 DEF regVars, Ids
<1>6. CASE ClientStep \/ IoReceive \/ HandleReceive \/ HandleSendTimer
  BY <1>4, <1>6 DEF ClientStep, IoReceive, HandleReceive, HandleSendTimer
<1>7. CASE Pop \/ HandleGameStart
  BY <1>5, <1>7 DEF Pop, HandleGameStart
<1>8. CASE ReqConnect \/ HandleDisconnected \/ Reply
  BY <1>4, <1>8 DEF ReqConnect, HandleDisconnected, CopyRemoteEndpoint, Reply
<1>9. CASE HandlePlayerAction \/ ScanFailed \/ HandleOther
  BY <1>4, <1>9 DEF HandlePlayerAction, ScanFailed, HandleOther
<1>. QED
  BY <1>1, <1>2, <1>3, <1>6, <1>7, <1>8, <1>9 DEF Next, ServerStep, HandlerStep

\* A request is served in its sender's name if nothing newer was received.
THEOREM SessionsSenderServed == Spec => SenderServed
<1>1. SessionInv /\ NewestPacketSender /\ [Next]_vars =>
        [recvBuffer = {} /\ packetQueue = <<>> =>
            /\ \A i \in Ids \ Ids' : clients[i] = packet.from
            /\ \A i \in Ids' \ Ids : clients'[i] = packet.from
            /\ lastAction' \notin {lastAction, NoAction} =>
                   clients[lastAction'.id] = lastAction'.from]_vars
  BY ServedStep
<1>. QED
  BY <1>1, SessionInvariant, SessionsNewest, PTL DEF Spec, SenderServed
=============================================================================
