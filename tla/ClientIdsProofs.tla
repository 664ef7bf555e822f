--------------------------- MODULE ClientIdsProofs ---------------------------
(***************************************************************************)
(* The register of clients, for any set of endpoints: its invariants and   *)
(* the refinement of SessionTable.  The lemmas are about one operation     *)
(* each, so that the modules that run the operations can cite them.        *)
(***************************************************************************)
EXTENDS ClientIds, TLAPS

\* The inductive invariant.
RegInv == RegTypeOK /\ IdPartition /\ OneIdPerEndpoint

\* Nobody is registered and no id was given.
LEMMA RegInitInv == RegInit => RegInv
  BY DEF RegInit, RegInv, RegTypeOK, IdPartition, OneIdPerEndpoint, Ids

\* The id at the front of the queue is free and was given before.
LEMMA HeadIsFree ==
  ASSUME RegInv, availableIds # <<>>
  PROVE  /\ Head(availableIds) \in 0..(nbClients - 1)
         /\ Head(availableIds) \notin Ids
         /\ Head(availableIds) = availableIds[1]
         /\ Len(availableIds) >= 1
  BY DEF RegInv, RegTypeOK, IdPartition

\* A registered endpoint has an id, and the code finds it.
LEMMA IdOfRegistered ==
  ASSUME RegInv, NEW e, Registered(e)
  PROVE  IdOf(e) \in Ids /\ clients[IdOf(e)] = e
<1>1. PICK i \in Ids : clients[i] = e
  BY DEF Registered
<1>2. \A j \in Ids : clients[j] = e => j = i
  BY <1>1 DEF RegInv, OneIdPerEndpoint
<1>3. i \in Int
  BY DEF RegInv, RegTypeOK
<1>4. clients[i] = e /\ \A j \in Ids : clients[j] = e => i <= j
  BY <1>1, <1>2, <1>3
<1>. QED
  BY <1>4 DEF IdOf

\* The oldest id given back becomes the newcomer's.
LEMMA ReuseIdInv ==
  ASSUME RegInv, NEW e \in Endpoints, ReuseId(e)
  PROVE  RegInv'
<1>. DEFINE h == Head(availableIds)
<1>1. /\ h \in 0..(nbClients - 1)
      /\ h \notin Ids
      /\ h = availableIds[1]
      /\ Len(availableIds) >= 1
  BY HeadIsFree DEF ReuseId
<1>2. /\ Ids' = Ids \cup {h}
      /\ clients'[h] = e
      /\ \A i \in Ids : clients'[i] = clients[i]
  BY <1>1 DEF ReuseId, Insert, Ids
<1>3. /\ nbClients' = nbClients
      /\ availableIds' = Tail(availableIds)
      /\ ~Registered(e)
  BY DEF ReuseId
<1>4. availableIds \in Seq(0..(nbClients - 1)) /\ availableIds # <<>>
  BY DEF RegInv, RegTypeOK, ReuseId
<1>5. /\ Len(availableIds') = Len(availableIds) - 1
      /\ \A k \in 1..Len(availableIds') : availableIds'[k] = availableIds[k + 1]
      /\ availableIds' \in Seq(0..(nbClients - 1))
  BY <1>3, <1>4
<1>6. RegTypeOK'
  BY <1>1, <1>2, <1>3, <1>5 DEF RegInv, RegTypeOK
<1>7. IdPartition'
  <2>1. ASSUME NEW i \in 0..(nbClients - 1), i \notin Ids'
        PROVE  \E k \in 1..Len(availableIds') : availableIds'[k] = i
    <3>1. PICK k \in 1..Len(availableIds) : availableIds[k] = i
      BY <2>1, <1>2 DEF RegInv, IdPartition
    <3>2. k # 1
      BY <3>1, <2>1, <1>1, <1>2
    <3>3. k - 1 \in 1..Len(availableIds') /\ availableIds'[k - 1] = i
      BY <3>1, <3>2, <1>5, <1>4
    <3>. QED
      BY <3>3
  <2>2. ASSUME NEW k \in 1..Len(availableIds')
        PROVE  availableIds'[k] \notin Ids'
    <3>1. /\ k + 1 \in 1..Len(availableIds)
          /\ 1 \in 1..Len(availableIds)
          /\ availableIds'[k] = availableIds[k + 1]
      BY <1>1, <1>4, <1>5
    <3>2. availableIds[k + 1] # h
      BY <3>1, <1>1 DEF RegInv, IdPartition
    <3>. QED
      BY <3>1, <3>2, <1>2 DEF RegInv, IdPartition
  <2>3. ASSUME NEW j \in 1..Len(availableIds'), NEW k \in 1..Len(availableIds'),
               availableIds'[j] = availableIds'[k]
        PROVE  j = k
    <3>1. j + 1 \in 1..Len(availableIds) /\ k + 1 \in 1..Len(availableIds)
      BY <1>4, <1>5
    <3>2. availableIds[j + 1] = availableIds[k + 1]
      BY <2>3, <1>5
    <3>. QED
      BY <3>1, <3>2 DEF RegInv, IdPartition
  <2>. QED
    BY <2>1, <2>2, <2>3, <1>3 DEF IdPartition
<1>8. OneIdPerEndpoint'
  BY <1>1, <1>2, <1>3 DEF RegInv, OneIdPerEndpoint, Registered
<1>. QED
  BY <1>6, <1>7, <1>8 DEF RegInv

\* With no id to give again, the counter names a new one.
LEMMA FreshIdInv ==
  ASSUME RegInv, NEW e \in Endpoints, FreshId(e)
  PROVE  RegInv'
<1>0. nbClients \in Nat /\ nbClients \notin Ids
  BY DEF RegInv, RegTypeOK
<1>2. /\ Ids' = Ids \cup {nbClients}
      /\ clients'[nbClients] = e
      /\ \A i \in Ids : clients'[i] = clients[i]
  BY <1>0 DEF FreshId, Insert, Ids
<1>3. /\ nbClients' = nbClients + 1
      /\ availableIds' = <<>>
      /\ availableIds = <<>>
      /\ ~Registered(e)
  BY DEF FreshId
<1>4. RegTypeOK'
  <2>1. nbClients' \in Nat /\ Ids' \subseteq 0..(nbClients' - 1)
    BY <1>0, <1>2, <1>3 DEF RegInv, RegTypeOK
  <2>2. \A i \in Ids' : clients'[i] \in Endpoints
    BY <1>2 DEF RegInv, RegTypeOK
  <2>3. availableIds' \in Seq(0..(nbClients' - 1))
    BY <1>3
  <2>. QED
    BY <2>1, <2>2, <2>3 DEF RegTypeOK
<1>5. IdPartition'
  BY <1>0, <1>2, <1>3 DEF RegInv, IdPartition
<1>6. OneIdPerEndpoint'
  BY <1>0, <1>2, <1>3 DEF RegInv, OneIdPerEndpoint, Registered
<1>. QED
  BY <1>4, <1>5, <1>6 DEF RegInv

\* createClient keeps the invariant.
LEMMA CreateClientInv ==
  ASSUME RegInv, NEW e \in Endpoints, CreateClient(e)
  PROVE  RegInv'
<1>1. CASE KeepClient(e)
  BY <1>1 DEF KeepClient, regVars, RegInv, RegTypeOK, IdPartition, OneIdPerEndpoint, Ids
<1>2. CASE ReuseId(e)
  BY <1>2, ReuseIdInv
<1>3. CASE FreshId(e)
  BY <1>3, FreshIdInv
<1>. QED
  BY <1>1, <1>2, <1>3 DEF CreateClient

\* disconnectData gives the id back exactly once.
LEMMA RemoveClientInv ==
  ASSUME RegInv, NEW e \in Endpoints, RemoveClient(e)
  PROVE  RegInv'
<1>. DEFINE id == IdOf(e)
<1>1. id \in Ids /\ clients[id] = e
  BY IdOfRegistered DEF RemoveClient
<1>2. /\ Ids' = Ids \ {id}
      /\ \A i \in Ids' : clients'[i] = clients[i]
      /\ nbClients' = nbClients
      /\ availableIds' = Append(availableIds, id)
  BY DEF RemoveClient, Erase, Ids
<1>3. /\ availableIds \in Seq(0..(nbClients - 1))
      /\ id \in 0..(nbClients - 1)
  BY <1>1 DEF RegInv, RegTypeOK
<1>4. /\ Len(availableIds') = Len(availableIds) + 1
      /\ Len(availableIds) \in Nat
      /\ \A k \in 1..Len(availableIds) : availableIds'[k] = availableIds[k]
      /\ availableIds'[Len(availableIds) + 1] = id
      /\ availableIds' \in Seq(0..(nbClients - 1))
  BY <1>2, <1>3
<1>5. RegTypeOK'
  BY <1>2, <1>4 DEF RegInv, RegTypeOK
<1>6. \A k \in 1..Len(availableIds) : availableIds[k] # id
  BY <1>1 DEF RegInv, IdPartition
<1>7. IdPartition'
  <2>1. ASSUME NEW i \in 0..(nbClients - 1), i \notin Ids'
        PROVE  \E k \in 1..Len(availableIds') : availableIds'[k] = i
    <3>1. CASE i = id
      <4>1. Len(availableIds) + 1 \in 1..Len(availableIds')
        BY <1>4
      <4>. QED
        BY <3>1, <4>1, <1>4
    <3>2. CASE i # id
      <4>1. PICK k \in 1..Len(availableIds) : availableIds[k] = i
        BY <3>2, <2>1, <1>2 DEF RegInv, IdPartition
      <4>2. k \in 1..Len(availableIds') /\ availableIds'[k] = i
        BY <4>1, <1>4
      <4>. QED
        BY <4>2
    <3>. QED
      BY <3>1, <3>2
  <2>2. ASSUME NEW k \in 1..Len(availableIds')
        PROVE  availableIds'[k] \notin Ids'
    <3>1. CASE k = Len(availableIds) + 1
      BY <3>1, <1>2, <1>4
    <3>2. CASE k \in 1..Len(availableIds)
      BY <3>2, <1>2, <1>4 DEF RegInv, IdPartition
    <3>. QED
      BY <3>1, <3>2, <1>4
  <2>3. ASSUME NEW j \in 1..Len(availableIds'), NEW k \in 1..Len(availableIds'),
               availableIds'[j] = availableIds'[k]
        PROVE  j = k
    <3>1. CASE j \in 1..Len(availableIds) /\ k \in 1..Len(availableIds)
      BY <3>1, <2>3, <1>4 DEF RegInv, IdPartition
    <3>2. CASE j = Len(availableIds) + 1 /\ k \in 1..Len(availableIds)
      BY <3>2, <2>3, <1>4, <1>6
    <3>3. CASE j \in 1..Len(availableIds) /\ k = Len(availableIds) + 1
      BY <3>3, <2>3, <1>4, <1>6
    <3>4. CASE j = Len(availableIds) + 1 /\ k = Len(availableIds) + 1
      BY <3>4
    <3>. QED
      BY <3>1, <3>2, <3>3, <3>4, <1>4
  <2>. QED
    BY <2>1, <2>2, <2>3, <1>2 DEF IdPartition
<1>8. OneIdPerEndpoint'
  BY <1>2 DEF RegInv, OneIdPerEndpoint
<1>. QED
  BY <1>5, <1>7, <1>8 DEF RegInv

\* Nothing happens to the register.
LEMMA RegUnchangedInv ==
  ASSUME RegInv, UNCHANGED regVars
  PROVE  RegInv'
  BY DEF regVars, RegInv, RegTypeOK, IdPartition, OneIdPerEndpoint, Ids

------------------------------------------------------------------------------
(* Every operation is a step of the table of seats.                        *)

LEMMA TableInit == RegInit => Table!Init
  BY DEF RegInit, Table!Init

\* createClient is a Join, or nothing.
LEMMA CreateClientJoins ==
  ASSUME RegInv, NEW e \in Endpoints, CreateClient(e)
  PROVE  Table!Join(e) \/ UNCHANGED Table!vars
<1>1. CASE KeepClient(e)
  BY <1>1 DEF KeepClient, regVars, Table!vars
<1>2. CASE ReuseId(e)
  <2>1. /\ Head(availableIds) \in Table!Free
        /\ Head(availableIds) \notin DOMAIN clients
    BY <1>2, HeadIsFree DEF ReuseId, Table!Free, Table!Seats, Table!Taken, Ids
  <2>2. Table!Seat(Head(availableIds), e)
    BY <1>2, <2>1 DEF ReuseId, Insert, Table!Seat, Table!Taken
  <2>3. \A s \in Table!Taken : clients[s] # e
    BY <1>2 DEF ReuseId, Registered, Ids, Table!Taken
  <2>. QED
    BY <1>2, <2>1, <2>2, <2>3 DEF ReuseId, Table!Join
<1>3. CASE FreshId(e)
  <2>1. Table!Free = {}
    BY <1>3 DEF FreshId, RegInv, RegTypeOK, IdPartition, Ids, Table!Free, Table!Seats, Table!Taken
  <2>2. nbClients \notin DOMAIN clients
    BY DEF RegInv, RegTypeOK, Ids
  <2>3. Table!Seat(nbClients, e)
    BY <1>3, <2>2 DEF FreshId, Insert, Table!Seat, Table!Taken
  <2>4. \A s \in Table!Taken : clients[s] # e
    BY <1>3 DEF FreshId, Registered, Ids, Table!Taken
  <2>. QED
    BY <1>3, <2>1, <2>3, <2>4 DEF FreshId, Table!Join
<1>. QED
  BY <1>1, <1>2, <1>3 DEF CreateClient

\* disconnectData of a registered client is a Leave.
LEMMA RemoveClientLeaves ==
  ASSUME RegInv, NEW e \in Endpoints, RemoveClient(e)
  PROVE  Table!Leave(e)
<1>1. IdOf(e) \in Ids /\ clients[IdOf(e)] = e
  BY IdOfRegistered DEF RemoveClient
<1>. QED
  BY <1>1 DEF RemoveClient, Erase, Ids, Table!Leave, Table!Taken

------------------------------------------------------------------------------

\* For any endpoints, the ids in use and the ids to give again are a
\* partition of the ids given so far, and no endpoint holds two
\* (Server.cpp:124-143 and 161-177).
THEOREM RegisterCorrect ==
  RegSpec => [](RegTypeOK /\ IdPartition /\ OneIdPerEndpoint)
<1>1. RegInit => RegInv
  BY RegInitInv
<1>2. RegInv /\ [RegNext]_regVars => RegInv'
  BY CreateClientInv, RemoveClientInv, RegUnchangedInv DEF RegNext
<1>3. RegInv => RegTypeOK /\ IdPartition /\ OneIdPerEndpoint
  BY DEF RegInv
<1>. QED
  BY <1>1, <1>2, <1>3, PTL DEF RegSpec

\* A REQCONNECT that the network doubles, or a client that restarts on its
\* port, takes no second id (Server.cpp:130-133).
THEOREM RegisterOneId == RegSpec => []OneIdPerEndpoint
<1>1. RegTypeOK /\ IdPartition /\ OneIdPerEndpoint => OneIdPerEndpoint
  OBVIOUS
<1>. QED
  BY <1>1, RegisterCorrect, PTL

\* For any endpoints, the register implements the table of seats.
THEOREM RegisterImplementsTable == RegSpec => ImplementsTable
<1>1. RegInit => RegInv /\ Table!Init
  BY RegInitInv, TableInit
<1>2. RegInv /\ [RegNext]_regVars => RegInv'
  BY CreateClientInv, RemoveClientInv, RegUnchangedInv DEF RegNext
<1>3. RegInv /\ [RegNext]_regVars => [Table!Next]_(Table!vars)
  <2>1. ASSUME RegInv, NEW e \in Endpoints, CreateClient(e) \/ RemoveClient(e)
        PROVE  Table!Next \/ UNCHANGED Table!vars
    BY <2>1, CreateClientJoins, RemoveClientLeaves DEF Table!Next
  <2>2. CASE UNCHANGED regVars
    BY <2>2 DEF regVars, Table!vars
  <2>. QED
    BY <2>1, <2>2 DEF RegNext
<1>. QED
  BY <1>1, <1>2, <1>3, PTL DEF RegSpec, ImplementsTable, Table!Spec
=============================================================================
