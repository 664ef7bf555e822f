------------------------------ MODULE ClientIds ------------------------------
(***************************************************************************)
(* The server's register of clients: the map from client id to UDP         *)
(* endpoint, the counter that names the next fresh id, and the queue of    *)
(* ids given back by clients that left.  Server::createClient and          *)
(* Server::disconnectData are the only code that writes them, each inside  *)
(* one critical section of clients_mutex_; Sessions and Match run them.    *)
(***************************************************************************)
EXTENDS Integers, Sequences, FiniteSets, SequencesExt

CONSTANT Endpoints          \* the UDP endpoints a datagram can come from

VARIABLES clients,          \* clients_: id -> endpoint, a std::map
          nbClients,        \* _nbClients
          availableIds      \* available_ids_, a FIFO queue

regVars == <<clients, nbClients, availableIds>>

Ids == DOMAIN clients

RegInit ==
    /\ clients = [i \in {} |-> 0]
    /\ nbClients = 0
    /\ availableIds = <<>>

Registered(e) == \E i \in Ids : clients[i] = e

\* Mutant of IdOf: the first client, whoever it is.
IdOfFirst(e) == CHOOSE i \in Ids : \A j \in Ids : i <= j

\* The first client of the iteration over the ordered map with that endpoint.
IdOf(e) == CHOOSE i \in Ids :
    /\ clients[i] = e
    /\ \A j \in Ids : clients[j] = e => i <= j

\* std::map::insert leaves a key that is there already alone.
Insert(f, k, v) ==
    IF k \in DOMAIN f THEN f
    ELSE [x \in DOMAIN f \cup {k} |-> IF x = k THEN v ELSE f[x]]

Erase(f, k) == [x \in DOMAIN f \ {k} |-> f[x]]

------------------------------------------------------------------------------

KeepClient(e) ==
    /\ Registered(e)
    /\ UNCHANGED regVars

ReuseId(e) ==
    /\ ~Registered(e)
    /\ availableIds # <<>>
    /\ clients' = Insert(clients, Head(availableIds), e)
    /\ availableIds' = Tail(availableIds)
    /\ UNCHANGED nbClients

\* Mutants of FreshId: the counter stays; the queue is not looked at.
FreshIdUncounted(e) ==
    /\ ~Registered(e)
    /\ availableIds = <<>>
    /\ clients' = Insert(clients, nbClients, e)
    /\ UNCHANGED <<nbClients, availableIds>>

FreshIdAlways(e) ==
    /\ ~Registered(e)
    /\ clients' = Insert(clients, nbClients, e)
    /\ nbClients' = nbClients + 1
    /\ UNCHANGED availableIds

FreshId(e) ==
    /\ ~Registered(e)
    /\ availableIds = <<>>
    /\ clients' = Insert(clients, nbClients, e)
    /\ nbClients' = nbClients + 1
    /\ UNCHANGED availableIds

CreateClient(e) == KeepClient(e) \/ ReuseId(e) \/ FreshId(e)

\* Mutant of RemoveClient: the entry is not erased.
RemoveClientKeeps(e) ==
    /\ Registered(e)
    /\ availableIds' = Append(availableIds, IdOf(e))
    /\ UNCHANGED <<clients, nbClients>>

RemoveClient(e) ==
    /\ Registered(e)
    /\ availableIds' = Append(availableIds, IdOf(e))
    /\ clients' = Erase(clients, IdOf(e))
    /\ UNCHANGED nbClients

\* The register alone: any endpoint comes and goes.
RegNext == \E e \in Endpoints : CreateClient(e) \/ RemoveClient(e)

RegSpec == RegInit /\ [][RegNext]_regVars

------------------------------------------------------------------------------

\* The type of the register.
RegTypeOK ==
    /\ nbClients \in Nat
    /\ Ids \subseteq 0..(nbClients - 1)
    /\ \A i \in Ids : clients[i] \in Endpoints
    /\ availableIds \in Seq(0..(nbClients - 1))

(***************************************************************************)
(* Every id handed out so far is either a client's or waiting in the       *)
(* queue, never both, and the queue holds no id twice.  A second push of   *)
(* one id (a DISCONNECTED handled twice, Server.cpp:172) would later give  *)
(* it to two endpoints, and insert would silently drop the second.         *)
(***************************************************************************)
IdPartition ==
    /\ \A i \in 0..(nbClients - 1) :
          i \in Ids \/ \E k \in 1..Len(availableIds) : availableIds[k] = i
    /\ \A k \in 1..Len(availableIds) : availableIds[k] \notin Ids
    /\ \A j, k \in 1..Len(availableIds) :
          availableIds[j] = availableIds[k] => j = k

(***************************************************************************)
(* No endpoint holds two ids: the scan of createClient (Server.cpp:130)    *)
(* and the one of disconnectData (Server.cpp:167) agree on who is there.   *)
(***************************************************************************)
OneIdPerEndpoint ==
    \A i, j \in Ids : clients[i] = clients[j] => i = j

(***************************************************************************)
(* The register implements the table of seats: an endpoint never holds two *)
(* seats, a seat never changes hands without being left, and no seat is    *)
(* added while one is free (Server.cpp:124-143 and 161-177).               *)
(***************************************************************************)
Table == INSTANCE SessionTable WITH owner <- clients, capacity <- nbClients
ImplementsTable == Table!Spec
=============================================================================
