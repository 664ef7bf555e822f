---------------------------- MODULE PlayerActions ----------------------------
(***************************************************************************)
(* The vector of player actions between the handler thread, which finds    *)
(* the client of a packet and appends (PacketHandler.cpp:230-260,          *)
(* GameState.cpp:47-50), and the game thread, which walks the vector       *)
(* without its mutex and then, under the mutex, erases what it marked      *)
(* (GameState.cpp:52-74, Pong.cpp:53-72).                                  *)
(*                                                                         *)
(* An element is known by the number it was added under: emplace_back adds *)
(* at the end and erase keeps the order, so the vector is always sorted by *)
(* these numbers and is modelled as a function from them.  The range-for   *)
(* reads begin() and end() once each; an emplace_back that needs more room *)
(* moves the elements and frees the memory the walk goes on reading.       *)
(*                                                                         *)
(* The handler finds the client of a packet by remote_endpoint_, a         *)
(* reference that the io thread may set to a later datagram's sender       *)
(* before and between the comparisons (module Sessions, LookUp).  Whom it  *)
(* finds is therefore any registered client, or nobody.                    *)
(***************************************************************************)
EXTENDS ClientIds, StdMap

CONSTANTS Kinds,            \* kinds of action the clients send
          Handled,          \* those the game has a branch for: all of them in
                            \* GameState, no shots in Pong
          MaxAdded          \* bound: actions that are ever sent

ASSUME ActionsAssumption == Handled \subseteq Kinds /\ MaxAdded \in Nat

VARIABLES
    actions,      \* playerActions: number -> [client, from, kind, processed];
                  \* client is its id, from (history) the endpoint of the id
    added,        \* how many were ever added
    capacity,     \* playerActions.capacity()
    pc,           \* where the game thread is in processPlayerActions
    toVisit,      \* what is left of the range [begin, end) it walks
    stale,        \* the vector moved since begin() was read
    times,        \* history: number -> how often it was executed
    walks,        \* history: pending number -> how many walks met it, handled
    moves,        \* history: how many walks the vector moved under
    orphans       \* history: the pending numbers whose client left since

vectorVars == <<actions, added, capacity>>
walkVars == <<pc, toVisit, stale>>
historyVars == <<times, walks, moves, orphans>>
actionVars == <<vectorVars, walkVars, historyVars>>
vars == <<regVars, actionVars>>

Pending == DOMAIN actions

\* Pending, and the game has a branch for it.
Live == {n \in Pending : actions[n].kind \in Handled}

Init ==
    /\ RegInit
    /\ actions = Empty /\ added = 0 /\ capacity = 0
    /\ pc = "idle" /\ toVisit = {} /\ stale = FALSE
    /\ times = Empty /\ walks = Empty /\ moves = 0 /\ orphans = {}

------------------------------------------------------------------------------
(* The handler thread.                                                     *)

Join(e) == CreateClient(e) /\ UNCHANGED actionVars

Leave(e) ==
    /\ RemoveClient(e)
    /\ orphans' = orphans \cup {n \in Pending : actions[n].from = e}
    /\ UNCHANGED <<vectorVars, walkVars, times, walks, moves>>

Full == Cardinality(Pending) = capacity

\* The elements move to a block of twice the size (one, for the first).
Reallocate ==
    /\ capacity' = IF capacity = 0 THEN 1 ELSE 2 * capacity
    /\ stale' = (pc \in {"begin", "walk"})
    /\ moves' = IF pc \in {"begin", "walk"} /\ ~stale THEN moves + 1 ELSE moves

\* i is the client the handler found; without one nothing is added.
Add(i, kind) ==
    /\ added < MaxAdded
    /\ LET n == added + 1
           action == [client |-> i, from |-> clients[i], kind |-> kind, processed |-> FALSE]
       IN /\ actions' = Emplace(actions, [x \in {n} |-> action])
          /\ added' = n
          /\ times' = Emplace(times, [x \in {n} |-> 0])
          /\ walks' = Emplace(walks, [x \in {n} |-> 0])
    /\ IF Full THEN Reallocate ELSE UNCHANGED <<capacity, stale, moves>>
    /\ UNCHANGED <<regVars, pc, toVisit, orphans>>

------------------------------------------------------------------------------
(* The game thread; a second one waits for server_mutex (GameState.cpp:370). *)

ReadBegin ==
    /\ pc = "idle"
    /\ pc' = "begin"
    /\ UNCHANGED <<regVars, vectorVars, toVisit, stale, historyVars>>

\* Mutant of ReadEnd: the walk stops before the last element.
ReadEndBeforeLast ==
    /\ pc = "begin"
    /\ IF stale
       THEN /\ pc' = "wild"
            /\ UNCHANGED <<toVisit, walks>>
       ELSE /\ pc' = "walk"
            /\ toVisit' = {n \in Pending : \E k \in Pending : n < k}
            /\ walks' = [n \in Pending |->
                            IF n \in Live THEN walks[n] + 1 ELSE walks[n]]
    /\ UNCHANGED <<regVars, vectorVars, stale, times, moves, orphans>>

\* The end of one block does not bound a walk that begins in another.
ReadEnd ==
    /\ pc = "begin"
    /\ IF stale
       THEN /\ pc' = "wild"
            /\ UNCHANGED <<toVisit, walks>>
       ELSE /\ pc' = "walk"
            /\ toVisit' = Pending
            /\ walks' = [n \in Pending |->
                            IF n \in Live THEN walks[n] + 1 ELSE walks[n]]
    /\ UNCHANGED <<regVars, vectorVars, stale, times, moves, orphans>>

\* Mutant of NextToVisit: the walk goes backwards.
NextToVisitLast(n) == n \in toVisit /\ \A k \in toVisit : n >= k

NextToVisit(n) == n \in toVisit /\ \A k \in toVisit : n <= k

Execute(n) == times' = [times EXCEPT ![n] = @ + 1]

\* Mutant of Mark: setProcessed is forgotten.
MarkNothing(n) == UNCHANGED actions

Mark(n) == actions' = [actions EXCEPT ![n].processed = TRUE]

\* handlePlayerMove or handlePlayerShoot, and setProcessed.  In freed memory
\* the old element may still be read, or something that is no action of
\* anybody; the mark is lost in both cases.
Visit ==
    /\ pc = "walk"
    /\ \E n \in toVisit :
          /\ NextToVisit(n)
          /\ \/ n \notin Live /\ UNCHANGED <<times, actions>>
             \/ n \in Live /\ ~stale /\ Execute(n) /\ Mark(n)
             \/ n \in Live /\ stale /\ Execute(n) /\ UNCHANGED actions
             \/ stale /\ UNCHANGED <<times, actions>>
          /\ toVisit' = toVisit \ {n}
    /\ UNCHANGED <<regVars, added, capacity, pc, stale, walks, moves, orphans>>

\* Mutant of Processed: the vector is cleared.
ProcessedAll == Pending

Processed == {n \in Pending : actions[n].processed}

\* Erased and not shrunk: the capacity stays.
DeletePlayerAction ==
    /\ pc = "walk" /\ toVisit = {}
    /\ actions' = Without(actions, Processed)
    /\ walks' = Without(walks, Processed)
    /\ orphans' = orphans \ Processed
    /\ pc' = "idle"
    /\ stale' = FALSE
    /\ UNCHANGED <<regVars, added, capacity, toVisit, times, moves>>

ProcessPlayerActions == ReadBegin \/ ReadEnd \/ Visit \/ DeletePlayerAction

Handle ==
    \/ \E e \in Endpoints : Join(e) \/ Leave(e)
    \/ \E i \in Ids, kind \in Kinds : Add(i, kind)

\* Nothing is known of a program whose walk has no end.
Next == pc # "wild" /\ (Handle \/ ProcessPlayerActions)

Spec == Init /\ [][Next]_vars

\* The game thread runs a frame every 10 ms for ever.
FairSpec == Spec /\ WF_vars(ProcessPlayerActions)

------------------------------------------------------------------------------

ActionType == [client : Nat, from : Endpoints, kind : Kinds, processed : BOOLEAN]

\* The type of every variable; elements have numbers already given.
TypeOK ==
    /\ RegTypeOK
    /\ added \in Nat /\ capacity \in Nat /\ moves \in Nat
    /\ Pending \subseteq 1..added /\ \A n \in Pending : actions[n] \in ActionType
    /\ pc \in {"idle", "begin", "walk", "wild"}
    /\ toVisit \subseteq Pending
    /\ stale \in BOOLEAN
    /\ times \in [1..added -> Nat] /\ walks \in [Pending -> Nat]
    /\ orphans \subseteq Pending

(***************************************************************************)
(* No input is dropped: whatever was erased had been executed before, also *)
(* when emplace_back moved the vector under the walk (GameState.cpp:53     *)
(* against 49).                                                            *)
(***************************************************************************)
NothingLost == \A n \in 1..added : n \in Pending \/ times[n] > 0

(***************************************************************************)
(* An input is executed once, and once more at most for each walk that the *)
(* vector moved under: there the marks go to freed memory, and the next    *)
(* frame finds the elements unmarked (GameState.cpp:59 and 62).            *)
(***************************************************************************)
RepeatsBounded == \A n \in 1..added : times[n] <= 1 + moves

\* Inputs are executed in the order they came in (while the vector stays).
InOrder ==
    moves = 0 =>
        \A k, n \in 1..added : k < n /\ times[n] > 0 /\ k \in Live => times[k] > 0

(***************************************************************************)
(* No input waits: one that the game has a branch for is met by one walk,  *)
(* and by one more for each walk that the vector moved under.  What is     *)
(* executed is therefore of the last frame, and a client acts for another  *)
(* one that had its id before (GameState.cpp:379 and 408) for a frame only.*)
(***************************************************************************)
NoLeftovers ==
    \A n \in Live : ~actions[n].processed => walks[n] <= 1 + moves

(***************************************************************************)
(* An input stays with the client the handler found for it: whoever comes, *)
(* goes and takes over freed ids in between, the id in the element is      *)
(* still held by that client, unless this very client left since           *)
(* (PacketHandler.cpp:247-256 against Server.cpp:124-178).  Whether the    *)
(* client found is the one that sent the packet is SenderServed of         *)
(* Sessions.                                                               *)
(***************************************************************************)
ClientKept ==
    \A n \in Pending : n \notin orphans =>
        actions[n].client \in Ids /\ clients[actions[n].client] = actions[n].from

(***************************************************************************)
(* Every input the game has a branch for is executed in the end, unless    *)
(* begin() and end() were read around a move.                              *)
(***************************************************************************)
EveryActionExecuted ==
    \A n \in 1..MaxAdded :
        n \in Live ~> pc = "wild" \/ (n \in DOMAIN times /\ times[n] > 0)
=============================================================================
