------------------------- MODULE PlayerActionsProofs -------------------------
(***************************************************************************)
(* The vector of player actions, for any clients, any kinds of actions and *)
(* any number of them, against a handler thread that may append at any     *)
(* step of the walk.                                                       *)
(***************************************************************************)
EXTENDS PlayerActions, ClientIdsProofs

------------------------------------------------------------------------------
(* The inductive invariant.                                                *)

\* Only the walk marks, only what it has behind it, and only what it executed.
MarkedVisited ==
  \A n \in Pending : actions[n].processed => pc = "walk" /\ n \notin toVisit /\ times[n] > 0

\* A vector that moved under this walk was counted.
StaleCounted == stale => moves > 0

\* Each execution whose mark was lost was paid for by a move; one that lies
\* ahead in freed memory is paid for already.
RepeatsPaid ==
  /\ \A n \in Pending : ~actions[n].processed => times[n] <= moves
  /\ \A n \in toVisit : stale => times[n] + 1 <= moves

\* The same of the walks that an element was met by.
WalksPaid ==
  /\ \A n \in Live \ toVisit : ~actions[n].processed => walks[n] <= moves
  /\ \A n \in Live : n \in toVisit => walks[n] <= moves + 1
  /\ \A n \in Live : n \in toVisit /\ stale => walks[n] <= moves

\* While nothing moved, what the walk has behind it is executed.
VisitedInOrder ==
  moves = 0 =>
    \A n \in toVisit : \A k \in Live : k \notin toVisit /\ k < n => times[k] > 0

\* Outside the walk there is nothing to visit.
NothingToVisit == pc # "walk" => toVisit = {}

WalkInv ==
  /\ NothingLost /\ RepeatsBounded /\ InOrder
  /\ MarkedVisited /\ StaleCounted /\ RepeatsPaid /\ WalksPaid
  /\ VisitedInOrder /\ NothingToVisit

ActionsInv == TypeOK /\ RegInv /\ ClientKept /\ WalkInv

LEMMA ActionsInitInv == Init => ActionsInv
<1>. SUFFICES ASSUME Init PROVE ActionsInv
  OBVIOUS
<1>1. RegInv /\ RegTypeOK
  BY RegInitInv DEF Init, RegInv
<1>2. Pending = {} /\ 1..added = {} /\ toVisit = {} /\ Live = {}
  BY DEF Init, Pending, Live, Empty
<1>3. times \in [1..added -> Nat] /\ walks \in [Pending -> Nat]
  BY <1>2 DEF Init, Empty
<1>4. TypeOK
  BY <1>1, <1>2, <1>3 DEF TypeOK, Init
<1>5. ClientKept
  BY <1>2 DEF ClientKept
<1>6. WalkInv
  BY <1>2 DEF Init, WalkInv, NothingLost, RepeatsBounded, InOrder, MarkedVisited, StaleCounted,
         RepeatsPaid, WalksPaid, VisitedInOrder, NothingToVisit
<1>. QED
  BY <1>1, <1>4, <1>5, <1>6 DEF ActionsInv

------------------------------------------------------------------------------
(* The register changes, the vector does not.                              *)

\* What WalkInv reads.
walkInvVars == <<vectorVars, walkVars, times, walks, moves>>

LEMMA WalkUntouched ==
  ASSUME WalkInv, UNCHANGED walkInvVars
  PROVE  WalkInv'
<1>1. Pending' = Pending /\ Live' = Live
  BY DEF walkInvVars, vectorVars, Pending, Live
<1>. QED
  BY <1>1 DEF walkInvVars, vectorVars, walkVars, WalkInv, NothingLost, RepeatsBounded, InOrder,
       MarkedVisited, StaleCounted, RepeatsPaid, WalksPaid, VisitedInOrder, NothingToVisit

LEMMA TypesUntouched ==
  ASSUME TypeOK, RegTypeOK', UNCHANGED walkInvVars, orphans' \subseteq Pending
  PROVE  TypeOK'
<1>1. Pending' = Pending
  BY DEF walkInvVars, vectorVars, Pending
<1>. QED
  BY <1>1 DEF walkInvVars, vectorVars, walkVars, TypeOK

\* createClient keeps the clients that are there.
LEMMA CreateKeeps ==
  ASSUME NEW e, CreateClient(e), NEW i \in Ids
  PROVE  i \in Ids' /\ clients'[i] = clients[i]
<1>1. CASE KeepClient(e)
  BY <1>1 DEF KeepClient, regVars, Ids
<1>2. CASE ReuseId(e)
  BY <1>2 DEF ReuseId, Insert, Ids
<1>3. CASE FreshId(e)
  BY <1>3 DEF FreshId, Insert, Ids
<1>. QED
  BY <1>1, <1>2, <1>3 DEF CreateClient

LEMMA JoinInv ==
  ASSUME ActionsInv, NEW e \in Endpoints, Join(e)
  PROVE  ActionsInv'
<1>1. RegInv' /\ RegTypeOK'
  BY CreateClientInv DEF ActionsInv, Join, RegInv
<1>2. UNCHANGED walkInvVars /\ UNCHANGED orphans /\ Pending' = Pending
  BY DEF Join, actionVars, vectorVars, walkVars, historyVars, walkInvVars, Pending
<1>3. TypeOK'
  BY <1>1, <1>2, TypesUntouched DEF ActionsInv, TypeOK
<1>4. ClientKept'
  <2>. SUFFICES ASSUME NEW n \in Pending, n \notin orphans
                PROVE  /\ actions[n].client \in Ids'
                       /\ clients'[actions[n].client] = actions[n].from
    BY <1>2 DEF ClientKept, walkInvVars, vectorVars
  <2>. QED
    BY CreateKeeps DEF Join, ActionsInv, ClientKept
<1>5. WalkInv'
  BY <1>2, WalkUntouched DEF ActionsInv
<1>. QED
  BY <1>1, <1>3, <1>4, <1>5 DEF ActionsInv

LEMMA LeaveInv ==
  ASSUME ActionsInv, NEW e \in Endpoints, Leave(e)
  PROVE  ActionsInv'
<1>1. RegInv' /\ RegTypeOK'
  BY RemoveClientInv DEF ActionsInv, Leave, RegInv
<1>2. /\ UNCHANGED walkInvVars /\ Pending' = Pending
      /\ orphans' = orphans \cup {n \in Pending : actions[n].from = e}
  BY DEF Leave, vectorVars, walkVars, walkInvVars, Pending
<1>3. TypeOK'
  BY <1>1, <1>2, TypesUntouched DEF ActionsInv, TypeOK
<1>4. ClientKept'
  <2>. SUFFICES ASSUME NEW n \in Pending, n \notin orphans'
                PROVE  /\ actions[n].client \in Ids'
                       /\ clients'[actions[n].client] = actions[n].from
    BY <1>2 DEF ClientKept, walkInvVars, vectorVars
  <2>1. /\ actions[n].client \in Ids /\ clients[actions[n].client] = actions[n].from
        /\ actions[n].from # e
    BY <1>2 DEF ActionsInv, ClientKept
  <2>2. clients[IdOf(e)] = e
    BY IdOfRegistered DEF ActionsInv, Leave, RemoveClient
  <2>. QED
    BY <2>1, <2>2 DEF Leave, RemoveClient, Erase, Ids
<1>5. WalkInv'
  BY <1>2, WalkUntouched DEF ActionsInv
<1>. QED
  BY <1>1, <1>3, <1>4, <1>5 DEF ActionsInv

------------------------------------------------------------------------------
(* addPlayerAction.                                                        *)

\* What Add changes, pointwise.
LEMMA AddEffect ==
  ASSUME TypeOK, NEW i \in Ids, NEW kind \in Kinds, Add(i, kind)
  PROVE  /\ added' = added + 1 /\ added + 1 \notin Pending
         /\ Pending' = Pending \cup {added + 1}
         /\ \A n \in Pending : actions'[n] = actions[n]
         /\ actions'[added + 1] = [client |-> i, from |-> clients[i], kind |-> kind, processed |-> FALSE]
         /\ DOMAIN times' = 1..(added + 1) /\ times'[added + 1] = 0
         /\ \A n \in 1..added : times'[n] = times[n]
         /\ DOMAIN walks' = Pending' /\ walks'[added + 1] = 0
         /\ \A n \in Pending : walks'[n] = walks[n]
         /\ UNCHANGED <<regVars, pc, toVisit, orphans>>
<1>1. Pending \subseteq 1..added /\ added \in Nat
  BY DEF TypeOK
<1>2. added + 1 \notin 1..added /\ 1..(added + 1) = 1..added \cup {added + 1}
  BY <1>1
<1>3. DOMAIN times = 1..added /\ DOMAIN walks = Pending
  BY DEF TypeOK
<1>4. /\ added' = added + 1
      /\ UNCHANGED <<regVars, pc, toVisit, orphans>>
  BY DEF Add
<1>5. actions' = Emplace(actions, [x \in {added + 1} |->
        [client |-> i, from |-> clients[i], kind |-> kind, processed |-> FALSE]])
  BY DEF Add
<1>6. times' = Emplace(times, [x \in {added + 1} |-> 0])
  BY DEF Add
<1>7. walks' = Emplace(walks, [x \in {added + 1} |-> 0])
  BY DEF Add
<1>8. /\ Pending' = Pending \cup {added + 1}
      /\ \A n \in Pending : actions'[n] = actions[n]
      /\ actions'[added + 1] = [client |-> i, from |-> clients[i], kind |-> kind, processed |-> FALSE]
  BY <1>1, <1>2, <1>5 DEF Emplace, Pending
<1>9. /\ DOMAIN times' = 1..(added + 1) /\ times'[added + 1] = 0
      /\ \A n \in 1..added : times'[n] = times[n]
  BY <1>2, <1>3, <1>6 DEF Emplace
<1>10. /\ DOMAIN walks' = Pending' /\ walks'[added + 1] = 0
       /\ \A n \in Pending : walks'[n] = walks[n]
  BY <1>1, <1>2, <1>3, <1>7, <1>8 DEF Emplace
<1>. QED
  BY <1>1, <1>2, <1>4, <1>8, <1>9, <1>10

\* A move counts once for the walk that it happens under.
LEMMA MoveCounted ==
  ASSUME ActionsInv, NEW i, NEW kind, Add(i, kind)
  PROVE  /\ capacity' \in Nat /\ stale' \in BOOLEAN /\ moves' \in Nat
         /\ moves' = moves \/ moves' = moves + 1
         /\ pc = "walk" /\ stale' => moves' > 0 /\ (~stale => moves' = moves + 1)
         /\ stale' => moves' > 0
         /\ pc = "walk" /\ ~stale' => ~stale /\ moves' = moves
<1>1. /\ capacity \in Nat /\ stale \in BOOLEAN /\ moves \in Nat
      /\ stale => moves > 0
  BY DEF ActionsInv, TypeOK, WalkInv, StaleCounted
<1>2. CASE Full
  <2>1. Reallocate
    BY <1>2 DEF Add
  <2>2. capacity' \in Nat
    BY <1>1, <2>1 DEF Reallocate
  <2>3. CASE pc \notin {"begin", "walk"}
    BY <1>1, <2>1, <2>2, <2>3 DEF Reallocate
  <2>4. CASE pc \in {"begin", "walk"} /\ stale
    <3>1. stale' = TRUE /\ moves' = moves
      BY <2>1, <2>4 DEF Reallocate
    <3>. QED
      BY <1>1, <2>2, <2>4, <3>1
  <2>5. CASE pc \in {"begin", "walk"} /\ ~stale
    <3>1. stale' = TRUE /\ moves' = moves + 1
      BY <2>1, <2>5 DEF Reallocate
    <3>. QED
      BY <1>1, <2>2, <2>5, <3>1
  <2>. QED
    BY <2>3, <2>4, <2>5
<1>3. CASE ~Full
  <2>1. UNCHANGED <<capacity, stale, moves>>
    BY <1>3 DEF Add
  <2>. QED
    BY <1>1, <2>1
<1>. QED
  BY <1>2, <1>3

LEMMA AddTypes ==
  ASSUME ActionsInv, NEW i \in Ids, NEW kind \in Kinds, Add(i, kind)
  PROVE  TypeOK' /\ RegInv' /\ ClientKept'
<1>. DEFINE new == added + 1
<1>1. /\ added' = new /\ new \notin Pending
      /\ Pending' = Pending \cup {new}
      /\ \A n \in Pending : actions'[n] = actions[n]
      /\ actions'[new] = [client |-> i, from |-> clients[i], kind |-> kind, processed |-> FALSE]
      /\ DOMAIN times' = 1..new /\ times'[new] = 0
      /\ \A n \in 1..added : times'[n] = times[n]
      /\ DOMAIN walks' = Pending' /\ walks'[new] = 0
      /\ \A n \in Pending : walks'[n] = walks[n]
      /\ UNCHANGED <<regVars, pc, toVisit, orphans>>
  BY AddEffect DEF ActionsInv
<1>2. RegInv' /\ RegTypeOK'
  BY <1>1, RegUnchangedInv DEF ActionsInv, RegInv
<1>3. i \in Nat /\ clients[i] \in Endpoints
  BY DEF ActionsInv, RegInv, RegTypeOK, Ids
<1>4. TypeOK'
  <2>1. ASSUME NEW n \in Pending'
        PROVE  actions'[n] \in ActionType
    <3>1. CASE n = new
      <4>1. [client |-> i, from |-> clients[i], kind |-> kind, processed |-> FALSE] \in ActionType
        BY <1>3 DEF ActionType
      <4>. QED
        BY <1>1, <3>1, <4>1
    <3>2. CASE n \in Pending
      BY <1>1, <3>2 DEF ActionsInv, TypeOK
    <3>. QED
      BY <1>1, <3>1, <3>2
  <2>2. new \in Nat /\ Pending' \subseteq 1..new
    BY <1>1 DEF ActionsInv, TypeOK
  <2>3. times' \in [1..new -> Nat] /\ walks' \in [Pending' -> Nat]
    <3>1. times \in [1..added -> Nat] /\ walks \in [Pending -> Nat] /\ added \in Nat
      BY DEF ActionsInv, TypeOK
    <3>2. \A n \in 1..new : times'[n] \in Nat
      BY <1>1, <3>1
    <3>3. \A n \in Pending' : walks'[n] \in Nat
      BY <1>1, <3>1
    <3>4. times' = [n \in 1..new |-> times'[n]] /\ walks' = [n \in Pending' |-> walks'[n]]
      <4>1. /\ times' = Emplace(times, [x \in {new} |-> 0])
            /\ walks' = Emplace(walks, [x \in {new} |-> 0])
        BY DEF Add
      <4>. QED
        BY <1>1, <4>1 DEF Emplace
    <3>. QED
      BY <3>2, <3>3, <3>4
  <2>4. toVisit' \subseteq Pending' /\ orphans' \subseteq Pending'
    BY <1>1 DEF ActionsInv, TypeOK
  <2>5. pc' \in {"idle", "begin", "walk", "wild"}
    BY <1>1 DEF ActionsInv, TypeOK
  <2>. QED
    BY <1>1, <1>2, <2>1, <2>2, <2>3, <2>4, <2>5, MoveCounted DEF TypeOK
<1>5. ClientKept'
  <2>. SUFFICES ASSUME NEW n \in Pending', n \notin orphans'
                PROVE  actions'[n].client \in Ids' /\ clients'[actions'[n].client] = actions'[n].from
    BY DEF ClientKept
  <2>1. Ids' = Ids /\ clients' = clients
    BY <1>1 DEF regVars, Ids
  <2>2. CASE n = new
    BY <1>1, <1>3, <2>1, <2>2
  <2>3. CASE n \in Pending
    <3>1. n \notin orphans
      BY <1>1
    <3>. QED
      BY <1>1, <2>1, <2>3, <3>1 DEF ActionsInv, ClientKept
  <2>. QED
    BY <1>1, <2>2, <2>3
<1>. QED
  BY <1>2, <1>4, <1>5

LEMMA AddWalk ==
  ASSUME ActionsInv, NEW i \in Ids, NEW kind \in Kinds, Add(i, kind)
  PROVE  WalkInv'
<1>. DEFINE new == added + 1
<1>1. /\ added' = new /\ new \notin Pending
      /\ Pending' = Pending \cup {new}
      /\ \A n \in Pending : actions'[n] = actions[n]
      /\ times'[new] = 0
      /\ \A n \in 1..added : times'[n] = times[n]
      /\ walks'[new] = 0
      /\ \A n \in Pending : walks'[n] = walks[n]
      /\ UNCHANGED <<pc, toVisit>>
  BY AddEffect DEF ActionsInv
<1>2. actions'[new].processed = FALSE
  <2>1. actions'[new] = [client |-> i, from |-> clients[i], kind |-> kind, processed |-> FALSE]
    BY AddEffect DEF ActionsInv
  <2>. QED
    BY <2>1
<1>3. /\ moves' \in Nat /\ moves \in Nat
      /\ moves' = moves \/ moves' = moves + 1
      /\ stale' => moves' > 0
  BY MoveCounted DEF ActionsInv, TypeOK
<1>4. /\ added \in Nat /\ 1..new = 1..added \cup {new} /\ new \notin 1..added
      /\ Pending \subseteq 1..added /\ toVisit \subseteq Pending
      /\ \A n \in 1..added : times[n] \in Nat
      /\ \A n \in Pending : walks[n] \in Nat
  BY DEF ActionsInv, TypeOK
<1>5. /\ Live \subseteq Live' /\ Live' \subseteq Live \cup {new}
      /\ Live \subseteq Pending
  BY <1>1 DEF Live
<1>6. \A n \in toVisit : stale' => times[n] + 1 <= moves' /\ (n \in Live => walks[n] <= moves')
  <2>. SUFFICES ASSUME NEW n \in toVisit, stale'
                PROVE  times[n] + 1 <= moves' /\ (n \in Live => walks[n] <= moves')
    OBVIOUS
  <2>1. pc = "walk"
    BY DEF ActionsInv, WalkInv, NothingToVisit
  <2>2. CASE stale
    BY <1>3, <1>4, <2>2 DEF ActionsInv, WalkInv, RepeatsPaid, WalksPaid
  <2>3. CASE ~stale
    <3>1. moves' = moves + 1
      BY <2>1, <2>3, MoveCounted
    <3>2. ~actions[n].processed
      BY <1>4 DEF ActionsInv, WalkInv, MarkedVisited
    <3>3. times[n] <= moves
      BY <1>4, <3>2 DEF ActionsInv, WalkInv, RepeatsPaid
    <3>4. n \in Live => walks[n] <= moves + 1
      BY DEF ActionsInv, WalkInv, WalksPaid
    <3>. QED
      BY <1>3, <1>4, <3>1, <3>3, <3>4
  <2>. QED
    BY <2>2, <2>3
<1>7. NothingLost'
  BY <1>1, <1>4 DEF ActionsInv, WalkInv, NothingLost
<1>8. RepeatsBounded'
  BY <1>1, <1>3, <1>4 DEF ActionsInv, WalkInv, RepeatsBounded
<1>9. InOrder'
  <2>. SUFFICES ASSUME moves' = 0, NEW k \in 1..new, NEW n \in 1..new,
                       k < n, times'[n] > 0, k \in Live'
                PROVE  times'[k] > 0
    BY <1>1 DEF InOrder
  <2>1. n \in 1..added /\ moves = 0 /\ times[n] > 0
    BY <1>1, <1>3, <1>4
  <2>2. k \in 1..added /\ k \in Live
    BY <1>4, <1>5, <2>1
  <2>. QED
    BY <1>1, <2>1, <2>2 DEF ActionsInv, WalkInv, InOrder
<1>10. MarkedVisited'
  BY <1>1, <1>2, <1>4 DEF ActionsInv, WalkInv, MarkedVisited
<1>11. StaleCounted'
  BY <1>3 DEF StaleCounted
<1>12. RepeatsPaid'
  <2>1. ASSUME NEW n \in Pending', ~actions'[n].processed
        PROVE  times'[n] <= moves'
    <3>1. CASE n = new
      BY <1>1, <1>3, <3>1
    <3>2. CASE n \in Pending
      <4>1. ~actions[n].processed /\ times'[n] = times[n] /\ times[n] \in Nat
        BY <1>1, <1>4, <2>1, <3>2
      <4>2. times[n] <= moves
        BY <3>2, <4>1 DEF ActionsInv, WalkInv, RepeatsPaid
      <4>. QED
        BY <1>3, <4>1, <4>2
    <3>. QED
      BY <1>1, <2>1, <3>1, <3>2
  <2>2. \A n \in toVisit' : stale' => times'[n] + 1 <= moves'
    BY <1>1, <1>4, <1>6
  <2>. QED
    BY <2>1, <2>2 DEF RepeatsPaid
<1>13. WalksPaid'
  <2>1. ASSUME NEW n \in Live', n \notin toVisit', ~actions'[n].processed
        PROVE  walks'[n] <= moves'
    <3>1. CASE n = new
      BY <1>1, <1>3, <3>1
    <3>2. CASE n \in Live
      BY <1>1, <1>3, <1>4, <1>5, <2>1, <3>2 DEF ActionsInv, WalkInv, WalksPaid
    <3>. QED
      BY <1>5, <3>1, <3>2
  <2>2. ASSUME NEW n \in Live', n \in toVisit'
        PROVE  walks'[n] <= moves' + 1 /\ (stale' => walks'[n] <= moves')
    <3>1. n \in Live /\ n \in toVisit /\ walks'[n] = walks[n] /\ walks[n] \in Nat
      BY <1>1, <1>4, <1>5, <2>2
    <3>2. walks[n] <= moves + 1
      BY <3>1 DEF ActionsInv, WalkInv, WalksPaid
    <3>. QED
      BY <1>3, <1>6, <3>1, <3>2
  <2>. QED
    BY <2>1, <2>2 DEF WalksPaid
<1>14. VisitedInOrder'
  <2>. SUFFICES ASSUME moves' = 0, NEW n \in toVisit, NEW k \in Live', k \notin toVisit, k < n
                PROVE  times'[k] > 0
    BY <1>1 DEF VisitedInOrder
  <2>1. n \in 1..added
    BY <1>4
  <2>2. k \in Live /\ moves = 0
    BY <1>3, <1>4, <1>5, <2>1
  <2>. QED
    BY <1>1, <1>4, <1>5, <2>2 DEF ActionsInv, WalkInv, VisitedInOrder
<1>15. NothingToVisit'
  BY <1>1 DEF ActionsInv, WalkInv, NothingToVisit
<1>. QED
  BY <1>7, <1>8, <1>9, <1>10, <1>11, <1>12, <1>13, <1>14, <1>15 DEF WalkInv

------------------------------------------------------------------------------
(* processPlayerActions.                                                   *)

LEMMA ReadBeginInv ==
  ASSUME ActionsInv, ReadBegin
  PROVE  ActionsInv'
<1>1. /\ UNCHANGED <<regVars, vectorVars, toVisit, stale, historyVars>>
      /\ pc = "idle" /\ pc' = "begin"
  BY DEF ReadBegin
<1>2. Pending' = Pending /\ Live' = Live /\ Ids' = Ids
  BY <1>1 DEF vectorVars, regVars, Pending, Live, Ids
<1>3. RegInv' /\ RegTypeOK'
  BY <1>1, RegUnchangedInv DEF ActionsInv, RegInv
<1>4. TypeOK'
  BY <1>1, <1>2, <1>3 DEF ActionsInv, TypeOK, vectorVars, historyVars
<1>5. ClientKept'
  BY <1>1, <1>2 DEF ActionsInv, ClientKept, regVars, vectorVars, historyVars
<1>6. NothingLost' /\ RepeatsBounded' /\ InOrder' /\ StaleCounted'
  BY <1>1, <1>2 DEF ActionsInv, WalkInv, vectorVars, historyVars, NothingLost, RepeatsBounded,
     InOrder, StaleCounted
<1>7. MarkedVisited' /\ RepeatsPaid' /\ WalksPaid' /\ VisitedInOrder' /\ NothingToVisit'
  BY <1>1, <1>2 DEF ActionsInv, WalkInv, vectorVars, historyVars, MarkedVisited, RepeatsPaid,
     WalksPaid, VisitedInOrder, NothingToVisit
<1>. QED
  BY <1>3, <1>4, <1>5, <1>6, <1>7 DEF ActionsInv, WalkInv

LEMMA ReadEndInv ==
  ASSUME ActionsInv, ReadEnd
  PROVE  ActionsInv'
<1>1. /\ UNCHANGED <<regVars, vectorVars, stale, times, moves, orphans>>
      /\ pc = "begin" /\ toVisit = {}
  BY DEF ReadEnd, ActionsInv, WalkInv, NothingToVisit
<1>2. Pending' = Pending /\ Live' = Live /\ Ids' = Ids /\ Live \subseteq Pending
  BY <1>1 DEF vectorVars, regVars, Pending, Live, Ids
<1>3. RegInv' /\ RegTypeOK'
  BY <1>1, RegUnchangedInv DEF ActionsInv, RegInv
<1>4. ClientKept'
  BY <1>1, <1>2 DEF ActionsInv, ClientKept, regVars, vectorVars
<1>5. NothingLost' /\ RepeatsBounded' /\ InOrder' /\ StaleCounted'
  BY <1>1, <1>2 DEF ActionsInv, WalkInv, vectorVars, NothingLost, RepeatsBounded, InOrder,
     StaleCounted
<1>6. \A n \in Pending : ~actions[n].processed
  BY <1>1 DEF ActionsInv, WalkInv, MarkedVisited
<1>7. CASE stale
  <2>1. pc' = "wild" /\ UNCHANGED <<toVisit, walks>>
    BY <1>7 DEF ReadEnd
  <2>2. TypeOK'
    BY <1>1, <1>2, <1>3, <2>1 DEF ActionsInv, TypeOK, vectorVars
  <2>3. MarkedVisited' /\ RepeatsPaid' /\ WalksPaid' /\ VisitedInOrder' /\ NothingToVisit'
    BY <1>1, <1>2, <1>6, <2>1 DEF ActionsInv, WalkInv, vectorVars, MarkedVisited, RepeatsPaid,
       WalksPaid, VisitedInOrder, NothingToVisit
  <2>. QED
    BY <1>3, <1>4, <1>5, <2>2, <2>3 DEF ActionsInv, WalkInv
<1>8. CASE ~stale
  <2>1. /\ pc' = "walk" /\ toVisit' = Pending
        /\ walks' = [n \in Pending |-> IF n \in Live THEN walks[n] + 1 ELSE walks[n]]
    BY <1>8 DEF ReadEnd
  <2>2. TypeOK'
    <3>1. walks' \in [Pending -> Nat]
      BY <2>1 DEF ActionsInv, TypeOK
    <3>. QED
      BY <1>1, <1>2, <1>3, <2>1, <3>1 DEF ActionsInv, TypeOK, vectorVars
  <2>3. MarkedVisited' /\ RepeatsPaid'
    BY <1>1, <1>2, <1>6, <1>8, <2>1 DEF ActionsInv, WalkInv, vectorVars, MarkedVisited, RepeatsPaid
  <2>4. VisitedInOrder' /\ NothingToVisit'
    BY <1>1, <1>2, <2>1 DEF VisitedInOrder, NothingToVisit
  <2>5. WalksPaid'
    <3>1. \A n \in Live : walks[n] <= moves /\ walks'[n] = walks[n] + 1
      BY <1>1, <1>2, <1>6, <2>1 DEF ActionsInv, WalkInv, WalksPaid
    <3>2. \A n \in Live : walks[n] \in Nat /\ moves \in Nat
      BY <1>2 DEF ActionsInv, TypeOK
    <3>3. \A n \in Live : walks'[n] <= moves + 1
      BY <3>1, <3>2
    <3>. QED
      BY <1>1, <1>2, <1>8, <2>1, <3>3 DEF WalksPaid
  <2>. QED
    BY <1>3, <1>4, <1>5, <2>2, <2>3, <2>4, <2>5 DEF ActionsInv, WalkInv
<1>. QED
  BY <1>7, <1>8

\* One element of the walk, executed or not, marked or not.
LEMMA VisitInv ==
  ASSUME ActionsInv, Visit
  PROVE  ActionsInv'
<1>1. /\ pc = "walk"
      /\ UNCHANGED <<regVars, added, capacity, pc, stale, walks, moves, orphans>>
  BY DEF Visit
<1>2. PICK n \in toVisit :
        /\ \A k \in toVisit : n <= k
        /\ toVisit' = toVisit \ {n}
        /\ \/ n \notin Live /\ UNCHANGED <<times, actions>>
           \/ n \in Live /\ ~stale /\ Execute(n) /\ Mark(n)
           \/ n \in Live /\ stale /\ Execute(n) /\ UNCHANGED actions
           \/ stale /\ UNCHANGED <<times, actions>>
  BY DEF Visit, NextToVisit
<1>3. /\ moves \in Nat /\ added \in Nat /\ Pending \subseteq 1..added /\ toVisit \subseteq Pending
      /\ times \in [1..added -> Nat] /\ walks \in [Pending -> Nat] /\ Live \subseteq Pending
      /\ \A k \in Pending : actions[k] \in ActionType
  BY DEF ActionsInv, TypeOK, Live
<1>4. /\ n \in Pending /\ n \in 1..added /\ times[n] \in Nat
      /\ ~actions[n].processed /\ times[n] <= moves /\ (stale => times[n] + 1 <= moves)
  BY <1>2, <1>3 DEF ActionsInv, WalkInv, MarkedVisited, RepeatsPaid
\* What the four cases have in common.
<1>5. /\ Pending' = Pending
      /\ \A k \in Pending : k # n => actions'[k] = actions[k]
      /\ actions'[n] \in ActionType
      /\ actions'[n].kind = actions[n].kind
      /\ actions'[n].client = actions[n].client /\ actions'[n].from = actions[n].from
      /\ actions'[n].processed => times'[n] > 0
      /\ n \in Live /\ ~actions'[n].processed => stale
  <2>1. CASE UNCHANGED actions /\ (n \notin Live \/ stale)
    BY <1>3, <1>4, <2>1 DEF Pending
  <2>2. CASE n \in Live /\ ~stale /\ Execute(n) /\ Mark(n)
    <3>1. actions' = [actions EXCEPT ![n].processed = TRUE]
      BY <2>2 DEF Mark
    <3>2. times'[n] = times[n] + 1
      BY <1>3, <1>4, <2>2 DEF Execute
    <3>3. actions'[n] = [actions[n] EXCEPT !.processed = TRUE]
      BY <1>4, <3>1 DEF Pending
    <3>4. actions[n] \in ActionType
      BY <1>3, <1>4
    <3>5. actions'[n] \in ActionType /\ actions'[n].processed = TRUE
      BY <3>3, <3>4 DEF ActionType
    <3>6. /\ actions'[n].kind = actions[n].kind
          /\ actions'[n].client = actions[n].client /\ actions'[n].from = actions[n].from
      BY <3>3, <3>4 DEF ActionType
    <3>7. Pending' = Pending /\ \A k \in Pending : k # n => actions'[k] = actions[k]
      BY <3>1 DEF Pending
    <3>. QED
      BY <1>4, <3>2, <3>5, <3>6, <3>7
  <2>. QED
    BY <1>2, <2>1, <2>2
<1>6. /\ times' \in [1..added -> Nat]
      /\ \A k \in 1..added : k # n => times'[k] = times[k]
      /\ times'[n] = times[n] \/ times'[n] = times[n] + 1
      /\ n \in Live /\ ~stale => times'[n] = times[n] + 1
  BY <1>2, <1>3, <1>4 DEF Execute
<1>7. Live' = Live /\ Ids' = Ids
  BY <1>1, <1>5 DEF Live, regVars, Ids
<1>8. RegInv' /\ RegTypeOK'
  BY <1>1, RegUnchangedInv DEF ActionsInv, RegInv
<1>9. TypeOK'
  <2>1. \A k \in Pending' : actions'[k] \in ActionType
    BY <1>3, <1>5
  <2>2. toVisit' \subseteq Pending'
    BY <1>2, <1>3, <1>5
  <2>. QED
    BY <1>1, <1>5, <1>6, <1>8, <2>1, <2>2 DEF ActionsInv, TypeOK
<1>10. ClientKept'
  BY <1>1, <1>5, <1>7 DEF ActionsInv, ClientKept, regVars
<1>11. NothingLost'
  BY <1>1, <1>3, <1>4, <1>5, <1>6 DEF ActionsInv, WalkInv, NothingLost
<1>12. RepeatsBounded'
  BY <1>1, <1>3, <1>4, <1>6 DEF ActionsInv, WalkInv, RepeatsBounded
<1>13. VisitedInOrder' /\ InOrder'
  <2>. SUFFICES ASSUME moves = 0 PROVE VisitedInOrder' /\ InOrder'
    BY <1>1 DEF VisitedInOrder, InOrder
  <2>1. ~stale
    BY <1>3 DEF ActionsInv, WalkInv, StaleCounted
  <2>2. \A k \in 1..added : times[k] > 0 => times'[k] > 0
    BY <1>3, <1>4, <1>6
  <2>3. n \in Live => times'[n] > 0
    BY <1>4, <1>6, <2>1
  <2>4. \A k \in Live : k \notin toVisit /\ k < n => times[k] > 0
    BY DEF ActionsInv, WalkInv, VisitedInOrder
  <2>5. \A k \in Live : k < n => times[k] > 0
    <3>1. \A k \in toVisit : k \in Int /\ ~(k < n)
      BY <1>2, <1>3, <1>4
    <3>. QED
      BY <2>4, <3>1
  <2>6. VisitedInOrder'
    <3>. SUFFICES ASSUME NEW m \in toVisit', NEW k \in Live, k \notin toVisit', k < m
                  PROVE  times'[k] > 0
      BY <1>7 DEF VisitedInOrder
    <3>1. CASE k = n
      BY <2>3, <3>1
    <3>2. CASE k # n
      <4>1. k \notin toVisit /\ m \in toVisit
        BY <1>2, <3>2
      <4>2. times[k] > 0
        BY <4>1 DEF ActionsInv, WalkInv, VisitedInOrder
      <4>. QED
        BY <1>3, <2>2, <4>2
    <3>. QED
      BY <3>1, <3>2
  <2>7. InOrder'
    <3>. SUFFICES ASSUME NEW k \in 1..added, NEW m \in 1..added, k < m, times'[m] > 0, k \in Live
                  PROVE  times'[k] > 0
      BY <1>1, <1>7 DEF InOrder
    <3>1. CASE m = n
      BY <2>2, <2>5, <3>1
    <3>2. CASE m # n
      <4>1. times[m] > 0
        BY <1>6, <3>2
      <4>. QED
        BY <2>2, <4>1 DEF ActionsInv, WalkInv, InOrder
    <3>. QED
      BY <3>1, <3>2
  <2>. QED
    BY <2>6, <2>7
<1>14. MarkedVisited'
  <2>1. \A k \in Pending : k # n /\ actions'[k].processed =>
          pc = "walk" /\ k \notin toVisit /\ times'[k] > 0
    BY <1>3, <1>5, <1>6 DEF ActionsInv, WalkInv, MarkedVisited
  <2>. QED
    BY <1>1, <1>2, <1>5, <2>1 DEF MarkedVisited
<1>15. RepeatsPaid'
  <2>1. ~actions'[n].processed => times'[n] <= moves
    BY <1>2, <1>3, <1>4, <1>5, <1>6
  <2>2. \A k \in Pending : k # n /\ ~actions'[k].processed => times'[k] <= moves
    BY <1>3, <1>5, <1>6 DEF ActionsInv, WalkInv, RepeatsPaid
  <2>3. \A k \in toVisit : k # n /\ stale => times'[k] + 1 <= moves
    BY <1>3, <1>6 DEF ActionsInv, WalkInv, RepeatsPaid
  <2>. QED
    BY <1>1, <1>2, <1>5, <2>1, <2>2, <2>3 DEF RepeatsPaid
<1>16. WalksPaid'
  <2>1. n \in Live /\ ~actions'[n].processed => walks[n] <= moves
    BY <1>2, <1>5 DEF ActionsInv, WalkInv, WalksPaid
  <2>2. \A k \in Live : k # n /\ k \notin toVisit /\ ~actions'[k].processed => walks[k] <= moves
    BY <1>3, <1>5 DEF ActionsInv, WalkInv, WalksPaid
  <2>3. \A k \in Live : k \in toVisit =>
          walks[k] <= moves + 1 /\ (stale => walks[k] <= moves)
    BY DEF ActionsInv, WalkInv, WalksPaid
  <2>. QED
    BY <1>1, <1>2, <1>7, <2>1, <2>2, <2>3 DEF WalksPaid
<1>17. StaleCounted' /\ NothingToVisit'
  BY <1>1 DEF ActionsInv, WalkInv, StaleCounted, NothingToVisit
<1>. QED
  BY <1>8, <1>9, <1>10, <1>11, <1>12, <1>13, <1>14, <1>15, <1>16, <1>17 DEF ActionsInv, WalkInv

\* What is erased was executed; the rest is untouched.
LEMMA DeleteInv ==
  ASSUME ActionsInv, DeletePlayerAction
  PROVE  ActionsInv'
<1>1. /\ pc = "walk" /\ toVisit = {} /\ pc' = "idle" /\ stale' = FALSE
      /\ UNCHANGED <<regVars, added, capacity, toVisit, times, moves>>
      /\ orphans' = orphans \ Processed
  BY DEF DeletePlayerAction
<1>2. /\ Pending' = Pending \ Processed
      /\ \A n \in Pending' : actions'[n] = actions[n]
  BY DEF DeletePlayerAction, Without, Pending, Processed
<1>3. walks' \in [Pending' -> Nat] /\ \A n \in Pending' : walks'[n] = walks[n]
  <2>1. walks' = [n \in Pending \ Processed |-> walks[n]]
    BY DEF ActionsInv, TypeOK, DeletePlayerAction, Without
  <2>2. walks \in [Pending -> Nat]
    BY DEF ActionsInv, TypeOK
  <2>. QED
    BY <1>2, <2>1, <2>2
<1>4. \A n \in Pending' : n \in Pending /\ ~actions[n].processed
  BY <1>2 DEF Processed
<1>5. \A n \in Pending : n \notin Pending' => times[n] > 0
  BY <1>2 DEF Processed, ActionsInv, WalkInv, MarkedVisited
<1>6. Live' \subseteq Live
  BY <1>2, <1>4 DEF Live
<1>7. RegInv' /\ RegTypeOK'
  BY <1>1, RegUnchangedInv DEF ActionsInv, RegInv
<1>8. TypeOK'
  <2>1. /\ \A n \in Pending' : actions'[n] \in ActionType
        /\ Pending' \subseteq 1..added /\ orphans' \subseteq Pending'
    BY <1>1, <1>2 DEF ActionsInv, TypeOK
  <2>. QED
    BY <1>1, <1>3, <1>7, <2>1 DEF ActionsInv, TypeOK
<1>9. ClientKept'
  BY <1>1, <1>2 DEF ActionsInv, ClientKept, regVars, Ids
<1>10. NothingLost'
  BY <1>1, <1>5 DEF ActionsInv, WalkInv, NothingLost
<1>11. RepeatsBounded' /\ InOrder'
  BY <1>1, <1>6 DEF ActionsInv, WalkInv, RepeatsBounded, InOrder
<1>12. MarkedVisited' /\ StaleCounted' /\ NothingToVisit' /\ VisitedInOrder'
  BY <1>1, <1>2, <1>4 DEF MarkedVisited, StaleCounted, NothingToVisit, VisitedInOrder
<1>13. RepeatsPaid'
  BY <1>1, <1>2, <1>4 DEF ActionsInv, WalkInv, RepeatsPaid
<1>14. WalksPaid'
  <2>1. \A n \in Live' : n \in Live /\ n \in Pending' /\ walks'[n] = walks[n]
    BY <1>3, <1>6 DEF Live
  <2>. QED
    BY <1>1, <1>4, <2>1 DEF ActionsInv, WalkInv, WalksPaid
<1>. QED
  BY <1>7, <1>8, <1>9, <1>10, <1>11, <1>12, <1>13, <1>14 DEF ActionsInv, WalkInv

------------------------------------------------------------------------------

LEMMA NextInv == ActionsInv /\ [Next]_vars => ActionsInv'
<1>. SUFFICES ASSUME ActionsInv, [Next]_vars PROVE ActionsInv'
  OBVIOUS
<1>1. ASSUME NEW e \in Endpoints, Join(e) PROVE ActionsInv'
  BY <1>1, JoinInv
<1>2. ASSUME NEW e \in Endpoints, Leave(e) PROVE ActionsInv'
  BY <1>2, LeaveInv
<1>3. ASSUME NEW i \in Ids, NEW kind \in Kinds, Add(i, kind) PROVE ActionsInv'
  BY <1>3, AddTypes, AddWalk DEF ActionsInv
<1>4. CASE ProcessPlayerActions
  BY <1>4, ReadBeginInv, ReadEndInv, VisitInv, DeleteInv DEF ProcessPlayerActions
<1>5. CASE UNCHANGED vars
  <2>1. /\ UNCHANGED walkInvVars /\ UNCHANGED <<regVars, orphans>> /\ Pending' = Pending
    BY <1>5 DEF vars, actionVars, historyVars, walkInvVars, Pending, vectorVars
  <2>2. RegInv' /\ RegTypeOK'
    BY <2>1, RegUnchangedInv DEF ActionsInv, RegInv
  <2>3. TypeOK'
    BY <2>1, <2>2, TypesUntouched DEF ActionsInv, TypeOK
  <2>4. ClientKept'
    BY <2>1 DEF ActionsInv, ClientKept, regVars, walkInvVars, vectorVars, Ids
  <2>. QED
    BY <2>1, <2>2, <2>3, <2>4, WalkUntouched DEF ActionsInv
<1>. QED
  BY <1>1, <1>2, <1>3, <1>4, <1>5 DEF Next, Handle

LEMMA ActionsInvariant == Spec => []ActionsInv
  BY ActionsInitInv, NextInv, PTL DEF Spec

\* For any clients and any number of inputs, the types of all variables
\* (GameState.cpp:47-74).
THEOREM ActionsTypes == Spec => []TypeOK
<1>1. ActionsInv => TypeOK
  BY DEF ActionsInv
<1>. QED
  BY <1>1, ActionsInvariant, PTL

\* No input is erased before it was executed, whatever the handler thread
\* appends during a walk (GameState.cpp:69-74).
THEOREM ActionsNothingLost == Spec => []NothingLost
<1>1. ActionsInv => NothingLost
  BY DEF ActionsInv, WalkInv
<1>. QED
  BY <1>1, ActionsInvariant, PTL

\* An input is executed once, and once more at most for each walk that the
\* vector moved under (GameState.cpp:53-64).
THEOREM ActionsRepeats == Spec => []RepeatsBounded
<1>1. ActionsInv => RepeatsBounded
  BY DEF ActionsInv, WalkInv
<1>. QED
  BY <1>1, ActionsInvariant, PTL

\* While the vector does not move under a walk, inputs are executed in the
\* order they came in (GameState.cpp:53-64).
THEOREM ActionsInOrder == Spec => []InOrder
<1>1. ActionsInv => InOrder
  BY DEF ActionsInv, WalkInv
<1>. QED
  BY <1>1, ActionsInvariant, PTL

\* An input that the game has a branch for is met by one walk, and by one more
\* for each walk that the vector moved under (GameState.cpp:52-74).
THEOREM ActionsNoLeftovers == Spec => []NoLeftovers
<1>1. ActionsInv => NoLeftovers
  <2>. SUFFICES ASSUME ActionsInv, NEW n \in Live, ~actions[n].processed
                PROVE  walks[n] <= 1 + moves
    BY DEF NoLeftovers
  <2>1. walks[n] \in Nat /\ moves \in Nat
    BY DEF ActionsInv, TypeOK, Live
  <2>2. walks[n] <= moves \/ walks[n] <= moves + 1
    BY DEF ActionsInv, WalkInv, WalksPaid
  <2>. QED
    BY <2>1, <2>2
<1>. QED
  BY <1>1, ActionsInvariant, PTL

\* The id of a pending input is still held by the client the handler found
\* for it, until that client leaves (PacketHandler.cpp:247-256).
THEOREM ActionsClientKept == Spec => []ClientKept
<1>1. ActionsInv => ClientKept
  BY DEF ActionsInv
<1>. QED
  BY <1>1, ActionsInvariant, PTL

\* With inputs queued and walked in between, the register still implements the
\* table of seats: no input changes who holds an id (Server.cpp:124-178).
THEOREM ActionsImplementTable == Spec => ImplementsTable
<1>1. Init => Table!Init
  BY TableInit DEF Init
<1>2. ActionsInv /\ [Next]_vars => [Table!Next]_(Table!vars)
  <2>. SUFFICES ASSUME ActionsInv, [Next]_vars PROVE [Table!Next]_(Table!vars)
    OBVIOUS
  <2>1. RegInv
    BY DEF ActionsInv
  <2>2. ASSUME NEW e \in Endpoints, Join(e) PROVE [Table!Next]_(Table!vars)
    BY <2>1, <2>2, CreateClientJoins DEF Join, Table!Next
  <2>3. ASSUME NEW e \in Endpoints, Leave(e) PROVE [Table!Next]_(Table!vars)
    BY <2>1, <2>3, RemoveClientLeaves DEF Leave, Table!Next
  <2>4. CASE UNCHANGED regVars
    BY <2>4 DEF regVars, Table!vars
  <2>5. ASSUME NEW i \in Ids, NEW kind \in Kinds, Add(i, kind)
        PROVE  UNCHANGED regVars
    BY <2>5 DEF Add
  <2>6. ASSUME ProcessPlayerActions PROVE UNCHANGED regVars
    BY <2>6 DEF ProcessPlayerActions, ReadBegin, ReadEnd, Visit, DeletePlayerAction
  <2>7. ASSUME UNCHANGED vars PROVE UNCHANGED regVars
    BY <2>7 DEF vars
  <2>. QED
    BY <2>2, <2>3, <2>4, <2>5, <2>6, <2>7 DEF Next, Handle
<1>. QED
  BY <1>1, <1>2, ActionsInvariant, PTL DEF Spec, ImplementsTable, Table!Spec
=============================================================================
