--------------------------- MODULE FrameFeedProofs ---------------------------
(***************************************************************************)
(* The feed, for any clients, any game and any number of game threads.     *)
(***************************************************************************)
EXTENDS FrameFeed, FiniteSetTheorems, TLAPS

Maps == UNION {[D -> Positions] : D \in SUBSET Nat}
Messages == [id : Nat, created : Maps, deleted : SUBSET Nat, changed : Maps]

\* The numbers in engineFrames have no gap, and no thread is ahead of them.
NoThreadAhead ==
  \A t \in DOMAIN frameId : frameId[t] <= Cardinality(DOMAIN engineFrames)

QueueIds ==
  \A k \in 1..Len(sendQueue) : DOMAIN sendQueue[k].created \subseteq 0..(idToSet - 1)

Typed ==
  /\ TypeOK
  /\ QueueIds
  /\ sendQueue \in Seq(Messages)
  /\ newest \in [created : Maps, deleted : SUBSET Nat]
  /\ IsFiniteSet(DOMAIN engineFrames)
  /\ NoThreadAhead

LEMMA MapsIntro ==
  ASSUME NEW D \in SUBSET Nat, NEW f \in [D -> Positions]
  PROVE  f \in Maps
  BY DEF Maps

LEMMA MapsElim ==
  ASSUME NEW f \in Maps
  PROVE  /\ DOMAIN f \subseteq Nat
         /\ f \in [DOMAIN f -> Positions]
  BY DEF Maps

LEMMA EmptyMap == Empty \in Maps /\ DOMAIN Empty = {}
<1>1. Empty \in [{} -> Positions]
  BY DEF Empty
<1>. QED
  BY <1>1, MapsIntro

LEMMA EmplaceMaps ==
  ASSUME NEW f \in Maps, NEW g \in Maps
  PROVE  Emplace(f, g) \in Maps
<1>1. Emplace(f, g) \in [DOMAIN f \cup DOMAIN g -> Positions]
  BY MapsElim DEF Emplace
<1>2. DOMAIN f \cup DOMAIN g \in SUBSET Nat
  BY MapsElim
<1>. QED
  BY <1>1, <1>2, MapsIntro

\* The frames are numbered from 0 to NewestId.
LEMMA FrameCount ==
  ASSUME TypeOK, IsFiniteSet(DOMAIN engineFrames)
  PROVE  /\ NewestId \in Int /\ NewestId >= -1
         /\ DOMAIN engineFrames = 0..NewestId
         /\ Cardinality(DOMAIN engineFrames) = NewestId + 1
         /\ Unsent => NewestId \in Nat /\ NewestId \in DOMAIN engineFrames
                      /\ engineFrames[NewestId] = FALSE
<1>1. DOMAIN engineFrames = 0..NewestId
  BY DEF TypeOK, FrameTypeOK
<1>2. Cardinality(DOMAIN engineFrames) \in Nat
  BY FS_CardinalityType
<1>3. NewestId \in Int /\ NewestId >= -1 /\ Cardinality(DOMAIN engineFrames) = NewestId + 1
  BY <1>2 DEF NewestId
<1>4. ASSUME Unsent PROVE NewestId \in DOMAIN engineFrames
  <2>1. DOMAIN engineFrames # {}
    BY <1>4, EmptyMap DEF Unsent, TypeOK, FrameTypeOK, Empty
  <2>. QED
    BY <1>1, <1>3, <2>1
<1>5. \A i \in DOMAIN engineFrames : engineFrames[i] \in BOOLEAN
  BY DEF TypeOK, FrameTypeOK
<1>. QED
  BY <1>1, <1>3, <1>4, <1>5 DEF Unsent

LEMMA InitTyped == Init => Typed
<1>. SUFFICES ASSUME Init PROVE Typed
  OBVIOUS
<1>1. /\ DOMAIN entities = {} /\ DOMAIN engineFrames = {} /\ DOMAIN lastKnown = {}
      /\ \A e \in Endpoints : DOMAIN shown[e] = {}
      /\ DOMAIN newest.created = {} /\ newest.deleted = {}
  BY EmptyMap DEF Init, NoInfos
<1>2. IsFiniteSet(DOMAIN engineFrames) /\ NewestId = -1
  BY <1>1, FS_EmptySet DEF NewestId
<1>3. engineFrames \in [0..NewestId -> BOOLEAN]
  BY <1>1, <1>2 DEF Init, Empty
<1>4. newest \in [created : Maps, deleted : SUBSET Nat]
  BY EmptyMap DEF Init, NoInfos
<1>5. lastClientCount \in 0..Cardinality(Endpoints)
  BY FeedAssumption, FS_CardinalityType DEF Init
<1>6. frameId \in Seq(Nat) /\ sendQueue \in Seq(Messages) /\ DOMAIN frameId = {}
  BY DEF Init
<1>7. GameTypeOK
  BY <1>1, <1>6, FeedAssumption DEF Init, GameTypeOK
<1>8. FrameTypeOK
  BY <1>1, <1>3 DEF Init, FrameTypeOK
<1>9. PollTypeOK
  BY <1>1, <1>5 DEF Init, PollTypeOK
<1>10. ClientTypeOK
  BY <1>1 DEF Init, ClientTypeOK
<1>. QED
  BY <1>2, <1>4, <1>6, <1>7, <1>8, <1>9, <1>10
     DEF Init, Typed, TypeOK, NoThreadAhead, QueueIds

------------------------------------------------------------------------------
(* A frame.                                                                *)

Infos == [created : Maps, deleted : SUBSET Nat]

LEMMA GameFrameFacts ==
  ASSUME Typed, NEW t, GameFrame(t)
  PROVE  /\ t \in DOMAIN frameId
         /\ frameId' = [frameId EXCEPT ![t] = @ + 1]
         /\ idToSet' \in idToSet..MaxEntities
         /\ DOMAIN entities' \subseteq 0..(idToSet' - 1)
         /\ \A i \in DOMAIN entities' :
               entities'[i].kind \in Kinds /\ entities'[i].pos \in Positions
         /\ \E infos \in Infos :
               /\ Store(frameId[t], infos)
               /\ DOMAIN infos.created \subseteq idToSet..(idToSet' - 1)
               /\ infos.deleted \subseteq 0..(idToSet' - 1)
               /\ infos.deleted \subseteq DOMAIN entities \cup DOMAIN infos.created
               /\ DOMAIN entities' = (DOMAIN entities \cup DOMAIN infos.created) \ infos.deleted
<1>1. PICK k \in 0..(MaxEntities - idToSet) :
        LET new == idToSet .. (idToSet + k - 1)
            all == DOMAIN entities \cup new
        IN \E kind \in [new -> Kinds], born \in [new -> Positions], gone \in SUBSET all :
           \E pos \in [all \ gone -> Positions] :
              /\ entities' = [i \in all \ gone |->
                    [kind |-> IF i \in new THEN kind[i] ELSE entities[i].kind,
                     pos |-> pos[i]]]
              /\ idToSet' = idToSet + k
              /\ Store(frameId[t], [created |-> born, deleted |-> gone])
  BY DEF GameFrame, NewIds
<1> DEFINE new == idToSet .. (idToSet + k - 1)
           all == DOMAIN entities \cup new
<1>2. PICK kind \in [new -> Kinds], born \in [new -> Positions], gone \in SUBSET all :
        \E pos \in [all \ gone -> Positions] :
              /\ entities' = [i \in all \ gone |->
                    [kind |-> IF i \in new THEN kind[i] ELSE entities[i].kind,
                     pos |-> pos[i]]]
              /\ idToSet' = idToSet + k
              /\ Store(frameId[t], [created |-> born, deleted |-> gone])
  BY <1>1
<1>3. PICK pos \in [all \ gone -> Positions] :
              /\ entities' = [i \in all \ gone |->
                    [kind |-> IF i \in new THEN kind[i] ELSE entities[i].kind,
                     pos |-> pos[i]]]
              /\ idToSet' = idToSet + k
              /\ Store(frameId[t], [created |-> born, deleted |-> gone])
  BY <1>2
<1>4. /\ idToSet \in 0..MaxEntities /\ MaxEntities \in Nat /\ k \in Nat
      /\ idToSet + k <= MaxEntities
      /\ DOMAIN entities \subseteq 0..(idToSet - 1)
  BY FeedAssumption DEF Typed, TypeOK, GameTypeOK
<1>5. /\ new \subseteq idToSet..(idToSet' - 1)
      /\ idToSet' \in idToSet..MaxEntities
  BY <1>3, <1>4
<1>6. all \subseteq 0..(idToSet' - 1)
  BY <1>3, <1>4
<1>7. /\ DOMAIN entities' \subseteq all
      /\ \A i \in DOMAIN entities' :
            entities'[i].kind \in Kinds /\ entities'[i].pos \in Positions
  <2>1. \A i \in DOMAIN entities : entities[i].kind \in Kinds
    BY DEF Typed, TypeOK, GameTypeOK
  <2>. QED
    BY <1>3, <2>1
<1>8. born \in Maps /\ gone \in SUBSET Nat
  <2>1. new \in SUBSET Nat /\ gone \in SUBSET Nat
    BY <1>4, <1>6
  <2>. QED
    BY <2>1, MapsIntro
<1> DEFINE infos == [created |-> born, deleted |-> gone]
<1>9. /\ infos \in Infos
      /\ DOMAIN infos.created \subseteq idToSet..(idToSet' - 1)
      /\ infos.deleted \subseteq 0..(idToSet' - 1)
      /\ infos.deleted \subseteq DOMAIN entities \cup DOMAIN infos.created
      /\ DOMAIN entities' = (DOMAIN entities \cup DOMAIN infos.created) \ infos.deleted
  BY <1>3, <1>5, <1>6, <1>8 DEF Infos
<1>10. t \in DOMAIN frameId /\ frameId' = [frameId EXCEPT ![t] = @ + 1]
  BY DEF GameFrame
<1> HIDE DEF new, all
<1>. QED
  BY <1>3, <1>5, <1>6, <1>7, <1>9, <1>10

LEMMA StoreFacts ==
  ASSUME Typed, NEW id \in 0..(NewestId + 1), NEW infos \in Infos, Store(id, infos)
  PROVE  /\ IsFiniteSet(DOMAIN engineFrames')
         /\ engineFrames' \in [0..NewestId' -> BOOLEAN]
         /\ NewestId' \in Int /\ NewestId <= NewestId' /\ id <= NewestId'
         /\ \A i \in DOMAIN engineFrames :
               i \in DOMAIN engineFrames' /\ engineFrames'[i] = engineFrames[i]
         /\ newest' \in {newest, infos}
         /\ lost \in BOOLEAN => lost' \in BOOLEAN
<1>1. /\ NewestId \in Int /\ NewestId >= -1 /\ DOMAIN engineFrames = 0..NewestId
      /\ engineFrames \in [0..NewestId -> BOOLEAN]
  BY FrameCount DEF Typed, TypeOK, FrameTypeOK
<1>2. engineFrames' = Emplace(engineFrames, [i \in {id} |-> FALSE])
  BY DEF Store
<1>3. /\ DOMAIN engineFrames' = DOMAIN engineFrames \cup {id}
      /\ \A i \in DOMAIN engineFrames : engineFrames'[i] = engineFrames[i]
      /\ id \notin DOMAIN engineFrames => engineFrames'[id] = FALSE
      /\ engineFrames' \in [DOMAIN engineFrames \cup {id} -> BOOLEAN]
  BY <1>1, <1>2 DEF Emplace
<1>4. PICK n \in Int : /\ DOMAIN engineFrames' = 0..n
                       /\ n >= -1 /\ NewestId <= n /\ id <= n
  <2>1. CASE id = NewestId + 1
    <3>1. 0..NewestId \cup {id} = 0..(NewestId + 1)
      BY <1>1, <2>1
    <3>. QED
      BY <1>1, <1>3, <2>1, <3>1
  <2>2. CASE id # NewestId + 1
    <3>1. id \in 0..NewestId
      BY <1>1, <2>2
    <3>. QED
      BY <1>1, <1>3, <3>1
  <2>. QED
    BY <2>1, <2>2
<1>5. IsFiniteSet(0..n) /\ Cardinality(0..n) = n + 1
  BY <1>4, FS_Interval
<1>6. NewestId' = n
  BY <1>4, <1>5 DEF NewestId
<1>7. newest' \in {newest, infos} /\ (lost \in BOOLEAN => lost' \in BOOLEAN)
  BY DEF Store, Important
<1>. QED
  BY <1>1, <1>3, <1>4, <1>5, <1>6, <1>7

LEMMA GameFrameTyped ==
  ASSUME Typed, NEW t, GameFrame(t)
  PROVE  Typed'
<1>1. PICK infos \in Infos :
        /\ Store(frameId[t], infos)
        /\ DOMAIN infos.created \subseteq idToSet..(idToSet' - 1)
        /\ infos.deleted \subseteq 0..(idToSet' - 1)
  BY GameFrameFacts
<1>2. /\ t \in DOMAIN frameId /\ frameId \in Seq(Nat)
      /\ frameId' = [frameId EXCEPT ![t] = @ + 1]
      /\ idToSet' \in idToSet..MaxEntities /\ idToSet \in 0..MaxEntities
      /\ MaxEntities \in Nat
  BY GameFrameFacts, FeedAssumption DEF Typed, TypeOK, GameTypeOK
<1>3. /\ NewestId \in Int /\ NewestId >= -1
      /\ \A s \in DOMAIN frameId : frameId[s] \in 0..(NewestId + 1)
  <2>1. /\ NewestId \in Int /\ NewestId >= -1
        /\ Cardinality(DOMAIN engineFrames) = NewestId + 1
    BY FrameCount DEF Typed
  <2>. QED
    BY <1>2, <2>1 DEF Typed, NoThreadAhead
<1>4. /\ IsFiniteSet(DOMAIN engineFrames')
      /\ engineFrames' \in [0..NewestId' -> BOOLEAN]
      /\ NewestId' \in Int /\ NewestId <= NewestId' /\ frameId[t] <= NewestId'
      /\ newest' \in {newest, infos}
      /\ lost' \in BOOLEAN
      /\ DOMAIN engineFrames \subseteq DOMAIN engineFrames'
  BY <1>1, <1>2, <1>3, StoreFacts DEF Typed, TypeOK, FrameTypeOK
<1>5. frameId' \in Seq(Nat)
  BY <1>2
<1>6. NoThreadAhead'
  <2>1. Cardinality(DOMAIN engineFrames)' = NewestId' + 1
    <3>1. DOMAIN engineFrames' = 0..NewestId' /\ NewestId' >= -1
      BY <1>3, <1>4
    <3>. QED
      BY <1>4, <3>1, FS_Interval
  <2>2. \A s \in DOMAIN frameId' : frameId'[s] = IF s = t THEN frameId[t] + 1 ELSE frameId[s]
    BY <1>2
  <2>3. DOMAIN frameId' = DOMAIN frameId
    BY <1>2
  <2>4. ASSUME NEW s \in DOMAIN frameId PROVE frameId'[s] <= NewestId' + 1
    <3>1. frameId[s] \in 0..(NewestId + 1) /\ frameId[t] \in 0..(NewestId + 1)
      BY <1>2, <1>3
    <3>2. CASE s = t
      BY <1>3, <1>4, <2>2, <2>3, <3>1, <3>2
    <3>3. CASE s # t
      <4>1. frameId'[s] = frameId[s]
        BY <2>2, <2>3, <3>3
      <4>. QED
        BY <1>3, <1>4, <3>1, <4>1
    <3>. QED
      BY <3>2, <3>3
  <2>. QED
    BY <2>1, <2>3, <2>4 DEF NoThreadAhead
<1>7. GameTypeOK'
  <2>1. idToSet' \in 0..MaxEntities
    BY <1>2
  <2>. QED
    BY <1>5, <2>1, GameFrameFacts DEF GameTypeOK
<1>8. /\ FrameTypeOK'
      /\ newest' \in [created : Maps, deleted : SUBSET Nat]
  <2>1. newest \in Infos /\ DOMAIN newest.created \subseteq 0..(idToSet - 1)
        /\ newest.deleted \subseteq 0..(idToSet - 1)
    BY DEF Typed, TypeOK, FrameTypeOK, Infos
  <2>2. 0..(idToSet - 1) \subseteq 0..(idToSet' - 1) /\ idToSet..(idToSet' - 1) \subseteq 0..(idToSet' - 1)
    BY <1>2
  <2>3. /\ DOMAIN newest'.created \subseteq 0..(idToSet' - 1)
        /\ newest'.deleted \subseteq 0..(idToSet' - 1)
    BY <1>1, <1>4, <2>1, <2>2
  <2>4. newest' \in Infos
    BY <1>4, <2>1
  <2>. QED
    BY <1>4, <2>3, <2>4 DEF FrameTypeOK, Infos
<1>9. 0..(idToSet - 1) \subseteq 0..(idToSet' - 1)
  BY <1>2
<1>10. /\ PollTypeOK'
       /\ ClientTypeOK'
  BY <1>4, <1>9
     DEF GameFrame, ServerMutexFree, pollVars, clientVars, Typed, TypeOK, PollTypeOK, ClientTypeOK
<1>11. sendQueue' \in Seq(Messages) /\ QueueIds'
  BY <1>9 DEF GameFrame, Typed, QueueIds
<1>. QED
  BY <1>4, <1>6, <1>7, <1>8, <1>10, <1>11 DEF Typed, TypeOK

------------------------------------------------------------------------------
(* A poll that sends.                                                      *)

LEMMA PollSendFacts ==
  ASSUME Typed, PollSend
  PROVE  \E message \in Messages :
            /\ sendQueue' = Append(sendQueue, message)
            /\ message.id = NewestId
            /\ message.changed = Changed
            /\ message.deleted = newest.deleted
            /\ \/ message.created = newest.created
               \/ message.created = Emplace(newest.created, Snapshot)
            /\ pc = "snapshot" => message.created = Emplace(newest.created, Snapshot)
            /\ DOMAIN message.created \subseteq 0..(idToSet - 1)
<1>1. /\ DOMAIN entities \subseteq 0..(idToSet - 1) /\ 0..(idToSet - 1) \subseteq Nat
      /\ \A i \in DOMAIN entities : entities[i].pos \in Positions
      /\ newest.created \in Maps /\ newest.deleted \in SUBSET Nat
      /\ DOMAIN newest.created \subseteq 0..(idToSet - 1)
  BY DEF Typed, TypeOK, GameTypeOK, FrameTypeOK
<1>2. Snapshot \in Maps /\ DOMAIN Snapshot \subseteq DOMAIN entities
  <2> DEFINE D == {j \in DOMAIN entities : entities[j].kind \in SnapshotKinds}
  <2>1. Snapshot \in [D -> Positions] /\ D \in SUBSET Nat
    BY <1>1 DEF Snapshot
  <2>. QED
    BY <2>1, MapsIntro
<1>3. Changed \in Maps
  <2> DEFINE D == {j \in DOMAIN entities : j \notin DOMAIN lastKnown \/ lastKnown[j] # entities[j].pos}
  <2>1. Changed \in [D -> Positions] /\ D \in SUBSET Nat
    BY <1>1 DEF Changed
  <2> HIDE DEF D
  <2>. QED
    BY <2>1, MapsIntro
<1>4. NewestId \in Nat
  BY FrameCount DEF PollSend, Typed, TypeOK, PollTypeOK
<1> DEFINE snapshot == IF pc = "snapshot" THEN Snapshot ELSE Empty
           message == [id |-> NewestId, created |-> Emplace(newest.created, snapshot),
                       deleted |-> newest.deleted, changed |-> Changed]
<1>5. snapshot \in Maps /\ DOMAIN snapshot \subseteq 0..(idToSet - 1)
  BY <1>1, <1>2, EmptyMap
<1>6. Emplace(newest.created, snapshot) \in Maps
  BY <1>1, <1>5, EmplaceMaps
<1>7. message \in Messages
  BY <1>1, <1>3, <1>4, <1>6 DEF Messages
<1>8. sendQueue' = Append(sendQueue, message)
  BY DEF PollSend, SendFrame
<1>9. Emplace(newest.created, Empty) = newest.created
  BY <1>1, EmptyMap, MapsElim DEF Emplace
<1>10. DOMAIN Emplace(newest.created, snapshot) \subseteq 0..(idToSet - 1)
  BY <1>1, <1>5 DEF Emplace
<1>. QED
  BY <1>7, <1>8, <1>9, <1>10

LEMMA PollSendTyped ==
  ASSUME Typed, PollSend
  PROVE  Typed'
<1>1. PICK message \in Messages :
            /\ sendQueue' = Append(sendQueue, message)
            /\ DOMAIN message.created \subseteq 0..(idToSet - 1)
  BY PollSendFacts
<1>2. /\ NewestId \in DOMAIN engineFrames
      /\ engineFrames' = [engineFrames EXCEPT ![NewestId] = TRUE]
      /\ engineFrames \in [0..NewestId -> BOOLEAN]
  BY FrameCount DEF PollSend, Typed, TypeOK, PollTypeOK, FrameTypeOK
<1>3. /\ DOMAIN engineFrames' = DOMAIN engineFrames /\ NewestId' = NewestId
      /\ engineFrames' \in [0..NewestId' -> BOOLEAN]
  BY <1>2 DEF NewestId
<1>4. NoThreadAhead' /\ GameTypeOK' /\ ClientTypeOK'
  BY <1>3 DEF PollSend, gameVars, Typed, TypeOK, NoThreadAhead, GameTypeOK, ClientTypeOK
<1>5. FrameTypeOK' /\ newest' \in [created : Maps, deleted : SUBSET Nat]
  BY <1>3, EmptyMap DEF PollSend, NoInfos, gameVars, Typed, TypeOK, FrameTypeOK
<1>6. PollTypeOK'
  <2>1. DOMAIN lastKnown' \subseteq 0..(idToSet - 1)
    <3>1. DOMAIN Changed \subseteq DOMAIN entities
      BY DEF Changed
    <3>2. DOMAIN lastKnown' = DOMAIN lastKnown \cup DOMAIN Changed
      BY DEF PollSend, Assign
    <3>. QED
      BY <3>1, <3>2 DEF Typed, TypeOK, GameTypeOK, PollTypeOK
  <2>2. unacknowledged' \subseteq DOMAIN engineFrames
    BY <1>2 DEF PollSend, SendFrame, Typed, TypeOK, PollTypeOK
  <2>. QED
    BY <1>3, <2>1, <2>2 DEF PollSend, gameVars, Typed, TypeOK, PollTypeOK
<1>7. sendQueue' \in Seq(Messages) /\ QueueIds'
  <2>1. sendQueue \in Seq(Messages) /\ idToSet' = idToSet
    BY DEF PollSend, gameVars, Typed
  <2>2. /\ Len(sendQueue') = Len(sendQueue) + 1
        /\ \A k \in 1..Len(sendQueue) : sendQueue'[k] = sendQueue[k]
        /\ sendQueue'[Len(sendQueue) + 1] = message
    BY <1>1, <2>1
  <2>3. \A k \in 1..Len(sendQueue') : k \in 1..Len(sendQueue) \/ k = Len(sendQueue) + 1
    BY <2>1, <2>2
  <2>. QED
    BY <1>1, <2>1, <2>2, <2>3 DEF Typed, QueueIds
<1>. QED
  BY <1>3, <1>4, <1>5, <1>6, <1>7 DEF Typed, TypeOK

------------------------------------------------------------------------------
(* A message sent.                                                         *)

LEMMA ApplyDomain ==
  ASSUME NEW s, NEW message
  PROVE  DOMAIN Apply(s, message) = (DOMAIN s \cup DOMAIN message.created) \ message.deleted
BY DEF Apply, Without, Emplace

LEMMA ApplyValue ==
  ASSUME NEW s, NEW message, NEW i \in DOMAIN Apply(s, message)
  PROVE  Apply(s, message)[i] =
            IF i \in DOMAIN message.changed THEN message.changed[i]
            ELSE IF i \in DOMAIN s THEN s[i] ELSE message.created[i]
BY DEF Apply, Without, Emplace

\* The queue loses its head; the clients that are there apply it.
LEMMA SendTimerFacts ==
  ASSUME Typed, HandleSendTimer
  PROVE  /\ Len(sendQueue) \in Nat \ {0}
         /\ sendQueue[1] \in Messages
         /\ sendQueue' \in Seq(Messages)
         /\ Len(sendQueue') = Len(sendQueue) - 1
         /\ \A k \in 1..Len(sendQueue') : k + 1 \in 1..Len(sendQueue)
                                         /\ sendQueue'[k] = sendQueue[k + 1]
         /\ DOMAIN shown' = Endpoints
         /\ \A e \in Endpoints : shown'[e] =
                IF e \in clients THEN Apply(shown[e], sendQueue[1]) ELSE shown[e]
<1>1. sendQueue \in Seq(Messages) /\ sendQueue # <<>>
  BY DEF Typed, HandleSendTimer
<1>2. sendQueue' = Tail(sendQueue) /\ Head(sendQueue) = sendQueue[1]
  BY <1>1 DEF HandleSendTimer
<1>3. Len(sendQueue) \in Nat \ {0}
  BY <1>1
<1>4. shown' = [e \in Endpoints |->
          IF e \in clients THEN Apply(shown[e], sendQueue[1]) ELSE shown[e]]
  BY <1>2 DEF HandleSendTimer
<1>5. /\ sendQueue[1] \in Messages
      /\ sendQueue' \in Seq(Messages)
      /\ Len(sendQueue') = Len(sendQueue) - 1
      /\ \A k \in 1..Len(sendQueue') : k + 1 \in 1..Len(sendQueue)
                                      /\ sendQueue'[k] = sendQueue[k + 1]
  BY <1>1, <1>2, <1>3
<1>. QED
  BY <1>3, <1>4, <1>5

LEMMA SendTimerTyped ==
  ASSUME Typed, HandleSendTimer
  PROVE  Typed'
<1>1. UNCHANGED <<gameVars, frameVars, pollVars, clients, newcomers, left>>
  BY DEF HandleSendTimer
<1>2. GameTypeOK' /\ FrameTypeOK' /\ PollTypeOK' /\ NoThreadAhead'
  BY <1>1
     DEF gameVars, frameVars, pollVars, Typed, TypeOK, GameTypeOK, FrameTypeOK,
         PollTypeOK, NoThreadAhead, NewestId, Unsent
<1>3. ClientTypeOK'
  <2>1. ASSUME NEW e \in Endpoints PROVE DOMAIN shown'[e] \subseteq 0..(idToSet - 1)
    <3>1. /\ DOMAIN shown[e] \subseteq 0..(idToSet - 1)
          /\ DOMAIN sendQueue[1].created \subseteq 0..(idToSet - 1)
      BY SendTimerFacts DEF Typed, TypeOK, ClientTypeOK, QueueIds
    <3>2. DOMAIN Apply(shown[e], sendQueue[1]) =
             (DOMAIN shown[e] \cup DOMAIN sendQueue[1].created) \ sendQueue[1].deleted
      BY ApplyDomain
    <3>3. shown'[e] = Apply(shown[e], sendQueue[1]) \/ shown'[e] = shown[e]
      BY SendTimerFacts
    <3>. QED
      BY <3>1, <3>2, <3>3
  <2>. QED
    BY <1>1, <2>1, SendTimerFacts DEF gameVars, Typed, TypeOK, ClientTypeOK
<1>4. QueueIds'
  BY <1>1, SendTimerFacts DEF gameVars, Typed, QueueIds
<1>. QED
  BY <1>1, <1>2, <1>3, <1>4, SendTimerFacts DEF frameVars, Typed, TypeOK

LEMMA TypedStep == Typed /\ [Next]_vars => Typed'
<1>. SUFFICES ASSUME Typed, [Next]_vars PROVE Typed'
  OBVIOUS
<1>1. CASE StartGame
  <2>1. frameId \in Seq(Nat) /\ frameId' = Append(frameId, 0)
    BY <1>1 DEF StartGame, Typed, TypeOK, GameTypeOK
  <2>2. GameTypeOK'
    BY <1>1, <2>1 DEF StartGame, Typed, TypeOK, GameTypeOK
  <2>3. NoThreadAhead'
    <3>1. Cardinality(DOMAIN engineFrames) \in Nat
      BY FS_CardinalityType DEF Typed
    <3>2. DOMAIN engineFrames' = DOMAIN engineFrames
      BY <1>1 DEF StartGame, frameVars
    <3>3. \A t \in DOMAIN frameId' : frameId'[t] = 0 \/ (t \in DOMAIN frameId /\ frameId'[t] = frameId[t])
      BY <2>1
    <3>. QED
      BY <3>1, <3>2, <3>3 DEF Typed, NoThreadAhead
  <2>. QED
    BY <1>1, <2>2, <2>3
       DEF StartGame, frameVars, pollVars, clientVars, Typed, TypeOK, FrameTypeOK,
           PollTypeOK, ClientTypeOK, NewestId, Unsent, QueueIds
<1>2. CASE Frame
  BY <1>2, GameFrameTyped DEF Frame
<1>3. CASE StartServer \/ Warm \/ PollCompare \/ PollCount
  <2>1. Cardinality(clients) \in 0..Cardinality(Endpoints)
    <3>1. clients \subseteq Endpoints
      BY DEF Typed, TypeOK, ClientTypeOK
    <3>. QED
      BY <3>1, FeedAssumption, FS_Subset, FS_CardinalityType
  <2>2. UNCHANGED <<gameVars, frameVars, lastKnown, unacknowledged, sendQueue, clientVars>>
    BY <1>3 DEF StartServer, Warm, PollCompare, PollCount
  <2>3. PollTypeOK'
    BY <1>3, <2>1, <2>2
       DEF StartServer, Warm, PollCompare, PollCount, gameVars, frameVars, Typed,
           TypeOK, PollTypeOK, NewestId, Unsent
  <2>. QED
    BY <2>2, <2>3
       DEF gameVars, frameVars, clientVars, Typed, TypeOK, GameTypeOK, FrameTypeOK,
           ClientTypeOK, NewestId, NoThreadAhead, QueueIds
<1>4. CASE PollSend
  BY <1>4, PollSendTyped
<1>5. CASE HandleSendTimer
  BY <1>5, SendTimerTyped
<1>6. CASE Join \/ Leave \/ Restart
  <2>1. UNCHANGED <<gameVars, frameVars, pollVars, sendQueue>>
    BY <1>6 DEF Join, Leave, Restart
  <2>2. ClientTypeOK'
    BY <1>6, <2>1, EmptyMap DEF Join, Leave, Restart, gameVars, Typed, TypeOK, ClientTypeOK
  <2>. QED
    BY <2>1, <2>2
       DEF gameVars, frameVars, pollVars, Typed, TypeOK, GameTypeOK, FrameTypeOK,
           PollTypeOK, NewestId, Unsent, NoThreadAhead, QueueIds
<1>7. CASE UNCHANGED vars
  BY <1>7
     DEF vars, gameVars, frameVars, pollVars, clientVars, Typed, TypeOK, GameTypeOK,
         FrameTypeOK, PollTypeOK, ClientTypeOK, NewestId, Unsent, NoThreadAhead, QueueIds
<1>. QED
  BY <1>1, <1>2, <1>3, <1>4, <1>5, <1>6, <1>7 DEF Next, Poll

\* The types of all the variables, and frames numbered without a gap.
THEOREM FeedTypes == Spec => []TypeOK
<1>1. Typed => TypeOK
  BY DEF Typed
<1>. QED
  BY <1>1, InitTyped, TypedStep, PTL DEF Spec

\* A number is broadcast when it is the newest and not marked, so after all
\* the numbers that are.
LEMMA InOrderStep ==
  ASSUME Typed, Next
  PROVE  \A i \in DOMAIN engineFrames : engineFrames[i] =>
            /\ i \in DOMAIN engineFrames' /\ engineFrames'[i]
            /\ Len(sendQueue') > Len(sendQueue) => i < Last(sendQueue').id
<1>1. CASE Frame
  <2>1. PICK t : GameFrame(t)
    BY <1>1 DEF Frame
  <2>2. PICK infos \in Infos : Store(frameId[t], infos)
    BY <2>1, GameFrameFacts
  <2>3. frameId[t] \in 0..(NewestId + 1)
    <3>1. /\ NewestId \in Int /\ Cardinality(DOMAIN engineFrames) = NewestId + 1
          /\ t \in DOMAIN frameId /\ frameId \in Seq(Nat)
      BY <2>1, FrameCount, GameFrameFacts DEF Typed, TypeOK, GameTypeOK
    <3>. QED
      BY <3>1 DEF Typed, NoThreadAhead
  <2>4. \A i \in DOMAIN engineFrames :
           i \in DOMAIN engineFrames' /\ engineFrames'[i] = engineFrames[i]
    BY <2>2, <2>3, StoreFacts
  <2>5. sendQueue' = sendQueue /\ Len(sendQueue) \in Nat
    BY <2>1 DEF GameFrame, Typed
  <2>. QED
    BY <2>4, <2>5
<1>2. CASE PollSend
  <2>1. PICK message \in Messages :
          sendQueue' = Append(sendQueue, message) /\ message.id = NewestId
    BY <1>2, PollSendFacts
  <2>2. Last(sendQueue') = message
    BY <2>1 DEF Last, Typed
  <2>3. /\ NewestId \in Nat /\ DOMAIN engineFrames = 0..NewestId
        /\ engineFrames[NewestId] = FALSE
        /\ engineFrames' = [engineFrames EXCEPT ![NewestId] = TRUE]
    BY <1>2, FrameCount DEF PollSend, Typed, TypeOK, PollTypeOK
  <2>4. \A i \in DOMAIN engineFrames : engineFrames[i] => i < NewestId
    BY <2>3
  <2>. QED
    BY <2>1, <2>2, <2>3, <2>4
<1>3. CASE HandleSendTimer
  <2>1. engineFrames' = engineFrames
    BY <1>3 DEF HandleSendTimer, frameVars
  <2>2. ~(Len(sendQueue') > Len(sendQueue))
    BY <1>3, SendTimerFacts
  <2>. QED
    BY <2>1, <2>2
<1>4. CASE UNCHANGED <<engineFrames, sendQueue>>
  <2>1. Len(sendQueue) \in Nat
    BY DEF Typed
  <2>. QED
    BY <1>4, <2>1
<1>5. CASE StartGame \/ Warm \/ StartServer \/ PollCompare \/ PollCount \/ Join \/ Leave \/ Restart
  BY <1>4, <1>5
     DEF StartGame, Warm, StartServer, PollCompare, PollCount, Join, Leave, Restart, frameVars
<1>. QED
  BY <1>1, <1>2, <1>3, <1>5 DEF Next, Poll

\* For any number of game threads: no frame is broadcast twice or late.
THEOREM FeedInOrder == Spec => BroadcastInOrder
<1>1. Typed /\ [Next]_vars =>
        [\A i \in DOMAIN engineFrames : engineFrames[i] =>
            /\ i \in DOMAIN engineFrames' /\ engineFrames'[i]
            /\ Len(sendQueue') > Len(sendQueue) => i < Last(sendQueue').id]_vars
  BY InOrderStep
<1>. QED
  BY <1>1, InitTyped, TypedStep, PTL DEF Spec, BroadcastInOrder

------------------------------------------------------------------------------
(* Positions.                                                              *)

\* A CHANGE on its way tells the last known position, or a later one does.
ChangesAgree ==
  \A k \in 1..Len(sendQueue) : \A i \in DOMAIN sendQueue[k].changed :
     i \in DOMAIN lastKnown =>
        \/ sendQueue[k].changed[i] = lastKnown[i]
        \/ \E l \in 1..Len(sendQueue) : k < l /\ i \in DOMAIN sendQueue[l].changed

\* So does a CREATE_, or a CHANGE in its message or a later one.
CreatesAgree ==
  \A k \in 1..Len(sendQueue) : \A i \in DOMAIN sendQueue[k].created :
     i \in DOMAIN lastKnown =>
        \/ sendQueue[k].created[i] = lastKnown[i]
        \/ \E l \in 1..Len(sendQueue) : k <= l /\ i \in DOMAIN sendQueue[l].changed

\* No position was sent of what the frame not yet sent creates.
NewIsUnknown == DOMAIN newest.created \cap DOMAIN lastKnown = {}

OthersShowNothing == \A e \in Endpoints \ clients : DOMAIN shown[e] = {}

PositionInv ==
  /\ ChangesAgree
  /\ CreatesAgree
  /\ NewIsUnknown
  /\ OthersShowNothing
  /\ PositionsAgree

LEMMA InitPositions == Init => PositionInv
<1>. SUFFICES ASSUME Init PROVE PositionInv
  OBVIOUS
<1>1. sendQueue = <<>> /\ Len(sendQueue) = 0
  BY DEF Init
<1>2. DOMAIN lastKnown = {} /\ \A e \in Endpoints : DOMAIN shown[e] = {}
  BY EmptyMap DEF Init
<1>. QED
  BY <1>1, <1>2
     DEF Init, PositionInv, ChangesAgree, CreatesAgree, NewIsUnknown,
         OthersShowNothing, PositionsAgree

\* What a poll makes known it also sends.
LEMMA PollSendPositions ==
  ASSUME Typed, PositionInv, PollSend
  PROVE  PositionInv'
<1> DEFINE n == Len(sendQueue)
<1>1. PICK message \in Messages :
            /\ sendQueue' = Append(sendQueue, message)
            /\ message.changed = Changed
            /\ \/ message.created = newest.created
               \/ message.created = Emplace(newest.created, Snapshot)
  BY PollSendFacts
<1>2. /\ n \in Nat /\ Len(sendQueue') = n + 1
      /\ \A k \in 1..n : k \in 1..(n + 1) /\ k < n + 1 /\ sendQueue'[k] = sendQueue[k]
      /\ sendQueue'[n + 1] = message /\ n + 1 \in 1..(n + 1)
      /\ \A k \in 1..(n + 1) : k \in 1..n \/ k = n + 1
  BY <1>1 DEF Typed
<1>3. /\ DOMAIN lastKnown' = DOMAIN lastKnown \cup DOMAIN Changed
      /\ \A i \in DOMAIN lastKnown' :
            lastKnown'[i] = IF i \in DOMAIN Changed THEN Changed[i] ELSE lastKnown[i]
  BY DEF PollSend, Assign
<1>4. \A i \in DOMAIN entities \ DOMAIN Changed :
         i \in DOMAIN lastKnown /\ lastKnown[i] = entities[i].pos
  BY DEF Changed
<1>5. UNCHANGED <<entities, shown, clients>> /\ DOMAIN newest'.created = {}
  BY EmptyMap DEF PollSend, gameVars, NoInfos
<1> HIDE DEF n
<1>6. ChangesAgree'
  <2>. SUFFICES ASSUME NEW k \in 1..(n + 1), NEW i \in DOMAIN sendQueue'[k].changed,
                       i \in DOMAIN lastKnown'
                PROVE  \/ sendQueue'[k].changed[i] = lastKnown'[i]
                       \/ \E l \in 1..(n + 1) : k < l /\ i \in DOMAIN sendQueue'[l].changed
    BY <1>2 DEF ChangesAgree
  <2>1. CASE k = n + 1
    BY <1>1, <1>2, <1>3, <2>1
  <2>2. CASE k \in 1..n /\ i \in DOMAIN Changed
    BY <1>1, <1>2, <2>2
  <2>3. CASE k \in 1..n /\ i \notin DOMAIN Changed
    <3>1. i \in DOMAIN lastKnown /\ lastKnown'[i] = lastKnown[i]
      BY <1>3, <2>3
    <3>2. \/ sendQueue[k].changed[i] = lastKnown[i]
          \/ \E l \in 1..n : k < l /\ i \in DOMAIN sendQueue[l].changed
      BY <1>2, <2>3, <3>1 DEF PositionInv, ChangesAgree, n
    <3>. QED
      BY <1>2, <2>3, <3>1, <3>2
  <2>. QED
    BY <1>2, <2>1, <2>2, <2>3
<1>7. CreatesAgree'
  <2>. SUFFICES ASSUME NEW k \in 1..(n + 1), NEW i \in DOMAIN sendQueue'[k].created,
                       i \in DOMAIN lastKnown'
                PROVE  \/ sendQueue'[k].created[i] = lastKnown'[i]
                       \/ \E l \in 1..(n + 1) : k <= l /\ i \in DOMAIN sendQueue'[l].changed
    BY <1>2 DEF CreatesAgree
  <2>1. CASE i \in DOMAIN Changed
    BY <1>1, <1>2, <2>1
  <2>2. CASE k = n + 1 /\ i \notin DOMAIN Changed
    <3>1. i \in DOMAIN lastKnown /\ lastKnown'[i] = lastKnown[i]
      BY <1>3, <2>2
    <3>2. i \notin DOMAIN newest.created
      BY <3>1 DEF PositionInv, NewIsUnknown
    <3>3. /\ message.created = Emplace(newest.created, Snapshot)
          /\ i \in DOMAIN message.created
      BY <1>1, <1>2, <2>2, <3>2
    <3>4. i \in DOMAIN Snapshot /\ message.created[i] = Snapshot[i]
      BY <3>2, <3>3 DEF Emplace
    <3>5. i \in DOMAIN entities /\ Snapshot[i] = entities[i].pos
      BY <3>4 DEF Snapshot
    <3>. QED
      BY <1>2, <1>4, <2>2, <3>1, <3>4, <3>5
  <2>3. CASE k \in 1..n /\ i \notin DOMAIN Changed
    <3>1. i \in DOMAIN lastKnown /\ lastKnown'[i] = lastKnown[i]
      BY <1>3, <2>3
    <3>2. \/ sendQueue[k].created[i] = lastKnown[i]
          \/ \E l \in 1..n : k <= l /\ i \in DOMAIN sendQueue[l].changed
      BY <1>2, <2>3, <3>1 DEF PositionInv, CreatesAgree, n
    <3>. QED
      BY <1>2, <2>3, <3>1, <3>2
  <2>. QED
    BY <1>2, <2>1, <2>2, <2>3
<1>8. PositionsAgree'
  <2>. SUFFICES ASSUME NEW e \in clients, NEW i \in DOMAIN shown[e], i \in DOMAIN lastKnown'
                PROVE  \/ shown[e][i] = lastKnown'[i]
                       \/ \E k \in 1..(n + 1) : i \in DOMAIN sendQueue'[k].changed
    BY <1>2, <1>5 DEF PositionsAgree
  <2>1. CASE i \in DOMAIN Changed
    BY <1>1, <1>2, <2>1
  <2>2. CASE i \notin DOMAIN Changed
    <3>1. i \in DOMAIN lastKnown /\ lastKnown'[i] = lastKnown[i]
      BY <1>3, <2>2
    <3>2. \/ shown[e][i] = lastKnown[i]
          \/ \E k \in 1..n : i \in DOMAIN sendQueue[k].changed
      BY <3>1 DEF PositionInv, PositionsAgree, n
    <3>. QED
      BY <1>2, <3>1, <3>2
  <2>. QED
    BY <2>1, <2>2
<1>9. NewIsUnknown' /\ OthersShowNothing'
  BY <1>5 DEF PositionInv, NewIsUnknown, OthersShowNothing
<1>. QED
  BY <1>6, <1>7, <1>8, <1>9 DEF PositionInv

\* What a client makes of the head of the queue, the rest of it agrees with.
LEMMA SendTimerPositions ==
  ASSUME Typed, PositionInv, HandleSendTimer
  PROVE  PositionInv'
<1> DEFINE n == Len(sendQueue)
<1>1. /\ n \in Nat \ {0} /\ Len(sendQueue') = n - 1
      /\ \A k \in 1..(n - 1) : k + 1 \in 1..n /\ sendQueue'[k] = sendQueue[k + 1]
      /\ \A e \in Endpoints : shown'[e] =
            IF e \in clients THEN Apply(shown[e], sendQueue[1]) ELSE shown[e]
  BY SendTimerFacts
<1>2. UNCHANGED <<lastKnown, newest, clients>>
  BY DEF HandleSendTimer, pollVars, frameVars
<1>3. ASSUME NEW l \in 1..n, l # 1
      PROVE  /\ l - 1 \in 1..(n - 1) /\ sendQueue'[l - 1] = sendQueue[l]
             /\ \A k \in 1..(n - 1) : (k + 1 < l => k < l - 1) /\ (k + 1 <= l => k <= l - 1)
  <2>1. l - 1 \in 1..(n - 1) /\ (l - 1) + 1 = l
    BY <1>1, <1>3
  <2>2. sendQueue'[l - 1] = sendQueue[(l - 1) + 1]
    BY <1>1, <2>1
  <2>. QED
    BY <1>1, <2>1, <2>2
<1> HIDE DEF n
<1>4. ChangesAgree'
  <2>. SUFFICES ASSUME NEW k \in 1..(n - 1), NEW i \in DOMAIN sendQueue'[k].changed,
                       i \in DOMAIN lastKnown
                PROVE  \/ sendQueue'[k].changed[i] = lastKnown[i]
                       \/ \E l \in 1..(n - 1) : k < l /\ i \in DOMAIN sendQueue'[l].changed
    BY <1>1, <1>2 DEF ChangesAgree
  <2>1. k + 1 \in 1..n /\ sendQueue'[k] = sendQueue[k + 1]
    BY <1>1
  <2>2. \/ sendQueue[k + 1].changed[i] = lastKnown[i]
        \/ \E l \in 1..n : k + 1 < l /\ i \in DOMAIN sendQueue[l].changed
    BY <2>1 DEF PositionInv, ChangesAgree, n
  <2>3. ASSUME NEW l \in 1..n, k + 1 < l, i \in DOMAIN sendQueue[l].changed
        PROVE  \E j \in 1..(n - 1) : k < j /\ i \in DOMAIN sendQueue'[j].changed
    <3>1. l # 1
      BY <1>1, <2>3
    <3>. QED
      BY <1>3, <2>3, <3>1
  <2>. QED
    BY <2>1, <2>2, <2>3
<1>5. CreatesAgree'
  <2>. SUFFICES ASSUME NEW k \in 1..(n - 1), NEW i \in DOMAIN sendQueue'[k].created,
                       i \in DOMAIN lastKnown
                PROVE  \/ sendQueue'[k].created[i] = lastKnown[i]
                       \/ \E l \in 1..(n - 1) : k <= l /\ i \in DOMAIN sendQueue'[l].changed
    BY <1>1, <1>2 DEF CreatesAgree
  <2>1. k + 1 \in 1..n /\ sendQueue'[k] = sendQueue[k + 1]
    BY <1>1
  <2>2. \/ sendQueue[k + 1].created[i] = lastKnown[i]
        \/ \E l \in 1..n : k + 1 <= l /\ i \in DOMAIN sendQueue[l].changed
    BY <2>1 DEF PositionInv, CreatesAgree, n
  <2>3. ASSUME NEW l \in 1..n, k + 1 <= l, i \in DOMAIN sendQueue[l].changed
        PROVE  \E j \in 1..(n - 1) : k <= j /\ i \in DOMAIN sendQueue'[j].changed
    <3>1. l # 1
      BY <1>1, <2>3
    <3>. QED
      BY <1>3, <2>3, <3>1
  <2>. QED
    BY <2>1, <2>2, <2>3
<1>6. PositionsAgree'
  <2>. SUFFICES ASSUME NEW e \in clients, NEW i \in DOMAIN shown'[e], i \in DOMAIN lastKnown
                PROVE  \/ shown'[e][i] = lastKnown[i]
                       \/ \E k \in 1..(n - 1) : i \in DOMAIN sendQueue'[k].changed
    BY <1>1, <1>2 DEF PositionsAgree
  <2>1. shown'[e] = Apply(shown[e], sendQueue[1]) /\ 1 \in 1..n
    BY <1>1 DEF Typed, TypeOK, ClientTypeOK
  <2>2. i \in DOMAIN shown[e] \/ i \in DOMAIN sendQueue[1].created
    BY <2>1, ApplyDomain
  <2>3. shown'[e][i] = IF i \in DOMAIN sendQueue[1].changed THEN sendQueue[1].changed[i]
                       ELSE IF i \in DOMAIN shown[e] THEN shown[e][i] ELSE sendQueue[1].created[i]
    BY <2>1, ApplyValue
  <2>4. ASSUME NEW l \in 1..n, i \in DOMAIN sendQueue[l].changed, l # 1
        PROVE  \E k \in 1..(n - 1) : i \in DOMAIN sendQueue'[k].changed
    BY <1>3, <2>4
  <2>5. CASE i \in DOMAIN sendQueue[1].changed
    <3>1. \/ sendQueue[1].changed[i] = lastKnown[i]
          \/ \E l \in 1..n : 1 < l /\ i \in DOMAIN sendQueue[l].changed
      BY <2>1, <2>5 DEF PositionInv, ChangesAgree, n
    <3>. QED
      BY <2>3, <2>4, <2>5, <3>1
  <2>6. CASE i \notin DOMAIN sendQueue[1].changed /\ i \in DOMAIN shown[e]
    <3>1. \/ shown[e][i] = lastKnown[i]
          \/ \E l \in 1..n : i \in DOMAIN sendQueue[l].changed
      BY <2>6 DEF PositionInv, PositionsAgree, n
    <3>. QED
      BY <2>3, <2>4, <2>6, <3>1
  <2>7. CASE i \notin DOMAIN sendQueue[1].changed /\ i \notin DOMAIN shown[e]
    <3>1. \/ sendQueue[1].created[i] = lastKnown[i]
          \/ \E l \in 1..n : 1 <= l /\ i \in DOMAIN sendQueue[l].changed
      BY <2>1, <2>2, <2>7 DEF PositionInv, CreatesAgree, n
    <3>. QED
      BY <2>3, <2>4, <2>7, <3>1
  <2>. QED
    BY <2>5, <2>6, <2>7
<1>7. NewIsUnknown' /\ OthersShowNothing'
  BY <1>1, <1>2 DEF PositionInv, NewIsUnknown, OthersShowNothing
<1>. QED
  BY <1>4, <1>5, <1>6, <1>7 DEF PositionInv

LEMMA PositionStep == Typed /\ PositionInv /\ [Next]_vars => PositionInv'
<1>. SUFFICES ASSUME Typed, PositionInv, [Next]_vars PROVE PositionInv'
  OBVIOUS
<1>1. CASE PollSend
  BY <1>1, PollSendPositions
<1>2. CASE HandleSendTimer
  BY <1>2, SendTimerPositions
<1>3. CASE Frame
  <2>1. PICK t : GameFrame(t)
    BY <1>3 DEF Frame
  <2>2. PICK infos \in Infos :
          /\ Store(frameId[t], infos)
          /\ DOMAIN infos.created \subseteq idToSet..(idToSet' - 1)
    BY <2>1, GameFrameFacts
  <2>3. DOMAIN infos.created \cap DOMAIN lastKnown = {}
    BY <2>2 DEF Typed, TypeOK, GameTypeOK, PollTypeOK
  <2>4. newest' \in {newest, infos}
    BY <2>2 DEF Store
  <2>5. NewIsUnknown'
    BY <2>1, <2>3, <2>4 DEF GameFrame, pollVars, PositionInv, NewIsUnknown
  <2>. QED
    BY <2>1, <2>5
       DEF GameFrame, pollVars, clientVars, PositionInv, ChangesAgree, CreatesAgree,
           OthersShowNothing, PositionsAgree
<1>4. CASE Join \/ Leave \/ Restart
  <2>1. UNCHANGED <<newest, lastKnown, sendQueue>>
    BY <1>4 DEF Join, Leave, Restart, frameVars, pollVars
  <2>2. DOMAIN shown = Endpoints /\ clients \subseteq Endpoints
    BY DEF Typed, TypeOK, ClientTypeOK
  <2>3. \A e \in Endpoints : DOMAIN shown'[e] = {} \/ (shown'[e] = shown[e] /\ (e \in clients <=> e \in clients'))
    BY <1>4, <2>2, EmptyMap DEF Join, Leave, Restart, PositionInv, OthersShowNothing
  <2>4. clients' \subseteq Endpoints
    BY <1>4, <2>2 DEF Join, Leave, Restart
  <2>5. OthersShowNothing' /\ PositionsAgree'
    BY <2>1, <2>3, <2>4 DEF PositionInv, OthersShowNothing, PositionsAgree
  <2>. QED
    BY <2>1, <2>5 DEF PositionInv, ChangesAgree, CreatesAgree, NewIsUnknown
<1>5. CASE UNCHANGED <<newest, lastKnown, sendQueue, shown, clients>>
  BY <1>5
     DEF PositionInv, ChangesAgree, CreatesAgree, NewIsUnknown, OthersShowNothing,
         PositionsAgree
<1>6. CASE StartGame \/ Warm \/ StartServer \/ PollCompare \/ PollCount \/ UNCHANGED vars
  BY <1>5, <1>6
     DEF StartGame, Warm, StartServer, PollCompare, PollCount, vars, frameVars, pollVars,
         clientVars
<1>. QED
  BY <1>1, <1>2, <1>3, <1>4, <1>6 DEF Next, Poll

\* For any clients and any game: a sprite is where the server last said, or
\* the CHANGE is on its way.
THEOREM FeedPositions == Spec => []PositionsAgree
<1>1. PositionInv => PositionsAgree
  BY DEF PositionInv
<1>. QED
  BY <1>1, InitTyped, TypedStep, InitPositions, PositionStep, PTL DEF Spec

------------------------------------------------------------------------------
(* One game.                                                               *)

\* Its next frame is the next one of engineFrames.
OneGame ==
  /\ Len(frameId) = 0 => DOMAIN engineFrames = {}
  /\ Len(frameId) = 1 => frameId[1] = Cardinality(DOMAIN engineFrames)

LEMMA InitOneGame == Init => OneGame
  BY EmptyMap DEF Init, OneGame

\* A thread that is alone finds its number free.
LEMMA GameFrameAlone ==
  ASSUME Typed, OneGame, NEW t, GameFrame(t)
  PROVE  /\ Len(frameId') = Len(frameId) /\ Len(frameId) \in Nat \ {0}
         /\ Len(frameId) = 1 =>
               /\ frameId'[1] = frameId[1] + 1
               /\ Cardinality(DOMAIN engineFrames') = Cardinality(DOMAIN engineFrames) + 1
<1>1. /\ t \in DOMAIN frameId
      /\ frameId' = [frameId EXCEPT ![t] = @ + 1]
      /\ \E infos \in Infos : Store(frameId[t], infos)
  BY GameFrameFacts
<1>2. frameId \in Seq(Nat)
  BY DEF Typed, TypeOK, GameTypeOK
<1>3. /\ Len(frameId') = Len(frameId) /\ Len(frameId) \in Nat \ {0}
      /\ Len(frameId) = 1 => t = 1
  BY <1>1, <1>2
<1>4. ASSUME Len(frameId) = 1
      PROVE  /\ frameId'[1] = frameId[1] + 1
             /\ Cardinality(DOMAIN engineFrames') = Cardinality(DOMAIN engineFrames) + 1
  <2>1. /\ DOMAIN engineFrames = 0..NewestId /\ NewestId \in Int
        /\ Cardinality(DOMAIN engineFrames) = NewestId + 1
    BY FrameCount DEF Typed
  <2>2. frameId[1] = NewestId + 1 /\ frameId[1] \notin DOMAIN engineFrames
    BY <1>4, <2>1 DEF OneGame
  <2>3. DOMAIN engineFrames' = DOMAIN engineFrames \cup {frameId[1]}
    BY <1>1, <1>3, <1>4 DEF Store, Emplace
  <2>4. Cardinality(DOMAIN engineFrames') = Cardinality(DOMAIN engineFrames) + 1
    BY <2>2, <2>3, FS_AddElement DEF Typed
  <2>. QED
    BY <1>1, <1>2, <1>3, <1>4, <2>4
<1>. QED
  BY <1>3, <1>4

LEMMA OneGameStep == Typed /\ OneGame /\ [Next]_vars => OneGame'
<1>. SUFFICES ASSUME Typed, OneGame, [Next]_vars PROVE OneGame'
  OBVIOUS
<1>1. CASE Frame
  BY <1>1, GameFrameAlone DEF Frame, OneGame
<1>2. CASE StartGame
  <2>1. /\ frameId \in Seq(Nat) /\ frameId' = Append(frameId, 0)
        /\ DOMAIN engineFrames' = DOMAIN engineFrames
    BY <1>2 DEF StartGame, frameVars, Typed, TypeOK, GameTypeOK
  <2>2. Len(frameId') = Len(frameId) + 1 /\ Len(frameId) \in Nat
    BY <2>1
  <2>3. Len(frameId) = 0 => frameId'[1] = 0
    BY <2>1
  <2>4. Cardinality({}) = 0
    BY FS_EmptySet
  <2>. QED
    BY <2>1, <2>2, <2>3, <2>4 DEF OneGame
<1>3. CASE frameId' = frameId /\ DOMAIN engineFrames' = DOMAIN engineFrames
  BY <1>3 DEF OneGame
<1>4. CASE PollSend
  BY <1>3, <1>4 DEF PollSend, gameVars
<1>. QED
  BY <1>1, <1>2, <1>3, <1>4
     DEF Next, Poll, Warm, StartServer, PollCompare, PollCount, HandleSendTimer,
         Join, Leave, Restart, vars, gameVars, frameVars

\* While one game is played every frame of it becomes the newest one, whatever
\* the server thread and the clients do (GameState.cpp:363 and 372).
THEOREM FeedOneGame == Spec => OneGameDropsNothing
<1>1. Typed /\ OneGame /\ [Next]_vars =>
        [Frame /\ Len(frameId) = 1 => NewestId' = NewestId + 1]_vars
  <2>1. ASSUME Typed, OneGame, Frame, Len(frameId) = 1
        PROVE  NewestId' = NewestId + 1
    <3>1. Cardinality(DOMAIN engineFrames') = Cardinality(DOMAIN engineFrames) + 1
      BY <2>1, GameFrameAlone DEF Frame
    <3>2. Cardinality(DOMAIN engineFrames) \in Nat
      BY <2>1, FS_CardinalityType DEF Typed
    <3>. QED
      BY <3>1, <3>2 DEF NewestId
  <2>. QED
    BY <2>1
<1>. QED
  BY <1>1, InitTyped, TypedStep, InitOneGame, OneGameStep, PTL DEF Spec, OneGameDropsNothing

------------------------------------------------------------------------------
(* The dead.                                                               *)

\* The frame not yet sent deletes what it created, or it is there.
NewestTold ==
  \A i \in DOMAIN newest.created : i \in DOMAIN entities \/ i \in newest.deleted

\* A CREATE_ on its way is of something that is there, or a DELETE follows.
DeletesFollow ==
  \A k \in 1..Len(sendQueue) : \A i \in DOMAIN sendQueue[k].created \ DOMAIN entities :
     \/ i \in newest.deleted
     \/ \E l \in 1..Len(sendQueue) : k <= l /\ i \in sendQueue[l].deleted

GhostInv ==
  /\ ~lost => NewestTold /\ DeletesFollow
  /\ OthersShowNothing
  /\ NoGhostSprites

LEMMA InitGhosts == Init => GhostInv
<1>. SUFFICES ASSUME Init PROVE GhostInv
  OBVIOUS
<1>1. sendQueue = <<>> /\ Len(sendQueue) = 0 /\ DOMAIN newest.created = {}
  BY EmptyMap DEF Init, NoInfos
<1>2. \A e \in Endpoints : DOMAIN shown[e] = {}
  BY EmptyMap DEF Init
<1>. QED
  BY <1>1, <1>2
     DEF Init, GhostInv, NewestTold, DeletesFollow, OthersShowNothing, NoGhostSprites

\* A frame that nothing was lost by tells of every death, at once.
LEMMA FrameGhosts ==
  ASSUME Typed, GhostInv, NEW t, GameFrame(t)
  PROVE  GhostInv'
<1>1. PICK infos \in Infos :
        /\ Store(frameId[t], infos)
        /\ DOMAIN entities' = (DOMAIN entities \cup DOMAIN infos.created) \ infos.deleted
  BY GameFrameFacts
<1>2. UNCHANGED <<sendQueue, clients, shown>>
  BY DEF GameFrame, clientVars
<1>3. OthersShowNothing'
  BY <1>2 DEF GhostInv, OthersShowNothing
<1>. SUFFICES ASSUME ~lost' PROVE NewestTold' /\ DeletesFollow' /\ NoGhostSprites'
  BY <1>3 DEF GhostInv, NoGhostSprites
<1>4. ~lost /\ NewestTold /\ DeletesFollow
  BY <1>1 DEF Store, GhostInv
<1>5. \/ newest' = newest /\ DOMAIN infos.created = {} /\ infos.deleted = {}
      \/ newest' = infos /\ newest.deleted = {}
  BY <1>1, EmptyMap DEF Store, Important
<1>6. NewestTold'
  BY <1>1, <1>4, <1>5 DEF NewestTold
<1>7. \A i : i \notin DOMAIN entities' /\ i \notin newest'.deleted =>
             i \notin DOMAIN entities /\ i \notin newest.deleted
  BY <1>1, <1>5
<1>8. DeletesFollow'
  BY <1>2, <1>4, <1>7 DEF DeletesFollow
<1>9. NoGhostSprites'
  BY <1>2, <1>4, <1>7 DEF GhostInv, NoGhostSprites
<1>. QED
  BY <1>6, <1>8, <1>9

\* The snapshot tells of nothing dead; the frame's DELETEs go with it.
LEMMA PollSendGhosts ==
  ASSUME Typed, GhostInv, PollSend
  PROVE  GhostInv'
<1> DEFINE n == Len(sendQueue)
<1>1. PICK message \in Messages :
            /\ sendQueue' = Append(sendQueue, message)
            /\ message.deleted = newest.deleted
            /\ \/ message.created = newest.created
               \/ message.created = Emplace(newest.created, Snapshot)
  BY PollSendFacts
<1>2. /\ n \in Nat /\ Len(sendQueue') = n + 1
      /\ \A k \in 1..n : k \in 1..(n + 1) /\ k <= n + 1 /\ sendQueue'[k] = sendQueue[k]
      /\ sendQueue'[n + 1] = message /\ n + 1 \in 1..(n + 1) /\ n + 1 <= n + 1
      /\ \A k \in 1..(n + 1) : k \in 1..n \/ k = n + 1
  BY <1>1 DEF Typed
<1>3. UNCHANGED <<entities, shown, clients, lost>> /\ DOMAIN newest'.created = {}
  BY EmptyMap DEF PollSend, gameVars, NoInfos
<1>4. OthersShowNothing' /\ NewestTold'
  BY <1>3 DEF GhostInv, OthersShowNothing, NewestTold
<1>. SUFFICES ASSUME ~lost PROVE DeletesFollow' /\ NoGhostSprites'
  BY <1>3, <1>4 DEF GhostInv, NoGhostSprites
<1>5. NewestTold /\ DeletesFollow
  BY DEF GhostInv
<1>6. \A i \in DOMAIN message.created : i \in DOMAIN entities \/ i \in message.deleted
  <2>1. DOMAIN message.created \subseteq DOMAIN newest.created \cup DOMAIN entities
    BY <1>1 DEF Emplace, Snapshot
  <2>. QED
    BY <1>1, <1>5, <2>1 DEF NewestTold
<1> HIDE DEF n
<1>7. DeletesFollow'
  <2>. SUFFICES ASSUME NEW k \in 1..(n + 1),
                       NEW i \in DOMAIN sendQueue'[k].created \ DOMAIN entities
                PROVE  \E l \in 1..(n + 1) : k <= l /\ i \in sendQueue'[l].deleted
    BY <1>2, <1>3 DEF DeletesFollow
  <2>1. CASE k = n + 1
    BY <1>2, <1>6, <2>1
  <2>2. CASE k \in 1..n
    <3>1. \/ i \in newest.deleted
          \/ \E l \in 1..n : k <= l /\ i \in sendQueue[l].deleted
      BY <1>2, <1>5, <2>2 DEF DeletesFollow, n
    <3>. QED
      BY <1>1, <1>2, <2>2, <3>1
  <2>. QED
    BY <1>2, <2>1, <2>2
<1>8. NoGhostSprites'
  <2>. SUFFICES ASSUME NEW e \in clients, NEW i \in DOMAIN shown[e] \ DOMAIN entities
                PROVE  \E k \in 1..(n + 1) : i \in sendQueue'[k].deleted
    BY <1>2, <1>3 DEF NoGhostSprites
  <2>1. \/ i \in newest.deleted
        \/ \E k \in 1..n : i \in sendQueue[k].deleted
    BY DEF GhostInv, NoGhostSprites, n
  <2>. QED
    BY <1>1, <1>2, <2>1
<1>. QED
  BY <1>7, <1>8

LEMMA SendTimerGhosts ==
  ASSUME Typed, GhostInv, HandleSendTimer
  PROVE  GhostInv'
<1> DEFINE n == Len(sendQueue)
<1>1. /\ n \in Nat \ {0} /\ Len(sendQueue') = n - 1
      /\ \A k \in 1..(n - 1) : k + 1 \in 1..n /\ sendQueue'[k] = sendQueue[k + 1]
      /\ \A e \in Endpoints : shown'[e] =
            IF e \in clients THEN Apply(shown[e], sendQueue[1]) ELSE shown[e]
  BY SendTimerFacts
<1>2. UNCHANGED <<entities, newest, lost, clients>>
  BY DEF HandleSendTimer, gameVars, frameVars
<1>3. OthersShowNothing' /\ (NewestTold => NewestTold')
  BY <1>1, <1>2 DEF GhostInv, OthersShowNothing, NewestTold
<1>. SUFFICES ASSUME ~lost PROVE DeletesFollow' /\ NoGhostSprites'
  BY <1>2, <1>3 DEF GhostInv, NoGhostSprites
<1>4. DeletesFollow
  BY DEF GhostInv
<1>5. ASSUME NEW l \in 1..n, l # 1
      PROVE  /\ l - 1 \in 1..(n - 1) /\ sendQueue'[l - 1] = sendQueue[l]
             /\ \A k \in 1..(n - 1) : k + 1 <= l => k <= l - 1
  <2>1. l - 1 \in 1..(n - 1) /\ (l - 1) + 1 = l
    BY <1>1, <1>5
  <2>2. sendQueue'[l - 1] = sendQueue[(l - 1) + 1]
    BY <1>1, <2>1
  <2>. QED
    BY <1>1, <2>1, <2>2
<1> HIDE DEF n
<1>6. DeletesFollow'
  <2>. SUFFICES ASSUME NEW k \in 1..(n - 1),
                       NEW i \in DOMAIN sendQueue'[k].created \ DOMAIN entities,
                       i \notin newest.deleted
                PROVE  \E l \in 1..(n - 1) : k <= l /\ i \in sendQueue'[l].deleted
    BY <1>1, <1>2 DEF DeletesFollow
  <2>1. k + 1 \in 1..n /\ sendQueue'[k] = sendQueue[k + 1]
    BY <1>1
  <2>2. PICK l \in 1..n : k + 1 <= l /\ i \in sendQueue[l].deleted
    BY <1>4, <2>1 DEF DeletesFollow, n
  <2>3. l # 1
    BY <1>1, <2>2
  <2>. QED
    BY <1>5, <2>2, <2>3
<1>7. NoGhostSprites'
  <2>. SUFFICES ASSUME NEW e \in clients, NEW i \in DOMAIN shown'[e] \ DOMAIN entities,
                       i \notin newest.deleted
                PROVE  \E k \in 1..(n - 1) : i \in sendQueue'[k].deleted
    BY <1>1, <1>2 DEF NoGhostSprites
  <2>1. shown'[e] = Apply(shown[e], sendQueue[1]) /\ 1 \in 1..n
    BY <1>1 DEF Typed, TypeOK, ClientTypeOK
  <2>2. /\ i \in DOMAIN shown[e] \/ i \in DOMAIN sendQueue[1].created
        /\ i \notin sendQueue[1].deleted
    <3>1. DOMAIN Apply(shown[e], sendQueue[1]) =
             (DOMAIN shown[e] \cup DOMAIN sendQueue[1].created) \ sendQueue[1].deleted
      BY ApplyDomain
    <3>. QED
      BY <2>1, <3>1
  <2>3. PICK l \in 1..n : i \in sendQueue[l].deleted
    BY <1>4, <2>1, <2>2 DEF GhostInv, NoGhostSprites, DeletesFollow, n
  <2>. QED
    BY <1>5, <2>2, <2>3
<1>. QED
  BY <1>6, <1>7

LEMMA GhostStep == Typed /\ GhostInv /\ [Next]_vars => GhostInv'
<1>. SUFFICES ASSUME Typed, GhostInv, [Next]_vars PROVE GhostInv'
  OBVIOUS
<1>1. CASE PollSend
  BY <1>1, PollSendGhosts
<1>2. CASE HandleSendTimer
  BY <1>2, SendTimerGhosts
<1>3. CASE Frame
  BY <1>3, FrameGhosts DEF Frame
<1>4. CASE Join \/ Leave \/ Restart
  <2>1. UNCHANGED <<entities, newest, lost, sendQueue>>
    BY <1>4 DEF Join, Leave, Restart, gameVars, frameVars
  <2>2. DOMAIN shown = Endpoints /\ clients \subseteq Endpoints
    BY DEF Typed, TypeOK, ClientTypeOK
  <2>3. \A e \in Endpoints : DOMAIN shown'[e] = {} \/ (shown'[e] = shown[e] /\ (e \in clients <=> e \in clients'))
    BY <1>4, <2>2, EmptyMap DEF Join, Leave, Restart, GhostInv, OthersShowNothing
  <2>4. clients' \subseteq Endpoints
    BY <1>4, <2>2 DEF Join, Leave, Restart
  <2>5. OthersShowNothing' /\ NoGhostSprites'
    BY <2>1, <2>3, <2>4 DEF GhostInv, OthersShowNothing, NoGhostSprites
  <2>. QED
    BY <2>1, <2>5 DEF GhostInv, NewestTold, DeletesFollow
<1>5. CASE UNCHANGED <<entities, newest, lost, sendQueue, shown, clients>>
  BY <1>5 DEF GhostInv, NewestTold, DeletesFollow, OthersShowNothing, NoGhostSprites
<1>6. CASE StartGame \/ Warm \/ StartServer \/ PollCompare \/ PollCount \/ UNCHANGED vars
  BY <1>5, <1>6
     DEF StartGame, Warm, StartServer, PollCompare, PollCount, vars, gameVars, frameVars,
         clientVars
<1>. QED
  BY <1>1, <1>2, <1>3, <1>4, <1>6 DEF Next, Poll

\* For any clients and any game in which nothing was overtaken or dropped: a
\* sprite of something dead has its DELETE on its way.
THEOREM FeedNoGhosts == Spec => []NoGhostSprites
<1>1. GhostInv => NoGhostSprites
  BY DEF GhostInv
<1>. QED
  BY <1>1, InitTyped, TypedStep, InitGhosts, GhostStep, PTL DEF Spec

------------------------------------------------------------------------------
(* Newcomers.                                                              *)

Needed == {i \in DOMAIN entities : entities[i].kind \in SnapshotKinds}

\* What client e shows of i, or will show without a further snapshot.
Told(e, i) ==
  \/ i \in DOMAIN shown[e]
  \/ i \in DOMAIN newest.created
  \/ \E k \in 1..Len(sendQueue) : i \in DOMAIN sendQueue[k].created

\* A poll has decided on a snapshot, or the next one will.
SnapshotDue == pc = "snapshot" \/ lastClientCount < Cardinality(clients)

\* Nothing that is there has its DELETE on its way.
AliveNotDeleted ==
  /\ newest.deleted \cap DOMAIN entities = {}
  /\ \A k \in 1..Len(sendQueue) : sendQueue[k].deleted \cap DOMAIN entities = {}

\* A DELETE is of an id that was given, so of none to come.
DeletesGiven ==
  \A k \in 1..Len(sendQueue) : sendQueue[k].deleted \subseteq 0..(idToSet - 1)

\* Before Server::run begins nothing was sent of what the game creates.
NothingSentYet ==
  pc = "start" => \A i \in DOMAIN entities : i \in DOMAIN newest.created

\* What the newest frame tells is kept until the frame is sent, no longer.
SentIsEmpty == ~Unsent => DOMAIN newest.created = {}

CatchUpInv ==
  /\ SentIsEmpty
  /\ DeletesGiven
  /\ AliveNotDeleted
  /\ ~left => lastClientCount <= Cardinality(clients)
  /\ ~lost => NothingSentYet
  /\ ~lost /\ ~left /\ ~SnapshotDue =>
        \A e \in clients : \A i \in Needed : Told(e, i)

LEMMA InitCatchUp == Init => CatchUpInv
<1>. SUFFICES ASSUME Init PROVE CatchUpInv
  OBVIOUS
<1>1. /\ DOMAIN entities = {} /\ Len(sendQueue) = 0 /\ clients = {} /\ lastClientCount = 0
  BY EmptyMap DEF Init
<1>2. Cardinality(clients) = 0
  BY <1>1, FS_EmptySet
<1>3. SentIsEmpty
  BY EmptyMap DEF Init, NoInfos, SentIsEmpty
<1>. QED
  BY <1>1, <1>2, <1>3
     DEF CatchUpInv, DeletesGiven, AliveNotDeleted, NothingSentYet, Needed

LEMMA SentIsEmptyUntouched ==
  ASSUME SentIsEmpty, UNCHANGED frameVars
  PROVE  SentIsEmpty'
BY DEF SentIsEmpty, frameVars, Unsent, NewestId

LEMMA ClientsFinite ==
  ASSUME Typed
  PROVE  IsFiniteSet(clients) /\ Cardinality(clients) \in Nat /\ lastClientCount \in Nat
<1>1. IsFiniteSet(clients)
  BY FeedAssumption, FS_Subset DEF Typed, TypeOK, ClientTypeOK
<1>2. Cardinality(Endpoints) \in Nat
  BY FeedAssumption, FS_CardinalityType
<1>. QED
  BY <1>1, <1>2, FS_CardinalityType DEF Typed, TypeOK, PollTypeOK

\* An entity keeps its type.
LEMMA FrameKeepsKinds ==
  ASSUME Typed, NEW t, GameFrame(t), NEW i \in DOMAIN entities, i \in DOMAIN entities'
  PROVE  entities'[i].kind = entities[i].kind
<1>1. PICK k \in 0..(MaxEntities - idToSet) :
        LET new == idToSet .. (idToSet + k - 1)
            all == DOMAIN entities \cup new
        IN \E kind \in [new -> Kinds], born \in [new -> Positions], gone \in SUBSET all :
           \E pos \in [all \ gone -> Positions] :
              /\ entities' = [j \in all \ gone |->
                    [kind |-> IF j \in new THEN kind[j] ELSE entities[j].kind,
                     pos |-> pos[j]]]
              /\ idToSet' = idToSet + k
              /\ Store(frameId[t], [created |-> born, deleted |-> gone])
  BY DEF GameFrame, NewIds
<1> DEFINE new == idToSet .. (idToSet + k - 1)
           all == DOMAIN entities \cup new
<1>2. PICK kind \in [new -> Kinds], born \in [new -> Positions], gone \in SUBSET all :
        \E pos \in [all \ gone -> Positions] :
              /\ entities' = [j \in all \ gone |->
                    [kind |-> IF j \in new THEN kind[j] ELSE entities[j].kind,
                     pos |-> pos[j]]]
              /\ idToSet' = idToSet + k
              /\ Store(frameId[t], [created |-> born, deleted |-> gone])
  BY <1>1
<1>3. i \notin new
  BY DEF Typed, TypeOK, GameTypeOK
<1> HIDE DEF new, all
<1>. QED
  BY <1>2, <1>3

\* A frame that is stored is the newest, and unsent; one that finds its number
\* taken changes nothing.
LEMMA FrameSentIsEmpty ==
  ASSUME Typed, SentIsEmpty, NEW t, GameFrame(t)
  PROVE  SentIsEmpty'
<1> DEFINE id == frameId[t]
<1>1. PICK infos \in Infos : Store(id, infos)
  BY GameFrameFacts
<1>2. /\ NewestId \in Int /\ NewestId >= -1 /\ DOMAIN engineFrames = 0..NewestId
      /\ Cardinality(DOMAIN engineFrames) = NewestId + 1
      /\ engineFrames \in [0..NewestId -> BOOLEAN]
  BY FrameCount DEF Typed, TypeOK, FrameTypeOK
<1>3. id \in 0..(NewestId + 1)
  BY <1>2, GameFrameFacts DEF Typed, TypeOK, GameTypeOK, NoThreadAhead
<1>4. engineFrames' = Emplace(engineFrames, [i \in {id} |-> FALSE])
  BY <1>1 DEF Store
<1> HIDE DEF id
<1>5. CASE id \in DOMAIN engineFrames
  <2>1. engineFrames' = engineFrames
    BY <1>2, <1>4, <1>5 DEF Emplace
  <2>2. newest' = newest
    BY <1>1, <1>5 DEF Store
  <2>3. Unsent' = Unsent
    BY <2>1 DEF Unsent, NewestId
  <2>. QED
    BY <2>2, <2>3 DEF SentIsEmpty
<1>6. CASE id \notin DOMAIN engineFrames
  <2>1. id = NewestId + 1
    BY <1>2, <1>3, <1>6
  <2>2. DOMAIN engineFrames' = 0..id /\ engineFrames'[id] = FALSE
    BY <1>2, <1>4, <2>1 DEF Emplace
  <2>3. Cardinality(0..id) = id + 1
    BY <1>2, <1>3, FS_Interval
  <2>4. NewestId' = id
    BY <1>2, <1>3, <2>2, <2>3 DEF NewestId
  <2>5. engineFrames' # Empty
    BY <1>2, <1>3, <2>2, EmptyMap
  <2>. QED
    BY <2>2, <2>4, <2>5 DEF Unsent, SentIsEmpty
<1>. QED
  BY <1>5, <1>6

\* A frame that nothing was lost by creates what is new, at once.
LEMMA FrameCatchUp ==
  ASSUME Typed, CatchUpInv, NEW t, GameFrame(t)
  PROVE  CatchUpInv'
<1>1. PICK infos \in Infos :
        /\ Store(frameId[t], infos)
        /\ DOMAIN infos.created \subseteq idToSet..(idToSet' - 1)
        /\ infos.deleted \subseteq 0..(idToSet' - 1)
        /\ DOMAIN entities' = (DOMAIN entities \cup DOMAIN infos.created) \ infos.deleted
  BY GameFrameFacts
<1>2. UNCHANGED <<sendQueue, clients, shown, pc, lastClientCount, left>>
  BY DEF GameFrame, clientVars, pollVars
<1>3. /\ idToSet \in Nat /\ idToSet' \in Nat /\ idToSet <= idToSet'
      /\ newest.deleted \subseteq 0..(idToSet - 1)
  BY GameFrameFacts DEF Typed, TypeOK, GameTypeOK, FrameTypeOK
<1>4. DeletesGiven'
  BY <1>2, <1>3 DEF CatchUpInv, DeletesGiven
<1>5. newest' \in {newest, infos}
  BY <1>1 DEF Store
<1>6. AliveNotDeleted'
  <2>1. ASSUME NEW D \in SUBSET (0..(idToSet - 1)), D \cap DOMAIN entities = {}
        PROVE  D \cap DOMAIN entities' = {}
    BY <1>1, <1>3, <2>1
  <2>2. newest'.deleted \cap DOMAIN entities' = {}
    BY <1>1, <1>3, <1>5, <2>1 DEF CatchUpInv, AliveNotDeleted
  <2>3. \A k \in 1..Len(sendQueue) : sendQueue[k].deleted \cap DOMAIN entities' = {}
    BY <2>1 DEF CatchUpInv, AliveNotDeleted, DeletesGiven
  <2>. QED
    BY <1>2, <2>2, <2>3 DEF AliveNotDeleted
<1>7. ASSUME ~lost'
      PROVE  /\ ~lost
             /\ \A i \in DOMAIN entities' : i \in DOMAIN entities \/ i \in DOMAIN newest'.created
             /\ \A i \in DOMAIN newest.created : i \in DOMAIN newest'.created
  <2>1. \/ newest' = newest /\ DOMAIN infos.created = {}
        \/ newest' = infos /\ DOMAIN newest.created = {}
    BY <1>1, <1>7, EmptyMap DEF Store, Important
  <2>2. ~lost
    BY <1>1, <1>7 DEF Store
  <2>. QED
    BY <1>1, <2>1, <2>2
<1>8. ~lost' => NothingSentYet'
  BY <1>2, <1>7 DEF CatchUpInv, NothingSentYet
<1>9. ASSUME ~lost', ~left', ~SnapshotDue', NEW e \in clients', NEW i \in Needed'
      PROVE  Told(e, i)'
  <2>1. ~lost /\ ~left /\ ~SnapshotDue /\ e \in clients
    BY <1>2, <1>7, <1>9 DEF SnapshotDue
  <2>2. CASE i \in DOMAIN newest'.created
    BY <2>2 DEF Told
  <2>3. CASE i \notin DOMAIN newest'.created
    <3>1. i \in DOMAIN entities
      BY <1>7, <1>9, <2>3 DEF Needed
    <3>2. entities[i].kind = entities'[i].kind
      BY <1>3, <1>9, <3>1, FrameKeepsKinds DEF Needed
    <3>3. Told(e, i)
      BY <1>9, <2>1, <3>1, <3>2 DEF Needed, CatchUpInv
    <3>. QED
      BY <1>2, <1>7, <1>9, <3>3 DEF Told
  <2>. QED
    BY <2>2, <2>3
<1>10. ~left' => lastClientCount' <= Cardinality(clients')
  BY <1>2 DEF CatchUpInv
<1>11. SentIsEmpty'
  BY FrameSentIsEmpty DEF CatchUpInv
<1>. QED
  BY <1>4, <1>6, <1>8, <1>9, <1>10, <1>11 DEF CatchUpInv

LEMMA PollSendTells ==
  ASSUME Typed, PollSend
  PROVE  \E message \in Messages :
            /\ sendQueue' = Append(sendQueue, message)
            /\ message.deleted = newest.deleted
            /\ DOMAIN newest.created \subseteq DOMAIN message.created
            /\ pc = "snapshot" => Needed \subseteq DOMAIN message.created
<1>1. PICK message \in Messages :
            /\ sendQueue' = Append(sendQueue, message)
            /\ message.deleted = newest.deleted
            /\ \/ message.created = newest.created
               \/ message.created = Emplace(newest.created, Snapshot)
            /\ pc = "snapshot" => message.created = Emplace(newest.created, Snapshot)
  BY PollSendFacts
<1>2. DOMAIN Emplace(newest.created, Snapshot) = DOMAIN newest.created \cup Needed
  BY DEF Emplace, Snapshot, Needed
<1>. QED
  BY <1>1, <1>2

\* What a poll sends tells every client what the frame created, and all there
\* is when somebody is new.
LEMMA PollSendCatchUp ==
  ASSUME Typed, CatchUpInv, PollSend
  PROVE  CatchUpInv'
<1> DEFINE n == Len(sendQueue)
<1>1. PICK message \in Messages :
            /\ sendQueue' = Append(sendQueue, message)
            /\ message.deleted = newest.deleted
            /\ DOMAIN newest.created \subseteq DOMAIN message.created
            /\ pc = "snapshot" => Needed \subseteq DOMAIN message.created
  BY PollSendTells
<1>2. /\ n \in Nat /\ Len(sendQueue') = n + 1
      /\ \A k \in 1..n : k \in 1..(n + 1) /\ sendQueue'[k] = sendQueue[k]
      /\ sendQueue'[n + 1] = message /\ n + 1 \in 1..(n + 1)
      /\ \A k \in 1..(n + 1) : k \in 1..n \/ k = n + 1
  BY <1>1 DEF Typed
<1>3. /\ UNCHANGED <<entities, idToSet, shown, clients, lost, left, lastClientCount>>
      /\ DOMAIN newest'.created = {} /\ newest'.deleted = {}
      /\ pc' = "poll" /\ pc \in {"snapshot", "send"}
  BY EmptyMap DEF PollSend, gameVars, NoInfos
<1> HIDE DEF n
<1>4. DeletesGiven'
  BY <1>1, <1>2, <1>3 DEF Typed, TypeOK, FrameTypeOK, CatchUpInv, DeletesGiven, n
<1>5. AliveNotDeleted'
  BY <1>1, <1>2, <1>3 DEF CatchUpInv, AliveNotDeleted, n
<1>6. NothingSentYet' /\ (~left' => lastClientCount' <= Cardinality(clients'))
  BY <1>3 DEF CatchUpInv, NothingSentYet
<1>7. ASSUME ~lost', ~left', ~SnapshotDue', NEW e \in clients', NEW i \in Needed'
      PROVE  Told(e, i)'
  <2>1. i \in Needed /\ e \in clients
    BY <1>3, <1>7 DEF Needed
  <2>2. i \in DOMAIN message.created => Told(e, i)'
    BY <1>2 DEF Told
  <2>3. CASE pc = "snapshot"
    BY <1>1, <2>1, <2>2, <2>3
  <2>4. CASE pc # "snapshot"
    <3>1. ~SnapshotDue
      BY <1>3, <1>7, <2>4 DEF SnapshotDue
    <3>2. Told(e, i)
      BY <1>3, <1>7, <2>1, <3>1 DEF CatchUpInv
    <3>3. CASE i \in DOMAIN newest.created
      BY <1>1, <2>2, <3>3
    <3>4. CASE i \in DOMAIN shown[e]
      BY <1>3, <3>4 DEF Told
    <3>5. CASE \E k \in 1..n : i \in DOMAIN sendQueue[k].created
      BY <1>2, <3>5 DEF Told
    <3>. QED
      BY <3>2, <3>3, <3>4, <3>5 DEF Told, n
  <2>. QED
    BY <2>3, <2>4
<1>8. SentIsEmpty'
  BY <1>3 DEF SentIsEmpty
<1>. QED
  BY <1>4, <1>5, <1>6, <1>7, <1>8 DEF CatchUpInv

\* What a message creates is shown by all who are there.
LEMMA SendTimerCatchUp ==
  ASSUME Typed, CatchUpInv, HandleSendTimer
  PROVE  CatchUpInv'
<1> DEFINE n == Len(sendQueue)
<1>1. /\ n \in Nat \ {0} /\ Len(sendQueue') = n - 1
      /\ \A k \in 1..(n - 1) : k + 1 \in 1..n /\ sendQueue'[k] = sendQueue[k + 1]
      /\ \A e \in Endpoints : shown'[e] =
            IF e \in clients THEN Apply(shown[e], sendQueue[1]) ELSE shown[e]
  BY SendTimerFacts
<1>2. UNCHANGED <<entities, idToSet, newest, lost, clients, left, pc, lastClientCount>>
  BY DEF HandleSendTimer, gameVars, frameVars, pollVars
<1> HIDE DEF n
<1>3. DeletesGiven' /\ AliveNotDeleted'
  BY <1>1, <1>2 DEF CatchUpInv, DeletesGiven, AliveNotDeleted, n
<1>4. /\ ~lost' => NothingSentYet'
      /\ ~left' => lastClientCount' <= Cardinality(clients')
  BY <1>2 DEF CatchUpInv, NothingSentYet
<1>5. ASSUME ~lost', ~left', ~SnapshotDue', NEW e \in clients', NEW i \in Needed'
      PROVE  Told(e, i)'
  <2>1. i \in Needed /\ e \in clients /\ e \in Endpoints /\ i \in DOMAIN entities
    BY <1>2, <1>5 DEF Needed, Typed, TypeOK, ClientTypeOK
  <2>2. Told(e, i)
    BY <1>2, <1>5, <2>1 DEF SnapshotDue, CatchUpInv
  <2>3. 1 \in 1..n /\ i \notin sendQueue[1].deleted
    BY <1>1, <2>1 DEF CatchUpInv, AliveNotDeleted, n
  <2>4. DOMAIN shown'[e] =
             (DOMAIN shown[e] \cup DOMAIN sendQueue[1].created) \ sendQueue[1].deleted
    <3>1. shown'[e] = Apply(shown[e], sendQueue[1])
      BY <1>1, <2>1
    <3>. QED
      BY <3>1, ApplyDomain
  <2>5. CASE i \in DOMAIN shown[e] \/ i \in DOMAIN sendQueue[1].created
    BY <2>3, <2>4, <2>5 DEF Told
  <2>6. CASE i \in DOMAIN newest.created
    BY <1>2, <2>6 DEF Told
  <2>7. ASSUME NEW k \in 1..n, k # 1, i \in DOMAIN sendQueue[k].created
        PROVE  Told(e, i)'
    <3>1. k - 1 \in 1..(n - 1) /\ (k - 1) + 1 = k
      BY <1>1, <2>7
    <3>2. sendQueue'[k - 1] = sendQueue[(k - 1) + 1]
      BY <1>1, <3>1
    <3>. QED
      BY <1>1, <2>7, <3>1, <3>2 DEF Told
  <2>. QED
    BY <2>2, <2>5, <2>6, <2>7 DEF Told, n
<1>6. SentIsEmpty'
  BY SentIsEmptyUntouched DEF CatchUpInv, HandleSendTimer
<1>. QED
  BY <1>3, <1>4, <1>5, <1>6 DEF CatchUpInv

LEMMA JoinCatchUp ==
  ASSUME Typed, CatchUpInv, Join
  PROVE  CatchUpInv'
<1>1. PICK e \in Endpoints \ clients : clients' = clients \cup {e}
  BY DEF Join
<1>2. UNCHANGED <<entities, idToSet, newest, lost, left, pc, lastClientCount, sendQueue, shown>>
  BY DEF Join, gameVars, frameVars, pollVars
<1>3. Cardinality(clients') = Cardinality(clients) + 1
  BY <1>1, ClientsFinite, FS_AddElement
<1>4. ~left => lastClientCount' < Cardinality(clients')
  BY <1>2, <1>3, ClientsFinite DEF CatchUpInv
<1>5. ~left' => SnapshotDue'
  BY <1>2, <1>4 DEF SnapshotDue
<1>6. lastClientCount' < Cardinality(clients') => lastClientCount' <= Cardinality(clients')
  BY <1>2, <1>3, ClientsFinite
<1>7. SentIsEmpty'
  BY SentIsEmptyUntouched DEF CatchUpInv, Join
<1>. QED
  BY <1>2, <1>4, <1>5, <1>6, <1>7
     DEF CatchUpInv, DeletesGiven, AliveNotDeleted, NothingSentYet

\* A poll that finds nobody new goes on without a snapshot; one that finds
\* somebody counts again, and takes the snapshot after that.
LEMMA PollReadsCatchUp ==
  ASSUME Typed, CatchUpInv, StartServer \/ PollCompare \/ PollCount
  PROVE  CatchUpInv'
<1>1. UNCHANGED <<entities, idToSet, newest, lost, left, clients, sendQueue, shown>>
  BY DEF StartServer, PollCompare, PollCount, gameVars, frameVars, clientVars
<1>2. DeletesGiven' /\ AliveNotDeleted' /\ NothingSentYet'
  BY <1>1 DEF CatchUpInv, DeletesGiven, AliveNotDeleted, NothingSentYet,
              StartServer, PollCompare, PollCount
<1>3. lastClientCount' \in {lastClientCount, Cardinality(clients)}
  BY DEF StartServer, PollCompare, PollCount
<1>4. ~left' => lastClientCount' <= Cardinality(clients')
  BY <1>1, <1>3, ClientsFinite DEF CatchUpInv
<1>5. ASSUME ~lost', ~left', ~SnapshotDue', NEW e \in clients', NEW i \in Needed'
      PROVE  Told(e, i)'
  <2>1. i \in Needed /\ e \in clients /\ (Told(e, i) => Told(e, i)')
    BY <1>1, <1>5 DEF Needed, Told
  <2>2. CASE StartServer
    <3>1. i \in DOMAIN newest.created
      BY <1>1, <1>5, <2>1, <2>2 DEF StartServer, Needed, CatchUpInv, NothingSentYet
    <3>. QED
      BY <2>1, <3>1 DEF Told
  <2>3. CASE PollCompare
    <3>1. ~SnapshotDue
      BY <1>1, <1>5, <2>3 DEF PollCompare, SnapshotDue
    <3>. QED
      BY <1>1, <1>5, <2>1, <3>1 DEF CatchUpInv
  <2>4. CASE PollCount
    BY <1>5, <2>4 DEF PollCount, SnapshotDue
  <2>. QED
    BY <2>2, <2>3, <2>4
<1>6. SentIsEmpty'
  BY SentIsEmptyUntouched DEF CatchUpInv, StartServer, PollCompare, PollCount
<1>. QED
  BY <1>2, <1>4, <1>5, <1>6 DEF CatchUpInv

LEMMA CatchUpStep == Typed /\ CatchUpInv /\ [Next]_vars => CatchUpInv'
<1>. SUFFICES ASSUME Typed, CatchUpInv, [Next]_vars PROVE CatchUpInv'
  OBVIOUS
<1>1. CASE PollSend
  BY <1>1, PollSendCatchUp
<1>2. CASE HandleSendTimer
  BY <1>2, SendTimerCatchUp
<1>3. CASE Frame
  BY <1>3, FrameCatchUp DEF Frame
<1>4. CASE Join
  BY <1>4, JoinCatchUp
<1>5. CASE StartServer \/ PollCompare \/ PollCount
  BY <1>5, PollReadsCatchUp
<1>6. CASE Leave \/ Restart
  <2>1. UNCHANGED <<entities, idToSet, newest, lost, pc, sendQueue>> /\ left'
    BY <1>6 DEF Leave, Restart, gameVars, frameVars, pollVars
  <2>2. SentIsEmpty'
    BY <1>6, SentIsEmptyUntouched DEF CatchUpInv, Leave, Restart
  <2>. QED
    BY <2>1, <2>2 DEF CatchUpInv, DeletesGiven, AliveNotDeleted, NothingSentYet
<1>7. CASE UNCHANGED <<entities, idToSet, frameVars, left, pc, lastClientCount,
                       clients, sendQueue, shown>>
  <2>1. SentIsEmpty' /\ UNCHANGED <<newest, lost>>
    BY <1>7, SentIsEmptyUntouched DEF CatchUpInv, frameVars
  <2>. QED
    BY <1>7, <2>1 DEF CatchUpInv, DeletesGiven, AliveNotDeleted, NothingSentYet, SnapshotDue,
              Needed, Told
<1>8. CASE StartGame \/ Warm \/ UNCHANGED vars
  BY <1>7, <1>8 DEF StartGame, Warm, vars, gameVars, pollVars, clientVars
<1>. QED
  BY <1>1, <1>2, <1>3, <1>4, <1>5, <1>6, <1>8 DEF Next, Poll

\* For any clients and any game in which nothing was overtaken or dropped and
\* nobody has left: once nothing is on its way, all clients show what is there.
THEOREM FeedCatchUp == Spec => []NewcomersCatchUp
<1>1. ASSUME Typed, CatchUpInv, PositionInv PROVE NewcomersCatchUp
  <2>. SUFFICES ASSUME Settled, ~lost, ~left, NEW e \in clients, NEW i \in Needed
                PROVE  i \in DOMAIN shown[e] /\ shown[e][i] = entities[i].pos
    BY DEF NewcomersCatchUp, InSync, Needed
  <2>1. ~SnapshotDue
    BY <1>1, ClientsFinite DEF Settled, SnapshotDue
  <2>2. Len(sendQueue) = 0
    BY DEF Settled
  <2>3. i \notin DOMAIN newest.created
    BY <1>1, EmptyMap DEF Settled, CatchUpInv, SentIsEmpty
  <2>4. i \in DOMAIN shown[e]
    BY <1>1, <2>1, <2>2, <2>3 DEF CatchUpInv, Told
  <2>5. i \in DOMAIN lastKnown /\ lastKnown[i] = entities[i].pos
    <3>1. DOMAIN Changed = {}
      BY EmptyMap DEF Settled
    <3>. QED
      BY <3>1 DEF Changed, Needed
  <2>6. shown[e][i] = lastKnown[i]
    BY <1>1, <2>2, <2>4, <2>5 DEF PositionInv, PositionsAgree
  <2>. QED
    BY <2>4, <2>5, <2>6
<1>. QED
  BY <1>1, InitTyped, TypedStep, InitPositions, PositionStep, InitCatchUp, CatchUpStep,
     PTL DEF Spec
=============================================================================
