---------------------------- MODULE FeedLogProofs ----------------------------
(***************************************************************************)
(* One life for each entity in what is broadcast, for any game and any     *)
(* number of game threads: what ClientView assumes of the frames it shows. *)
(***************************************************************************)
EXTENDS FeedLog, FrameFeedProofs

\* Only frames marked as sent are in the log; what they tell of was given, what
\* they delete is dead, and the frame not yet sent repeats nothing of it.
LogInv ==
  /\ \A n \in DOMAIN log : n \in DOMAIN engineFrames /\ engineFrames[n] = TRUE
  /\ \A n \in DOMAIN log :
        /\ log[n].made \subseteq 0..(idToSet - 1)
        /\ log[n].deleted \subseteq 0..(idToSet - 1)
        /\ log[n].deleted \cap DOMAIN entities = {}
        /\ log[n].made \cap DOMAIN newest.created = {}
        /\ log[n].deleted \cap DOMAIN newest.created = {}
        /\ log[n].deleted \cap newest.deleted = {}
  /\ newest.deleted \cap DOMAIN entities = {}
  /\ OneLife

LEMMA LogInitInv == LogInit => LogInv
<1>. SUFFICES ASSUME LogInit PROVE LogInv
  OBVIOUS
<1>1. DOMAIN log = {} /\ newest.deleted = {}
  BY DEF LogInit, Init, NoInfos, Empty
<1>. QED
  BY <1>1 DEF LogInv, OneLife

\* A frame creates under ids never given, and deletes what is there.
LEMMA GameFrameLog ==
  ASSUME Typed, LogInv, NEW t, GameFrame(t), log' = log
  PROVE  LogInv'
<1>1. PICK infos \in Infos :
        /\ Store(frameId[t], infos)
        /\ DOMAIN infos.created \subseteq idToSet..(idToSet' - 1)
        /\ infos.deleted \subseteq 0..(idToSet' - 1)
        /\ infos.deleted \subseteq DOMAIN entities \cup DOMAIN infos.created
        /\ DOMAIN entities' = (DOMAIN entities \cup DOMAIN infos.created) \ infos.deleted
  BY GameFrameFacts
<1>2. frameId[t] \in 0..(NewestId + 1)
  <2>1. /\ NewestId \in Int /\ Cardinality(DOMAIN engineFrames) = NewestId + 1
        /\ t \in DOMAIN frameId /\ frameId \in Seq(Nat)
    BY FrameCount, GameFrameFacts DEF Typed, TypeOK, GameTypeOK
  <2>. QED
    BY <2>1 DEF Typed, NoThreadAhead
<1>3. /\ \A i \in DOMAIN engineFrames :
            i \in DOMAIN engineFrames' /\ engineFrames'[i] = engineFrames[i]
      /\ newest' \in {newest, infos}
  BY <1>1, <1>2, StoreFacts
<1>4. /\ idToSet \in Nat /\ idToSet' \in Nat /\ idToSet <= idToSet'
      /\ DOMAIN newest.created \subseteq 0..(idToSet - 1)
      /\ newest.deleted \subseteq 0..(idToSet - 1)
      /\ DOMAIN entities \subseteq 0..(idToSet - 1)
  BY GameFrameFacts, FeedAssumption DEF Typed, TypeOK, GameTypeOK, FrameTypeOK
<1>5. \A i \in DOMAIN infos.created : i \notin 0..(idToSet - 1)
  BY <1>1, <1>4
<1>6. 0..(idToSet - 1) \subseteq 0..(idToSet' - 1)
  BY <1>4
<1>7. newest'.deleted \cap DOMAIN entities' = {}
  BY <1>1, <1>3, <1>4, <1>5 DEF LogInv
<1>8. ASSUME NEW n \in DOMAIN log
      PROVE  /\ log[n].made \subseteq 0..(idToSet' - 1)
             /\ log[n].deleted \subseteq 0..(idToSet' - 1)
             /\ log[n].deleted \cap DOMAIN entities' = {}
             /\ log[n].made \cap DOMAIN newest'.created = {}
             /\ log[n].deleted \cap DOMAIN newest'.created = {}
             /\ log[n].deleted \cap newest'.deleted = {}
  BY <1>1, <1>3, <1>5, <1>6 DEF LogInv
<1>9. \A n \in DOMAIN log : n \in DOMAIN engineFrames' /\ engineFrames'[n] = TRUE
  BY <1>3 DEF LogInv
<1>10. OneLife'
  BY DEF LogInv, OneLife
<1>. QED
  BY <1>7, <1>8, <1>9, <1>10 DEF LogInv

\* The frame sent creates what it bore and what is there.
LEMMA SentFacts ==
  ASSUME Typed, PollSend
  PROVE  /\ SentPackets.born = DOMAIN newest.created
         /\ SentPackets.made \subseteq DOMAIN newest.created \cup DOMAIN entities
         /\ SentPackets.deleted = newest.deleted
<1>1. PICK message \in Messages :
        /\ sendQueue' = Append(sendQueue, message)
        /\ message.deleted = newest.deleted
        /\ \/ message.created = newest.created
           \/ message.created = Emplace(newest.created, Snapshot)
  BY PollSendFacts
<1>2. Sent = message
  BY <1>1 DEF Typed, Sent, Last
<1>3. DOMAIN message.created \subseteq DOMAIN newest.created \cup DOMAIN entities
  BY <1>1 DEF Emplace, Snapshot
<1>. QED
  BY <1>1, <1>2, <1>3 DEF SentPackets

\* The frame broadcast has the highest number, and repeats nothing.
LEMMA PollSendLog ==
  ASSUME Typed, LogInv, PollSend,
         log' = Assign(log, [n \in {NewestId} |-> SentPackets])
  PROVE  LogInv'
<1> DEFINE N == NewestId
<1>1. /\ N \in Nat /\ DOMAIN engineFrames = 0..N
      /\ engineFrames[N] = FALSE /\ N \in DOMAIN engineFrames
      /\ engineFrames' = [engineFrames EXCEPT ![N] = TRUE]
  BY FrameCount DEF PollSend, Typed, TypeOK, PollTypeOK
<1>2. /\ DOMAIN newest'.created = {} /\ newest'.deleted = {}
      /\ UNCHANGED <<entities, idToSet>>
  BY EmptyMap DEF PollSend, gameVars, NoInfos
<1>3. /\ DOMAIN log' = DOMAIN log \cup {N}
      /\ \A n \in DOMAIN log \ {N} : log'[n] = log[n]
      /\ log'[N] = SentPackets
  BY DEF Assign
<1>4. /\ SentPackets.born = DOMAIN newest.created
      /\ SentPackets.made \subseteq DOMAIN newest.created \cup DOMAIN entities
      /\ SentPackets.deleted = newest.deleted
  BY SentFacts
<1> HIDE DEF N
<1>5. \A n \in DOMAIN log : n \in Nat /\ n < N
  BY <1>1 DEF LogInv
<1>6. /\ \A n \in DOMAIN log : log'[n] = log[n]
      /\ N \notin DOMAIN log
  BY <1>1, <1>3, <1>5
<1>7. \A n \in DOMAIN log' : n \in DOMAIN engineFrames' /\ engineFrames'[n] = TRUE
  BY <1>1, <1>3 DEF LogInv
<1>8. /\ DOMAIN newest.created \subseteq 0..(idToSet - 1)
      /\ newest.deleted \subseteq 0..(idToSet - 1)
      /\ DOMAIN entities \subseteq 0..(idToSet - 1)
  BY DEF Typed, TypeOK, FrameTypeOK, GameTypeOK
<1>9. ASSUME NEW n \in DOMAIN log'
      PROVE  /\ log'[n].made \subseteq 0..(idToSet - 1)
             /\ log'[n].deleted \subseteq 0..(idToSet - 1)
             /\ log'[n].deleted \cap DOMAIN entities = {}
  BY <1>3, <1>4, <1>6, <1>8 DEF LogInv
<1>10. OneLife'
  <2>1. ASSUME NEW m \in DOMAIN log', NEW n \in DOMAIN log', m < n
        PROVE  /\ log'[m].made \cap log'[n].born = {}
               /\ log'[m].deleted \cap log'[n].deleted = {}
               /\ log'[m].deleted \cap log'[n].made = {}
    <3>1. m \in DOMAIN log
      BY <1>1, <1>3, <1>5, <2>1
    <3>2. CASE n \in DOMAIN log
      BY <1>6, <2>1, <3>1, <3>2 DEF LogInv, OneLife
    <3>3. CASE n = N
      BY <1>3, <1>4, <1>6, <3>1, <3>3 DEF LogInv
    <3>. QED
      BY <1>3, <3>2, <3>3
  <2>2. ASSUME NEW n \in DOMAIN log'
        PROVE  (log'[n].made \ log'[n].born) \cap log'[n].deleted = {}
    <3>1. CASE n \in DOMAIN log
      BY <1>6, <3>1 DEF LogInv, OneLife
    <3>2. CASE n = N
      BY <1>3, <1>4, <3>2 DEF LogInv
    <3>. QED
      BY <1>3, <3>1, <3>2
  <2>. QED
    BY <2>1, <2>2 DEF OneLife
<1>. QED
  BY <1>2, <1>7, <1>9, <1>10 DEF LogInv

LEMMA LogStep == Typed /\ LogInv /\ [LogNext]_logVars => LogInv'
<1>. SUFFICES ASSUME Typed, LogInv, [LogNext]_logVars PROVE LogInv'
  OBVIOUS
<1>1. CASE LogNext /\ PollSend
  BY <1>1, PollSendLog DEF LogNext
<1>2. CASE LogNext /\ ~PollSend
  <2>1. log' = log /\ Next
    BY <1>2 DEF LogNext
  <2>2. CASE Frame
    BY <2>1, <2>2, GameFrameLog DEF Frame
  <2>3. CASE UNCHANGED <<entities, idToSet, engineFrames, newest, log>>
    BY <2>3 DEF LogInv, OneLife
  <2>. QED
    BY <1>2, <2>1, <2>2, <2>3
       DEF Next, Poll, StartGame, Warm, StartServer, PollCompare, PollCount, HandleSendTimer,
           Join, Leave, Restart, gameVars, frameVars
<1>3. CASE UNCHANGED logVars
  BY <1>3 DEF logVars, vars, gameVars, frameVars, LogInv, OneLife
<1>. QED
  BY <1>1, <1>2, <1>3

LEMMA LogTypedStep == Typed /\ [LogNext]_logVars => Typed'
<1>1. [LogNext]_logVars => [Next]_vars
  BY DEF LogNext, logVars
<1>. QED
  BY <1>1, TypedStep

LEMMA LogInvariant == LogSpec => [](Typed /\ LogInv)
<1>1. LogInit => Typed /\ LogInv
  BY InitTyped, LogInitInv DEF LogInit
<1>. QED
  BY <1>1, LogStep, LogTypedStep, PTL DEF LogSpec

\* For any game and any number of threads that share engineFrames, the frames
\* that go out give each entity one life (Server.cpp:225-238, GameState.cpp:372).
THEOREM LogOneLife == LogSpec => []OneLife
<1>1. LogInv => OneLife
  BY DEF LogInv
<1>. QED
  BY <1>1, LogInvariant, PTL

\* One life each, so the lives can be told: which frames create an entity, and
\* which one deletes it.
LEMMA LivesFromLog ==
  ASSUME OneLife, NEW h \in Nat, \A n \in DOMAIN log : n \in 0..(h - 1)
  PROVE  LivesUpTo(h)
<1>. DEFINE ids == UNION {log[n].made \cup log[n].deleted : n \in DOMAIN log}
            Births(i) == {n \in DOMAIN log : i \in log[n].made}
            Deaths(i) == {n \in DOMAIN log : i \in log[n].deleted}
            life == [i \in ids |->
                       [made |-> Births(i),
                        dead |-> IF Deaths(i) = {} THEN h ELSE CHOOSE n \in Deaths(i) : TRUE]]
<1>1. \A m, n \in DOMAIN log : m \in Nat /\ n \in Nat /\ (m = n \/ m < n \/ n < m)
  OBVIOUS
<1>2. ASSUME NEW i
      PROVE  /\ \A m, n \in Deaths(i) : m = n
             /\ \A m \in Births(i), n \in Deaths(i) : m <= n
  BY <1>1 DEF OneLife
<1>3. ASSUME NEW i \in ids
      PROVE  /\ life[i].made = Births(i)
             /\ Deaths(i) # {} => life[i].dead \in Deaths(i)
             /\ Deaths(i) = {} => life[i].dead = h
  OBVIOUS
<1>4. \A n \in DOMAIN log : n \in 0..(h - 1) /\ n \in 0..h /\ n # h /\ n <= h
  OBVIOUS
<1>5. \A i \in ids : life[i].made \in SUBSET (0..(h - 1)) /\ life[i].dead \in 0..h
  BY <1>3, <1>4
<1>6. \A i \in ids : \A n \in life[i].made : n <= life[i].dead
  BY <1>2, <1>3, <1>4
<1>7. life \in [ids -> [made : SUBSET (0..(h - 1)), dead : 0..h]]
  BY <1>5
<1>8. \A n \in DOMAIN log : log[n].made = {i \in ids : n \in life[i].made}
  BY <1>3
<1>9. \A n \in DOMAIN log : log[n].deleted = {i \in ids : life[i].dead = n}
  BY <1>2, <1>3, <1>4
<1>. HIDE DEF life
<1>. QED
  BY <1>6, <1>7, <1>8, <1>9 DEF LivesUpTo

\* What a client is sent, snapshots included, is of the kind ClientView is proved
\* for: there are lives of the entities that the frames broadcast so far, fewer
\* than h, tell of (Server.cpp:185-208 and 225-238).
THEOREM LogLives ==
  LogSpec => [](\A h \in Nat : (\A n \in DOMAIN log : n < h) => LivesUpTo(h))
<1>1. Typed /\ LogInv => \A h \in Nat : (\A n \in DOMAIN log : n < h) => LivesUpTo(h)
  <2>. SUFFICES ASSUME Typed, LogInv, NEW h \in Nat, \A n \in DOMAIN log : n < h
                PROVE  LivesUpTo(h)
    OBVIOUS
  <2>1. \A n \in DOMAIN log : n \in Nat
    BY FrameCount DEF Typed, LogInv
  <2>2. \A n \in DOMAIN log : n \in 0..(h - 1)
    BY <2>1
  <2>3. OneLife
    BY DEF LogInv
  <2>. QED
    BY <2>2, <2>3, LivesFromLog
<1>. QED
  BY <1>1, LogInvariant, PTL
=============================================================================
