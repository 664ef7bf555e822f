----------------------------- MODULE MatchProofs -----------------------------
(***************************************************************************)
(* The game, for any clients, any sizes of waves and any limits.           *)
(***************************************************************************)
EXTENDS Match, ClientIdsProofs, FiniteSetTheorems

------------------------------------------------------------------------------
(* What a frame's calls do to the entities.                                *)

\* k entities are new, with ids that no entity, living or dead, ever had.
Grows(type, k) ==
  /\ \A i \in NewIds(k) : /\ i \in Nat
                          /\ i < idToSet'
                          /\ i \notin DOMAIN entities
                          /\ i \notin DOMAIN created
                          /\ i \notin DOMAIN shown
                          /\ i \notin deleted
  /\ DOMAIN entities' = DOMAIN entities \cup NewIds(k)
  /\ \A i \in DOMAIN entities : entities'[i] = entities[i]
  /\ \A i \in NewIds(k) : entities'[i].type = type /\ entities'[i].lives \in Nat \ {0}
  /\ DOMAIN created' = DOMAIN created \cup NewIds(k)
  /\ \A i \in DOMAIN created : created'[i] = created[i]
  /\ \A i \in NewIds(k) : created'[i] = type
  /\ idToSet' = idToSet + k
  /\ deleted' = deleted

LEMMA SpawnGrows ==
  ASSUME TypeOK, NEW type \in EntityTypes, NEW k \in Nat, Spawn(type, k)
  PROVE  Grows(type, k)
<1>1. \A i \in NewIds(k) : i \in Nat /\ i < idToSet + k /\ i \notin 0..(idToSet - 1)
  BY DEF NewIds, TypeOK
<1>2. /\ DOMAIN entities \subseteq 0..(idToSet - 1)
      /\ DOMAIN created \subseteq 0..(idToSet - 1)
      /\ DOMAIN shown \subseteq 0..(idToSet - 1)
      /\ deleted \subseteq 0..(idToSet - 1)
  BY DEF TypeOK
<1>3. NewEntity(type).type = type /\ NewEntity(type).lives \in Nat \ {0}
  BY MatchAssumption DEF NewEntity
<1>4. /\ DOMAIN entities' = DOMAIN entities \cup NewIds(k)
      /\ \A i \in DOMAIN entities : entities'[i] = entities[i]
      /\ \A i \in NewIds(k) : entities'[i] = NewEntity(type)
  BY <1>1, <1>2 DEF Spawn, Emplace
<1>5. /\ DOMAIN created' = DOMAIN created \cup NewIds(k)
      /\ \A i \in DOMAIN created : created'[i] = created[i]
      /\ \A i \in NewIds(k) : created'[i] = type
  BY <1>1, <1>2 DEF Spawn, Emplace
<1>6. idToSet' = idToSet + k /\ deleted' = deleted
  BY DEF Spawn
<1>. QED
  BY <1>1, <1>2, <1>3, <1>4, <1>5, <1>6 DEF Grows

\* No entity is new, and those that are gone are in the frame's DELETE packets.
Shrinks ==
  \E dead \in SUBSET DOMAIN entities :
     /\ DOMAIN entities' = DOMAIN entities \ dead
     /\ \A i \in DOMAIN entities' : /\ entities'[i].type = entities[i].type
                                    /\ entities'[i].lives \in Nat \ {0}
     /\ deleted' = deleted \cup dead
     /\ UNCHANGED <<idToSet, created>>

LEMMA UnchangedShrinks ==
  ASSUME TypeOK, UNCHANGED worldVars
  PROVE  Shrinks
<1>1. /\ DOMAIN entities' = DOMAIN entities \ {}
      /\ deleted' = deleted \cup {}
      /\ UNCHANGED <<idToSet, created>>
  BY DEF worldVars
<1>2. \A i \in DOMAIN entities' : /\ entities'[i].type = entities[i].type
                                  /\ entities'[i].lives \in Nat \ {0}
  BY DEF worldVars, TypeOK
<1>3. {} \in SUBSET DOMAIN entities
  OBVIOUS
<1>. QED
  BY <1>1, <1>2, <1>3 DEF Shrinks

\* killEntity ignores an id that is not there.
LEMMA KillShrinks ==
  ASSUME TypeOK, NEW S, Kill(S)
  PROVE  Shrinks
<1>. DEFINE dead == S \cap DOMAIN entities
<1>1. /\ DOMAIN entities' = DOMAIN entities \ dead
      /\ \A i \in DOMAIN entities' : entities'[i] = entities[i]
  BY DEF Kill, Without
<1>2. \A i \in DOMAIN entities' : /\ entities'[i].type = entities[i].type
                                  /\ entities'[i].lives \in Nat \ {0}
  BY <1>1 DEF TypeOK
<1>3. deleted' = deleted \cup dead /\ UNCHANGED <<idToSet, created>>
  BY DEF Kill
<1>4. dead \in SUBSET DOMAIN entities
  OBVIOUS
<1>. QED
  BY <1>1, <1>2, <1>3, <1>4 DEF Shrinks

\* The entities that survive a collision keep their types and have lives left.
LEMMA CollideShrinks ==
  ASSUME TypeOK, NEW typeA, NEW typeB, Collide(typeA, typeB)
  PROVE  Shrinks
<1>1. CASE UNCHANGED worldVars
  BY <1>1, UnchangedShrinks
<1>2. ASSUME NEW a \in OfType(typeA), NEW b \in OfType(typeB),
             LET dead == {i \in {a, b} : entities[i].lives = 1}
             IN /\ entities' = [i \in DOMAIN entities \ dead |->
                                  IF i \in {a, b} THEN [entities[i] EXCEPT !.lives = @ - 1]
                                  ELSE entities[i]]
                /\ deleted' = deleted \cup dead
                /\ UNCHANGED <<idToSet, created>>
      PROVE  Shrinks
  <2>. DEFINE dead == {i \in {a, b} : entities[i].lives = 1}
  <2>1. dead \in SUBSET DOMAIN entities
    BY DEF OfType
  <2>2. DOMAIN entities' = DOMAIN entities \ dead
    BY <1>2
  <2>3. ASSUME NEW i \in DOMAIN entities'
        PROVE  entities'[i].type = entities[i].type /\ entities'[i].lives \in Nat \ {0}
    <3>1. i \in DOMAIN entities /\ i \notin dead /\ entities[i].lives \in Nat \ {0}
      BY <2>2 DEF TypeOK
    <3>2. CASE i \in {a, b}
      <4>1. entities[i].lives # 1
        BY <3>1, <3>2
      <4>2. entities'[i] = [entities[i] EXCEPT !.lives = @ - 1]
        BY <1>2, <2>2, <3>2
      <4>. QED
        BY <3>1, <4>1, <4>2
    <3>3. CASE i \notin {a, b}
      <4>1. entities'[i] = entities[i]
        BY <1>2, <2>2, <3>3
      <4>. QED
        BY <3>1, <4>1
    <3>. QED
      BY <3>2, <3>3
  <2>4. deleted' = deleted \cup dead /\ UNCHANGED <<idToSet, created>>
    BY <1>2
  <2>. QED
    BY <2>1, <2>2, <2>3, <2>4 DEF Shrinks
<1>. QED
  BY <1>1, <1>2 DEF Collide

\* The entities are finitely many.
LEMMA FinitelyMany ==
  ASSUME TypeOK, NEW type
  PROVE  IsFiniteSet(OfType(type)) /\ Cardinality(OfType(type)) \in Nat
<1>0. 0 \in Int /\ idToSet - 1 \in Int
  BY DEF TypeOK
<1>1. IsFiniteSet(0..(idToSet - 1))
  BY <1>0, FS_Interval
<1>2. OfType(type) \in SUBSET (0..(idToSet - 1))
  BY DEF TypeOK, OfType
<1>3. IsFiniteSet(OfType(type))
  BY <1>1, <1>2, FS_Subset
<1>. QED
  BY <1>3, FS_CardinalityType

\* The calls that only move, hit and fire.
Fight ==
  \/ ProcessPlayerActions \/ BulletsHitEnemies \/ MoveBullets \/ MoveEnemies
  \/ EnemyBulletsHitPlayers \/ MoveEnemyBullets \/ BulletsHitBoss \/ MoveBoss

\* They change the entities, or nothing, and bring no player, enemy or boss.
LEMMA FightStep ==
  ASSUME TypeOK, Fight
  PROVE  /\ Shrinks \/ \E type \in {"Bullet", "EnemyBullet"}, k \in Nat : Grows(type, k)
         /\ UNCHANGED <<regVars, playerVars, waveVars, historyVars>>
         /\ phase' \in Phases
<1>. DEFINE Goal == Shrinks \/ \E type \in {"Bullet", "EnemyBullet"}, k \in Nat : Grows(type, k)
<1>1. CASE ProcessPlayerActions
  <2>1. PICK k \in 0..MaxEntities : Spawn("Bullet", k)
    BY <1>1 DEF ProcessPlayerActions
  <2>2. k \in Nat
    OBVIOUS
  <2>3. Grows("Bullet", k)
    BY <2>1, <2>2, SpawnGrows DEF EntityTypes
  <2>. QED
    BY <1>1, <2>2, <2>3 DEF ProcessPlayerActions, Call, Phases
<1>2. ASSUME NEW shooter, NEW limit, Fire(OfType(shooter), limit)
      PROVE  Goal
  <2>1. PICK k \in 0..Cardinality(OfType(shooter)) : Spawn("EnemyBullet", k)
    BY <1>2 DEF Fire
  <2>2. k \in Nat
    BY FinitelyMany
  <2>3. Grows("EnemyBullet", k)
    BY <2>1, <2>2, SpawnGrows DEF EntityTypes
  <2>. QED
    BY <2>2, <2>3
<1>3. CASE BulletsHitEnemies
  BY <1>3, CollideShrinks DEF BulletsHitEnemies, Call, Phases
<1>4. CASE EnemyBulletsHitPlayers
  BY <1>4, CollideShrinks DEF EnemyBulletsHitPlayers, Call, Phases
<1>5. CASE BulletsHitBoss
  BY <1>5, CollideShrinks DEF BulletsHitBoss, Call, Phases
<1>6. CASE MoveBullets
  BY <1>6, KillShrinks DEF MoveBullets, Call, Phases
<1>7. CASE MoveEnemyBullets
  BY <1>7, KillShrinks DEF MoveEnemyBullets, Call, Phases
<1>8. CASE MoveEnemies
  <2>1. Goal
    BY <1>8, <1>2 DEF MoveEnemies
  <2>. QED
    BY <1>8, <2>1 DEF MoveEnemies, Call, Phases
<1>9. CASE MoveBoss
  <2>1. Goal
    BY <1>9, <1>2 DEF MoveBoss
  <2>. QED
    BY <1>9, <2>1 DEF MoveBoss, Call, Phases
<1>. QED
  BY <1>1, <1>3, <1>4, <1>5, <1>6, <1>7, <1>8, <1>9 DEF Fight

------------------------------------------------------------------------------
(* The inductive invariant.                                                *)

\* What makes the safety invariants inductive: the register's invariant, and
\* that a frame that says WIN had seen all the waves.
GameInv ==
  /\ TypeOK
  /\ RegInv
  /\ SlotsAreIds
  /\ PlayersOwned
  /\ FramesTellAll
  /\ BossAfterWaves
  /\ WinIsFinal
  /\ won => currentWave = NumberOfWaves /\ currentBoss = NumberOfBoss

LEMMA GameInit == Init => GameInv
<1>. SUFFICES ASSUME Init PROVE GameInv
  OBVIOUS
<1>1. RegInv
  BY RegInitInv DEF Init
<1>2. TypeOK
  <2>1. RegTypeOK /\ phase \in Phases /\ won \in BOOLEAN
    BY <1>1 DEF Init, RegInv, Phases
  <2>2. /\ DOMAIN entities = {} /\ DOMAIN clientToEntity = {}
        /\ DOMAIN created = {} /\ DOMAIN shown = {}
        /\ deleted = {} /\ previousClients = {}
    BY DEF Init, Empty
  <2>3. /\ idToSet \in Nat /\ playerSpawned \in Nat
        /\ currentWave \in 0..NumberOfWaves /\ currentBoss \in 0..NumberOfBoss
    BY MatchAssumption DEF Init
  <2>. QED
    BY <2>1, <2>2, <2>3 DEF TypeOK
<1>3. SlotsAreIds
  BY <1>1 DEF Init, SlotsAreIds, RegInv, RegTypeOK, Empty
<1>4. PlayersOwned
  BY DEF Init, PlayersOwned, OfType, Empty
<1>5. FramesTellAll
  BY DEF Init, FramesTellAll, Replay, Emplace, Without, Empty
<1>6. BossAfterWaves /\ WinIsFinal
  BY DEF Init, BossAfterWaves, WinIsFinal, OfType, Empty
<1>. QED
  BY <1>1, <1>2, <1>3, <1>4, <1>5, <1>6 DEF Init, GameInv

\* No more ids are in use than were given out.
LEMMA FewIds ==
  ASSUME RegInv
  PROVE  Cardinality(Ids) \in Nat /\ Cardinality(Ids) <= nbClients
<1>1. 0 \in Int /\ nbClients - 1 \in Int /\ nbClients \in Nat
  BY DEF RegInv, RegTypeOK
<1>2. /\ IsFiniteSet(0..(nbClients - 1))
      /\ Cardinality(0..(nbClients - 1)) = nbClients
  BY <1>1, FS_Interval
<1>3. Ids \in SUBSET (0..(nbClients - 1))
  BY DEF RegInv, RegTypeOK
<1>4. IsFiniteSet(Ids) /\ Cardinality(Ids) <= Cardinality(0..(nbClients - 1))
  BY <1>2, <1>3, FS_Subset
<1>. QED
  BY <1>2, <1>4, FS_CardinalityType

\* The slots that the next k players take.
Slots(k) == playerSpawned .. (playerSpawned + k - 1)

\* What initializeplayers does, with the number of players it adds.
LEMMA InitializePlayersStep ==
  ASSUME TypeOK, RegInv, InitializePlayers
  PROVE  \E k \in Nat :
            /\ Grows("Player", k)
            /\ DOMAIN clientToEntity' = DOMAIN clientToEntity \cup Slots(k)
            /\ \A c \in Slots(k) : clientToEntity'[c] = idToSet + (c - playerSpawned)
            /\ \A c \in DOMAIN clientToEntity \ Slots(k) : clientToEntity'[c] = clientToEntity[c]
            /\ playerSpawned' = playerSpawned + k
            /\ k > 0 => playerSpawned' <= nbClients
            /\ phase' \in Phases
            /\ UNCHANGED <<regVars, previousClients, waveVars, historyVars>>
<1>. DEFINE k == MissingPlayers
<1>1. Cardinality(Ids) \in Nat /\ Cardinality(Ids) <= nbClients
  BY FewIds
<1>2. k \in Nat /\ (k > 0 => playerSpawned + k <= nbClients)
  BY <1>1 DEF TypeOK, RegTypeOK, MissingPlayers
<1>3. Grows("Player", k)
  BY <1>2, SpawnGrows DEF InitializePlayers, EntityTypes
<1>4. clientToEntity' = [c \in DOMAIN clientToEntity \cup Slots(k) |->
         IF c \in Slots(k) THEN idToSet + (c - playerSpawned) ELSE clientToEntity[c]]
  BY DEF InitializePlayers, Slots
<1>5. /\ DOMAIN clientToEntity' = DOMAIN clientToEntity \cup Slots(k)
      /\ \A c \in Slots(k) : clientToEntity'[c] = idToSet + (c - playerSpawned)
      /\ \A c \in DOMAIN clientToEntity \ Slots(k) : clientToEntity'[c] = clientToEntity[c]
  BY <1>4
<1>6. /\ playerSpawned' = playerSpawned + k
      /\ phase' \in Phases
      /\ UNCHANGED <<regVars, previousClients, waveVars, historyVars>>
  BY DEF InitializePlayers, Call, Phases
<1>7. k > 0 => playerSpawned' <= nbClients
  BY <1>2, <1>6
<1>. HIDE DEF k
<1>. QED
  BY <1>2, <1>3, <1>5, <1>6, <1>7

\* What checkForDisconnectedPlayers does.
LEMMA LeaversStep ==
  ASSUME TypeOK, CheckForDisconnectedPlayers
  PROVE  /\ Shrinks
         /\ \E gone \in SUBSET DOMAIN clientToEntity :
               /\ DOMAIN clientToEntity' = DOMAIN clientToEntity \ gone
               /\ \A c \in DOMAIN clientToEntity' : clientToEntity'[c] = clientToEntity[c]
               /\ \A p \in DOMAIN entities' : \A c \in gone : p # clientToEntity[c]
         /\ phase' \in Phases
         /\ previousClients' = Ids
         /\ UNCHANGED <<regVars, playerSpawned, waveVars, historyVars>>
<1>1. CASE Cardinality(Ids) >= Cardinality(previousClients)
  <2>1. UNCHANGED <<worldVars, clientToEntity>>
    BY <1>1 DEF CheckForDisconnectedPlayers
  <2>2. Shrinks
    BY <2>1, UnchangedShrinks
  <2>3. {} \in SUBSET DOMAIN clientToEntity
    OBVIOUS
  <2>4. /\ DOMAIN clientToEntity' = DOMAIN clientToEntity \ {}
        /\ \A c \in DOMAIN clientToEntity' : clientToEntity'[c] = clientToEntity[c]
        /\ \A p \in DOMAIN entities' : \A c \in {} : p # clientToEntity[c]
    BY <2>1
  <2>. QED
    BY <2>2, <2>3, <2>4 DEF CheckForDisconnectedPlayers, Call, Phases
<1>2. CASE ~(Cardinality(Ids) >= Cardinality(previousClients))
  <2>. DEFINE gone == (previousClients \ Ids) \cap DOMAIN clientToEntity
  <2>1. /\ Kill({clientToEntity[c] : c \in gone})
        /\ clientToEntity' = Without(clientToEntity, gone)
    BY <1>2 DEF CheckForDisconnectedPlayers
  <2>2. Shrinks
    BY <2>1, KillShrinks
  <2>3. \A p \in DOMAIN entities' : \A c \in gone : p # clientToEntity[c]
    BY <2>1 DEF Kill, Without
  <2>4. gone \in SUBSET DOMAIN clientToEntity
    OBVIOUS
  <2>5. /\ DOMAIN clientToEntity' = DOMAIN clientToEntity \ gone
        /\ \A c \in DOMAIN clientToEntity' : clientToEntity'[c] = clientToEntity[c]
    BY <2>1 DEF Without
  <2>. QED
    BY <2>2, <2>3, <2>4, <2>5 DEF CheckForDisconnectedPlayers, Call, Phases
<1>. QED
  BY <1>1, <1>2

\* Each part of the invariant, for each kind of step.
LEMMA TypeStep ==
  ASSUME TypeOK, RegInv, Update
  PROVE  TypeOK'
<1>1. /\ DOMAIN entities \subseteq 0..(idToSet - 1)
      /\ DOMAIN created \subseteq 0..(idToSet - 1)
      /\ DOMAIN shown \subseteq 0..(idToSet - 1)
      /\ deleted \subseteq 0..(idToSet - 1)
      /\ \A c \in DOMAIN clientToEntity : clientToEntity[c] \in 0..(idToSet - 1)
      /\ idToSet \in Nat /\ playerSpawned \in Nat /\ previousClients \subseteq Nat
  BY DEF TypeOK
<1>2. ASSUME Shrinks, shown' = shown
      PROVE  /\ idToSet' = idToSet
             /\ DOMAIN entities' \subseteq 0..(idToSet' - 1)
             /\ DOMAIN created' \subseteq 0..(idToSet' - 1)
             /\ DOMAIN shown' \subseteq 0..(idToSet' - 1)
             /\ deleted' \subseteq 0..(idToSet' - 1)
             /\ \A i \in DOMAIN entities' :
                   entities'[i].type \in EntityTypes /\ entities'[i].lives \in Nat \ {0}
  BY <1>1, <1>2 DEF Shrinks, TypeOK
<1>3. ASSUME NEW type \in EntityTypes, NEW k \in Nat, Grows(type, k), shown' = shown
      PROVE  /\ idToSet' \in Nat /\ idToSet' >= idToSet
             /\ DOMAIN entities' \subseteq 0..(idToSet' - 1)
             /\ DOMAIN created' \subseteq 0..(idToSet' - 1)
             /\ DOMAIN shown' \subseteq 0..(idToSet' - 1)
             /\ deleted' \subseteq 0..(idToSet' - 1)
             /\ \A i \in DOMAIN entities' :
                   entities'[i].type \in EntityTypes /\ entities'[i].lives \in Nat \ {0}
  <2>1. idToSet' = idToSet + k /\ deleted' = deleted
    BY <1>3 DEF Grows
  <2>2. \A i \in NewIds(k) : i \in 0..(idToSet' - 1)
    BY <1>1, <1>3, <2>1 DEF Grows
  <2>3. 0..(idToSet - 1) \subseteq 0..(idToSet' - 1)
    BY <1>1, <2>1
  <2>4. DOMAIN entities' \subseteq 0..(idToSet' - 1)
    BY <1>1, <1>3, <2>2, <2>3 DEF Grows
  <2>5. DOMAIN created' \subseteq 0..(idToSet' - 1)
    BY <1>1, <1>3, <2>2, <2>3 DEF Grows
  <2>6. \A i \in DOMAIN entities' :
           entities'[i].type \in EntityTypes /\ entities'[i].lives \in Nat \ {0}
    BY <1>3 DEF Grows, TypeOK
  <2>. QED
    BY <1>1, <1>3, <2>1, <2>3, <2>4, <2>5, <2>6
<1>4. CASE Fight
  <2>1. UNCHANGED <<regVars, playerVars, waveVars, historyVars>> /\ phase' \in Phases
    BY <1>4, FightStep
  <2>2. CASE Shrinks
    BY <1>1, <1>2, <2>1, <2>2 DEF TypeOK, RegTypeOK, Ids, regVars, playerVars, waveVars, historyVars
  <2>3. ASSUME NEW type \in {"Bullet", "EnemyBullet"}, NEW k \in Nat, Grows(type, k)
        PROVE  TypeOK'
    <3>1. type \in EntityTypes
      BY DEF EntityTypes
    <3>. QED
      BY <1>1, <1>3, <2>1, <2>3, <3>1 DEF TypeOK, RegTypeOK, Ids, regVars, playerVars, waveVars, historyVars
  <2>. QED
    BY <1>4, <2>2, <2>3, FightStep
<1>5. CASE InitializePlayers
  <2>1. PICK k \in Nat :
            /\ Grows("Player", k)
            /\ DOMAIN clientToEntity' = DOMAIN clientToEntity \cup Slots(k)
            /\ \A c \in Slots(k) : clientToEntity'[c] = idToSet + (c - playerSpawned)
            /\ \A c \in DOMAIN clientToEntity \ Slots(k) : clientToEntity'[c] = clientToEntity[c]
            /\ playerSpawned' = playerSpawned + k
            /\ phase' \in Phases
            /\ UNCHANGED <<regVars, previousClients, waveVars, historyVars>>
    BY <1>5, InitializePlayersStep
  <2>2. \A c \in DOMAIN clientToEntity' : clientToEntity'[c] \in 0..(idToSet' - 1)
    <3>1. idToSet' = idToSet + k
      BY <2>1 DEF Grows
    <3>2. \A c \in Slots(k) : idToSet + (c - playerSpawned) \in 0..(idToSet + k - 1)
      BY <1>1 DEF Slots
    <3>3. \A c \in DOMAIN clientToEntity : clientToEntity[c] \in 0..(idToSet + k - 1)
      BY <1>1
    <3>. QED
      BY <1>1, <2>1, <3>1, <3>2, <3>3
  <2>3. "Player" \in EntityTypes
    BY DEF EntityTypes
  <2>4. playerSpawned' \in Nat /\ previousClients' \subseteq Nat
    BY <1>1, <2>1
  <2>5. RegTypeOK' /\ currentWave' \in 0..NumberOfWaves /\ currentBoss' \in 0..NumberOfBoss
    BY <2>1 DEF TypeOK, RegTypeOK, Ids, regVars, waveVars
  <2>6. shown' = shown /\ won' \in BOOLEAN
    BY <2>1 DEF TypeOK, historyVars
  <2>7. /\ idToSet' \in Nat
        /\ DOMAIN entities' \subseteq 0..(idToSet' - 1)
        /\ DOMAIN created' \subseteq 0..(idToSet' - 1)
        /\ DOMAIN shown' \subseteq 0..(idToSet' - 1)
        /\ deleted' \subseteq 0..(idToSet' - 1)
        /\ \A i \in DOMAIN entities' :
              entities'[i].type \in EntityTypes /\ entities'[i].lives \in Nat \ {0}
    BY <1>3, <2>1, <2>3, <2>6
  <2>. QED
    BY <2>1, <2>2, <2>4, <2>5, <2>6, <2>7 DEF TypeOK
<1>6. CASE CheckForDisconnectedPlayers
  <2>1. /\ Shrinks
        /\ DOMAIN clientToEntity' \subseteq DOMAIN clientToEntity
        /\ \A c \in DOMAIN clientToEntity' : clientToEntity'[c] = clientToEntity[c]
        /\ phase' \in Phases
        /\ previousClients' = Ids
        /\ UNCHANGED <<regVars, playerSpawned, waveVars, historyVars>>
    BY <1>6, LeaversStep
  <2>2. Ids \subseteq Nat
    BY DEF TypeOK, RegTypeOK
  <2>. QED
    BY <1>1, <1>2, <2>1, <2>2 DEF TypeOK, RegTypeOK, Ids, regVars, waveVars, historyVars
<1>7. CASE SpawnWave
  <2>1. /\ UNCHANGED <<regVars, playerVars, historyVars>>
        /\ phase' \in Phases
    BY <1>7 DEF SpawnWave, Call, Phases
  <2>2. CASE Spawn("Enemy", EnemiesPerWave) /\ currentWave < NumberOfWaves
             /\ currentWave' = currentWave + 1 /\ UNCHANGED currentBoss
    <3>1. Grows("Enemy", EnemiesPerWave) /\ "Enemy" \in EntityTypes /\ EnemiesPerWave \in Nat
      BY <2>2, SpawnGrows, MatchAssumption DEF EntityTypes
    <3>2. currentWave' \in 0..NumberOfWaves /\ currentBoss' \in 0..NumberOfBoss
      BY <2>2, MatchAssumption DEF TypeOK
    <3>. QED
      BY <1>1, <1>3, <2>1, <3>1, <3>2 DEF TypeOK, RegTypeOK, Ids, regVars, playerVars, historyVars
  <2>3. CASE Spawn("Boss", NumberOfBoss) /\ currentBoss < NumberOfBoss
             /\ currentBoss' = currentBoss + 1 /\ UNCHANGED currentWave
    <3>1. Grows("Boss", NumberOfBoss) /\ "Boss" \in EntityTypes /\ NumberOfBoss \in Nat
      BY <2>3, SpawnGrows, MatchAssumption DEF EntityTypes
    <3>2. currentWave' \in 0..NumberOfWaves /\ currentBoss' \in 0..NumberOfBoss
      BY <2>3, MatchAssumption DEF TypeOK
    <3>. QED
      BY <1>1, <1>3, <2>1, <3>1, <3>2 DEF TypeOK, RegTypeOK, Ids, regVars, playerVars, historyVars
  <2>4. CASE UNCHANGED <<worldVars, waveVars>>
    <3>1. Shrinks
      BY <2>4, UnchangedShrinks
    <3>. QED
      BY <1>1, <1>2, <2>1, <2>4, <3>1 DEF TypeOK, RegTypeOK, Ids, regVars, playerVars, waveVars, historyVars
  <2>. QED
    BY <1>7, <2>2, <2>3, <2>4 DEF SpawnWave
<1>8. CASE EndFrame
  <2>1. /\ UNCHANGED <<regVars, entities, idToSet, playerVars, waveVars>>
        /\ phase' \in Phases
        /\ deleted' = {} /\ DOMAIN created' = {}
    BY <1>8 DEF EndFrame, Call, Phases, Empty
  <2>2. DOMAIN shown' \subseteq 0..(idToSet' - 1)
    BY <1>1, <1>8 DEF EndFrame, Replay, Emplace, Without
  <2>3. won' \in BOOLEAN
    BY <1>8 DEF EndFrame
  <2>. QED
    BY <1>1, <2>1, <2>2, <2>3 DEF TypeOK, RegTypeOK, Ids, regVars, playerVars, waveVars
<1>. QED
  BY <1>4, <1>5, <1>6, <1>7, <1>8 DEF Update, Fight

\* Every call before the end of the frame adds entities or takes some away.
LEMMA UpdateStep ==
  ASSUME TypeOK, RegInv, Update, ~EndFrame
  PROVE  /\ Shrinks \/ \E type \in EntityTypes, k \in Nat : Grows(type, k)
         /\ shown' = shown
<1>1. CASE Fight
  BY <1>1, FightStep DEF historyVars, EntityTypes
<1>2. CASE InitializePlayers
  BY <1>2, InitializePlayersStep DEF historyVars, EntityTypes
<1>3. CASE CheckForDisconnectedPlayers
  BY <1>3, LeaversStep DEF historyVars
<1>4. CASE SpawnWave
  <2>1. shown' = shown
    BY <1>4 DEF SpawnWave, historyVars
  <2>2. CASE Spawn("Enemy", EnemiesPerWave)
    BY <2>1, <2>2, SpawnGrows, MatchAssumption DEF EntityTypes
  <2>3. CASE Spawn("Boss", NumberOfBoss)
    BY <2>1, <2>3, SpawnGrows, MatchAssumption DEF EntityTypes
  <2>4. CASE UNCHANGED worldVars
    BY <2>1, <2>4, UnchangedShrinks
  <2>. QED
    BY <1>4, <2>2, <2>3, <2>4 DEF SpawnWave
<1>. QED
  BY <1>1, <1>2, <1>3, <1>4 DEF Update, Fight

LEMMA FramesStep ==
  ASSUME TypeOK, RegInv, FramesTellAll, Update
  PROVE  FramesTellAll'
<1>1. /\ DOMAIN Replay = (DOMAIN shown \cup DOMAIN created) \ deleted
      /\ \A i \in DOMAIN Replay :
            Replay[i] = IF i \in DOMAIN shown THEN shown[i] ELSE created[i]
  BY DEF Replay, Emplace, Without
<1>2. /\ DOMAIN Replay' = (DOMAIN shown' \cup DOMAIN created') \ deleted'
      /\ \A i \in DOMAIN Replay' :
            Replay'[i] = IF i \in DOMAIN shown' THEN shown'[i] ELSE created'[i]
  BY DEF Replay, Emplace, Without
<1>3. /\ DOMAIN Replay = DOMAIN entities
      /\ \A i \in DOMAIN entities : Replay[i] = entities[i].type
  BY DEF FramesTellAll
<1>4. CASE EndFrame
  <2>1. shown' = Replay /\ created' = Empty /\ deleted' = {} /\ entities' = entities
    BY <1>4 DEF EndFrame
  <2>2. DOMAIN Replay' = DOMAIN Replay
    BY <1>2, <2>1 DEF Empty
  <2>3. \A i \in DOMAIN Replay' : Replay'[i] = Replay[i]
    BY <1>2, <2>1, <2>2
  <2>. QED
    BY <1>3, <2>1, <2>2, <2>3 DEF FramesTellAll
<1>5. CASE ~EndFrame /\ Shrinks
  <2>1. shown' = shown /\ created' = created
    BY <1>5, UpdateStep DEF Shrinks
  <2>2. PICK dead \in SUBSET DOMAIN entities :
          /\ DOMAIN entities' = DOMAIN entities \ dead
          /\ \A i \in DOMAIN entities' : entities'[i].type = entities[i].type
          /\ deleted' = deleted \cup dead
    BY <1>5 DEF Shrinks
  <2>3. DOMAIN Replay' = DOMAIN Replay \ dead
    BY <1>1, <1>2, <2>1, <2>2
  <2>4. \A i \in DOMAIN Replay' : Replay'[i] = Replay[i]
    BY <1>1, <1>2, <2>1, <2>3
  <2>. QED
    BY <1>3, <2>2, <2>3, <2>4 DEF FramesTellAll
<1>6. ASSUME NEW type \in EntityTypes, NEW k \in Nat, Grows(type, k), ~EndFrame
      PROVE  FramesTellAll'
  <2>1. shown' = shown /\ deleted' = deleted
    BY <1>6, UpdateStep DEF Grows
  <2>2. DOMAIN Replay' = DOMAIN Replay \cup NewIds(k)
    BY <1>1, <1>2, <1>6, <2>1 DEF Grows
  <2>3. \A i \in DOMAIN Replay : Replay'[i] = Replay[i]
    BY <1>1, <1>2, <1>6, <2>1, <2>2 DEF Grows
  <2>4. \A i \in NewIds(k) : Replay'[i] = type
    BY <1>2, <1>6, <2>1, <2>2 DEF Grows
  <2>5. /\ DOMAIN entities' = DOMAIN entities \cup NewIds(k)
        /\ \A i \in DOMAIN entities : entities'[i] = entities[i]
        /\ \A i \in NewIds(k) : entities'[i].type = type
    BY <1>6 DEF Grows
  <2>. QED
    BY <1>3, <2>2, <2>3, <2>4, <2>5 DEF FramesTellAll
<1>. QED
  BY <1>4, <1>5, <1>6, UpdateStep

LEMMA SlotsStep ==
  ASSUME TypeOK, RegInv, SlotsAreIds, Update
  PROVE  SlotsAreIds'
<1>1. /\ playerSpawned \in Nat /\ nbClients \in Nat /\ playerSpawned <= nbClients
      /\ DOMAIN clientToEntity \subseteq 0..(playerSpawned - 1)
  BY DEF TypeOK, RegTypeOK, SlotsAreIds
<1>2. CASE Fight
  BY <1>1, <1>2, FightStep DEF SlotsAreIds, regVars, playerVars
<1>3. CASE InitializePlayers
  <2>1. PICK k \in Nat :
            /\ DOMAIN clientToEntity' = DOMAIN clientToEntity \cup Slots(k)
            /\ playerSpawned' = playerSpawned + k
            /\ k > 0 => playerSpawned' <= nbClients
            /\ UNCHANGED regVars
    BY <1>3, InitializePlayersStep
  <2>2. nbClients' = nbClients
    BY <2>1 DEF regVars
  <2>3. Slots(k) \subseteq 0..(playerSpawned' - 1)
    BY <1>1, <2>1 DEF Slots
  <2>4. 0..(playerSpawned - 1) \subseteq 0..(playerSpawned' - 1)
    BY <1>1, <2>1
  <2>5. playerSpawned' <= nbClients'
    BY <1>1, <2>1, <2>2
  <2>. QED
    BY <1>1, <2>1, <2>3, <2>4, <2>5 DEF SlotsAreIds
<1>4. CASE CheckForDisconnectedPlayers
  BY <1>1, <1>4, LeaversStep DEF SlotsAreIds, regVars
<1>5. CASE SpawnWave
  BY <1>1, <1>5 DEF SpawnWave, SlotsAreIds, regVars, playerVars
<1>6. CASE EndFrame
  BY <1>1, <1>6 DEF EndFrame, SlotsAreIds, regVars, playerVars
<1>. QED
  BY <1>2, <1>3, <1>4, <1>5, <1>6 DEF Update, Fight

\* The slots name old entities only.
LEMMA SlotsAreOld ==
  ASSUME TypeOK, NEW k \in Nat
  PROVE  /\ \A c \in DOMAIN clientToEntity : clientToEntity[c] \notin NewIds(k)
         /\ DOMAIN entities \cap NewIds(k) = {}
  BY DEF TypeOK, NewIds

\* Nothing but a player's coming and going touches the slots.
LEMMA OwnedWithoutPlayers ==
  ASSUME TypeOK, PlayersOwned, clientToEntity' = clientToEntity,
         Shrinks \/ \E type \in EntityTypes \ {"Player"}, k \in Nat : Grows(type, k)
  PROVE  PlayersOwned'
<1>1. ASSUME Shrinks
      PROVE  /\ OfType("Player")' \subseteq OfType("Player")
             /\ OfType("Player") \cap DOMAIN entities' \subseteq OfType("Player")'
             /\ DOMAIN entities' \subseteq DOMAIN entities
  BY <1>1 DEF Shrinks, OfType
<1>2. CASE Shrinks
  BY <1>1, <1>2 DEF PlayersOwned
<1>3. ASSUME NEW type \in EntityTypes \ {"Player"}, NEW k \in Nat, Grows(type, k)
      PROVE  PlayersOwned'
  <2>1. OfType("Player")' = OfType("Player")
    BY <1>3, SlotsAreOld DEF Grows, OfType
  <2>2. \A c \in DOMAIN clientToEntity :
           clientToEntity[c] \in DOMAIN entities' => clientToEntity[c] \in DOMAIN entities
    BY <1>3, SlotsAreOld DEF Grows
  <2>. QED
    BY <2>1, <2>2 DEF PlayersOwned
<1>. QED
  BY <1>2, <1>3

LEMMA OwnedStep ==
  ASSUME TypeOK, RegInv, SlotsAreIds, PlayersOwned, Update
  PROVE  PlayersOwned'
<1>1. CASE Fight
  BY <1>1, FightStep, OwnedWithoutPlayers DEF playerVars, EntityTypes
<1>2. CASE InitializePlayers
  <2>1. PICK k \in Nat :
            /\ Grows("Player", k)
            /\ DOMAIN clientToEntity' = DOMAIN clientToEntity \cup Slots(k)
            /\ \A c \in Slots(k) : clientToEntity'[c] = idToSet + (c - playerSpawned)
            /\ \A c \in DOMAIN clientToEntity \ Slots(k) : clientToEntity'[c] = clientToEntity[c]
    BY <1>2, InitializePlayersStep
  <2>2. /\ idToSet \in Nat /\ playerSpawned \in Nat
        /\ DOMAIN clientToEntity \cap Slots(k) = {}
    BY DEF TypeOK, SlotsAreIds, Slots
  <2>3. \A c \in DOMAIN clientToEntity : clientToEntity'[c] = clientToEntity[c]
    BY <2>1, <2>2
  <2>4. \A c \in Slots(k) : clientToEntity'[c] \in NewIds(k)
    BY <2>1, <2>2 DEF Slots, NewIds
  <2>5. OfType("Player")' = OfType("Player") \cup NewIds(k)
    BY <2>1, SlotsAreOld DEF Grows, OfType
  <2>6. \A p \in NewIds(k) : \E c \in Slots(k) : clientToEntity'[c] = p
    <3>1. ASSUME NEW p \in NewIds(k)
          PROVE  \E c \in Slots(k) : clientToEntity'[c] = p
      <4>1. p \in Int /\ playerSpawned + (p - idToSet) \in Slots(k)
        BY <2>2 DEF NewIds, Slots
      <4>2. idToSet + ((playerSpawned + (p - idToSet)) - playerSpawned) = p
        BY <2>2, <4>1
      <4>. QED
        BY <2>1, <4>1, <4>2
    <3>. QED
      BY <3>1
  <2>7. \A c, d \in DOMAIN clientToEntity' : clientToEntity'[c] = clientToEntity'[d] => c = d
    <3>1. \A c, d \in Slots(k) :
             idToSet + (c - playerSpawned) = idToSet + (d - playerSpawned) => c = d
      BY <2>2 DEF Slots
    <3>2. \A c, d \in DOMAIN clientToEntity : clientToEntity[c] = clientToEntity[d] => c = d
      BY DEF PlayersOwned
    <3>3. \A c \in DOMAIN clientToEntity : clientToEntity[c] \notin NewIds(k)
      BY SlotsAreOld
    <3>4. \A c, d \in Slots(k) : clientToEntity'[c] = clientToEntity'[d] => c = d
      BY <2>1, <3>1
    <3>5. \A c, d \in DOMAIN clientToEntity : clientToEntity'[c] = clientToEntity'[d] => c = d
      BY <2>3, <3>2
    <3>6. \A c \in DOMAIN clientToEntity, d \in Slots(k) : clientToEntity'[c] # clientToEntity'[d]
      BY <2>3, <2>4, <3>3
    <3>. QED
      BY <2>1, <3>4, <3>5, <3>6
  <2>8. \A p \in OfType("Player")' : \E c \in DOMAIN clientToEntity' : clientToEntity'[c] = p
    BY <2>1, <2>3, <2>5, <2>6 DEF PlayersOwned
  <2>9. \A c \in DOMAIN clientToEntity' :
           clientToEntity'[c] \in DOMAIN entities' => clientToEntity'[c] \in OfType("Player")'
    <3>1. DOMAIN entities' = DOMAIN entities \cup NewIds(k)
      BY <2>1 DEF Grows
    <3>. QED
      BY <2>1, <2>3, <2>4, <2>5, <3>1, SlotsAreOld DEF PlayersOwned
  <2>. QED
    BY <2>7, <2>8, <2>9 DEF PlayersOwned
<1>3. CASE CheckForDisconnectedPlayers
  <2>1. PICK gone \in SUBSET DOMAIN clientToEntity :
          /\ DOMAIN clientToEntity' = DOMAIN clientToEntity \ gone
          /\ \A c \in DOMAIN clientToEntity' : clientToEntity'[c] = clientToEntity[c]
          /\ \A p \in DOMAIN entities' : \A c \in gone : p # clientToEntity[c]
    BY <1>3, LeaversStep
  <2>2. /\ OfType("Player")' \subseteq OfType("Player") \cap DOMAIN entities'
        /\ OfType("Player") \cap DOMAIN entities' \subseteq OfType("Player")'
        /\ DOMAIN entities' \subseteq DOMAIN entities
    BY <1>3, LeaversStep DEF Shrinks, OfType
  <2>3. \A p \in OfType("Player")' : \E c \in DOMAIN clientToEntity' : clientToEntity'[c] = p
    BY <2>1, <2>2 DEF PlayersOwned
  <2>4. \A c, d \in DOMAIN clientToEntity' : clientToEntity'[c] = clientToEntity'[d] => c = d
    BY <2>1 DEF PlayersOwned
  <2>5. \A c \in DOMAIN clientToEntity' :
           clientToEntity'[c] \in DOMAIN entities' => clientToEntity'[c] \in OfType("Player")'
    BY <2>1, <2>2 DEF PlayersOwned
  <2>. QED
    BY <2>3, <2>4, <2>5 DEF PlayersOwned
<1>4. CASE SpawnWave
  <2>1. clientToEntity' = clientToEntity
    BY <1>4 DEF SpawnWave, playerVars
  <2>2. CASE Spawn("Enemy", EnemiesPerWave)
    BY <2>1, <2>2, SpawnGrows, OwnedWithoutPlayers, MatchAssumption DEF EntityTypes
  <2>3. CASE Spawn("Boss", NumberOfBoss)
    BY <2>1, <2>3, SpawnGrows, OwnedWithoutPlayers, MatchAssumption DEF EntityTypes
  <2>4. CASE UNCHANGED worldVars
    BY <2>1, <2>4, UnchangedShrinks, OwnedWithoutPlayers
  <2>. QED
    BY <1>4, <2>2, <2>3, <2>4 DEF SpawnWave
<1>5. CASE EndFrame
  BY <1>5 DEF EndFrame, PlayersOwned, OfType, playerVars
<1>. QED
  BY <1>1, <1>2, <1>3, <1>4, <1>5 DEF Update, Fight

\* The waves: what the three invariants about them say together.
Waves ==
  /\ BossAfterWaves
  /\ WinIsFinal
  /\ won => currentWave = NumberOfWaves /\ currentBoss = NumberOfBoss

LEMMA WavesWithoutSpawn ==
  ASSUME Waves, UNCHANGED <<waveVars, won>>,
         Shrinks \/ \E type \in {"Player", "Bullet", "EnemyBullet"}, k \in Nat : Grows(type, k)
  PROVE  Waves'
<1>1. ASSUME NEW type \in {"Enemy", "Boss"}
      PROVE  OfType(type)' \subseteq OfType(type)
  <2>1. CASE Shrinks
    BY <2>1 DEF Shrinks, OfType
  <2>2. ASSUME NEW other \in {"Player", "Bullet", "EnemyBullet"}, NEW k \in Nat, Grows(other, k)
        PROVE  OfType(type)' \subseteq OfType(type)
    <3>1. /\ DOMAIN entities' = DOMAIN entities \cup NewIds(k)
          /\ \A i \in DOMAIN entities : entities'[i] = entities[i]
          /\ \A i \in NewIds(k) : entities'[i].type = other
      BY <2>2 DEF Grows
    <3>2. other # type
      OBVIOUS
    <3>. QED
      BY <3>1, <3>2 DEF OfType
  <2>. QED
    BY <2>1, <2>2
<1>2. /\ OfType("Enemy")' \subseteq OfType("Enemy")
      /\ OfType("Boss")' \subseteq OfType("Boss")
  BY <1>1
<1>. QED
  BY <1>2 DEF Waves, BossAfterWaves, WinIsFinal, waveVars

LEMMA WavesStep ==
  ASSUME TypeOK, RegInv, Waves, Update
  PROVE  Waves'
<1>1. CASE Fight
  BY <1>1, FightStep, WavesWithoutSpawn DEF historyVars
<1>2. CASE InitializePlayers
  <2>1. PICK k \in Nat : Grows("Player", k) /\ UNCHANGED <<waveVars, historyVars>>
    BY <1>2, InitializePlayersStep
  <2>. QED
    BY <2>1, WavesWithoutSpawn DEF historyVars
<1>3. CASE CheckForDisconnectedPlayers
  BY <1>3, LeaversStep, WavesWithoutSpawn DEF historyVars
<1>4. CASE SpawnWave
  <2>1. won' = won
    BY <1>4 DEF SpawnWave, historyVars
  <2>2. CASE Spawn("Enemy", EnemiesPerWave) /\ currentWave < NumberOfWaves
    <3>1. OfType("Boss") = {} /\ ~won
      BY <2>2, MatchAssumption DEF TypeOK, Waves, BossAfterWaves
    <3>2. Grows("Enemy", EnemiesPerWave)
      BY <2>2, SpawnGrows, MatchAssumption DEF EntityTypes
    <3>3. OfType("Boss")' = {}
      BY <3>1, <3>2 DEF Grows, OfType
    <3>. QED
      BY <2>1, <3>1, <3>3 DEF Waves, BossAfterWaves, WinIsFinal
  <2>3. CASE /\ Spawn("Boss", NumberOfBoss) /\ OfType("Enemy") = {}
             /\ currentWave >= NumberOfWaves /\ currentBoss < NumberOfBoss
             /\ UNCHANGED currentWave
    <3>1. currentWave = NumberOfWaves /\ ~won
      BY <2>3, MatchAssumption DEF TypeOK, Waves
    <3>2. Grows("Boss", NumberOfBoss)
      BY <2>3, SpawnGrows, MatchAssumption DEF EntityTypes
    <3>3. OfType("Enemy")' = {}
      BY <2>3, <3>2 DEF Grows, OfType
    <3>. QED
      BY <2>1, <2>3, <3>1, <3>3 DEF Waves, BossAfterWaves, WinIsFinal
  <2>4. CASE UNCHANGED <<worldVars, waveVars>>
    BY <2>1, <2>4, UnchangedShrinks, WavesWithoutSpawn
  <2>. QED
    BY <1>4, <2>2, <2>3, <2>4 DEF SpawnWave
<1>5. CASE EndFrame
  <2>1. /\ won' = (won \/ Victory)
        /\ UNCHANGED <<entities, waveVars>>
    BY <1>5 DEF EndFrame
  <2>. QED
    BY <2>1 DEF Waves, BossAfterWaves, WinIsFinal, Victory, OfType, waveVars
<1>. QED
  BY <1>1, <1>2, <1>3, <1>4, <1>5 DEF Update, Fight

------------------------------------------------------------------------------

\* A client that joins or leaves does not disturb the game.
LEMMA RegisterStep ==
  ASSUME GameInv, NEW e \in Endpoints, CreateClient(e) \/ RemoveClient(e), UNCHANGED gameVars
  PROVE  GameInv'
<1>1. RegInv'
  BY CreateClientInv, RemoveClientInv DEF GameInv
<1>2. nbClients' >= nbClients
  BY DEF GameInv, RegInv, RegTypeOK, CreateClient, KeepClient, ReuseId, FreshId,
         RemoveClient, regVars
<1>3. UNCHANGED <<phase, entities, idToSet, created, deleted, clientToEntity, playerSpawned,
                  previousClients, currentWave, currentBoss, shown, won>>
  BY DEF gameVars, worldVars, playerVars, waveVars, historyVars
<1>4. TypeOK'
  BY <1>1, <1>3 DEF GameInv, TypeOK, RegInv
<1>5. SlotsAreIds'
  BY <1>1, <1>2, <1>3 DEF GameInv, SlotsAreIds, TypeOK, RegInv, RegTypeOK
<1>6. PlayersOwned'
  BY <1>3 DEF GameInv, PlayersOwned, OfType
<1>7. FramesTellAll'
  BY <1>3 DEF GameInv, FramesTellAll, Replay, Emplace, Without
<1>8. BossAfterWaves' /\ WinIsFinal'
  BY <1>3 DEF GameInv, BossAfterWaves, WinIsFinal, OfType
<1>. QED
  BY <1>1, <1>3, <1>4, <1>5, <1>6, <1>7, <1>8 DEF GameInv

LEMMA GameStep == GameInv /\ [Next]_vars => GameInv'
<1>. SUFFICES ASSUME GameInv, [Next]_vars PROVE GameInv'
  OBVIOUS
<1>1. CASE Update
  <2>1. UNCHANGED regVars
    BY <1>1 DEF Update, InitializePlayers, ProcessPlayerActions, CheckForDisconnectedPlayers,
       SpawnWave, BulletsHitEnemies, MoveBullets, MoveEnemies, EnemyBulletsHitPlayers,
       MoveEnemyBullets, BulletsHitBoss, MoveBoss, EndFrame
  <2>2. RegInv'
    BY <2>1, RegUnchangedInv DEF GameInv
  <2>3. TypeOK' /\ SlotsAreIds' /\ PlayersOwned' /\ FramesTellAll'
    BY <1>1, TypeStep, SlotsStep, OwnedStep, FramesStep DEF GameInv
  <2>4. Waves'
    BY <1>1, WavesStep DEF GameInv, Waves
  <2>. QED
    BY <2>2, <2>3, <2>4 DEF GameInv, Waves
<1>2. CASE Join \/ Leave
  BY <1>2, RegisterStep DEF Join, Leave
<1>3. CASE UNCHANGED vars
  <2>1. RegInv'
    BY <1>3, RegUnchangedInv DEF GameInv, vars
  <2>2. UNCHANGED <<clients, nbClients, availableIds, phase, entities, idToSet, created, deleted,
                    clientToEntity, playerSpawned, previousClients, currentWave, currentBoss,
                    shown, won>>
    BY <1>3 DEF vars, regVars, gameVars, worldVars, playerVars, waveVars, historyVars
  <2>3. TypeOK' /\ SlotsAreIds'
    BY <2>1, <2>2 DEF GameInv, TypeOK, RegInv, SlotsAreIds
  <2>4. PlayersOwned' /\ BossAfterWaves' /\ WinIsFinal'
    BY <2>2 DEF GameInv, PlayersOwned, BossAfterWaves, WinIsFinal, OfType
  <2>5. FramesTellAll'
    BY <2>2 DEF GameInv, FramesTellAll, Replay, Emplace, Without
  <2>. QED
    BY <2>1, <2>2, <2>3, <2>4, <2>5 DEF GameInv
<1>. QED
  BY <1>1, <1>2, <1>3 DEF Next

\* For any clients, waves and limits, the game's variables have their types.
THEOREM MatchTypes == Spec => []TypeOK
<1>1. GameInv => TypeOK
  BY DEF GameInv
<1>. QED
  BY <1>1, GameInit, GameStep, PTL DEF Spec

\* Every player answers to one slot of clientToEntity, which names no other
\* kind of entity (GameState.cpp:106, 290-296, 328-337).
THEOREM MatchPlayersOwned == Spec => []PlayersOwned
<1>1. GameInv => PlayersOwned
  BY DEF GameInv
<1>. QED
  BY <1>1, GameInit, GameStep, PTL DEF Spec

\* The slots are ids the server gave out (GameState.cpp:290-296 against
\* Server.cpp:124-143).
THEOREM MatchSlots == Spec => []SlotsAreIds
<1>1. GameInv => SlotsAreIds
  BY DEF GameInv
<1>. QED
  BY <1>1, GameInit, GameStep, PTL DEF Spec

\* The frames' CREATE_ and DELETE packets tell what entities there are
\* (GameState.cpp:91-140).
THEOREM MatchFrames == Spec => []FramesTellAll
<1>1. GameInv => FramesTellAll
  BY DEF GameInv
<1>. QED
  BY <1>1, GameInit, GameStep, PTL DEF Spec

\* The boss comes when the last wave is dead, and no enemy joins it
\* (GameState.cpp:345-351).
THEOREM MatchBosses == Spec => []BossAfterWaves
<1>1. GameInv => BossAfterWaves
  BY DEF GameInv
<1>. QED
  BY <1>1, GameInit, GameStep, PTL DEF Spec

\* After a WIN neither enemies nor bosses are there, or come back
\* (GameState.cpp:298-302 and 345-351).
THEOREM MatchWaves == Spec => []WinIsFinal
<1>1. GameInv => WinIsFinal
  BY DEF GameInv
<1>. QED
  BY <1>1, GameInit, GameStep, PTL DEF Spec

------------------------------------------------------------------------------
(* The game is a game like any other.                                      *)

\* A frame deletes only what is shown or what it creates.
FrameInv == deleted \subseteq DOMAIN shown \cup DOMAIN created

\* FramesTellAll: what is there to be killed is shown or created.
LEMMA EntitiesTold ==
  ASSUME FramesTellAll
  PROVE  DOMAIN entities \subseteq DOMAIN shown \cup DOMAIN created
BY DEF FramesTellAll, Replay, Emplace, Without

LEMMA FrameStep ==
  ASSUME GameInv, FrameInv, [Next]_vars
  PROVE  FrameInv'
<1>. TypeOK /\ RegInv
  BY DEF GameInv
<1>1. DOMAIN entities \subseteq DOMAIN shown \cup DOMAIN created
  BY EntitiesTold DEF GameInv
<1>2. CASE EndFrame
  BY <1>2 DEF EndFrame, FrameInv
<1>3. CASE Update /\ ~EndFrame /\ Shrinks
  BY <1>1, <1>3, UpdateStep DEF Shrinks, FrameInv
<1>4. ASSUME NEW type \in EntityTypes, NEW k \in Nat, Grows(type, k), Update, ~EndFrame
      PROVE  FrameInv'
  BY <1>4, UpdateStep DEF Grows, FrameInv
<1>5. CASE Join \/ Leave \/ UNCHANGED vars
  BY <1>5 DEF Join, Leave, vars, gameVars, worldVars, historyVars, FrameInv
<1>. QED
  BY <1>2, <1>3, <1>4, <1>5, UpdateStep DEF Next

LEMMA EndFrameIsFrame ==
  ASSUME EndFrame
  PROVE  Game!Frame
<1>1. DOMAIN Replay = (DOMAIN shown \cup DOMAIN created) \ deleted
  BY DEF Replay, Emplace, Without
<1>2. DOMAIN created' = {} /\ deleted' = {} /\ idToSet' = idToSet /\ shown' = Replay
  BY DEF EndFrame, Empty
<1>. QED
  BY <1>1, <1>2 DEF Game!Frame

\* A call that kills deletes, and one that spawns creates.
LEMMA CallIsCall ==
  ASSUME GameInv, FrameInv, Update, ~EndFrame
  PROVE  Game!Delete \/ Game!Create
<1>. TypeOK /\ RegInv
  BY DEF GameInv
<1>1. shown' = shown
  BY UpdateStep
<1>2. CASE Shrinks
  <2>1. PICK dead \in SUBSET DOMAIN entities :
           deleted' = deleted \cup dead /\ UNCHANGED <<idToSet, created>>
    BY <1>2 DEF Shrinks
  <2>2. deleted' \subseteq DOMAIN shown \cup DOMAIN created
    BY <2>1, EntitiesTold DEF FrameInv, GameInv
  <2>. QED
    BY <1>1, <2>1, <2>2 DEF Game!Delete
<1>3. ASSUME NEW type \in EntityTypes, NEW k \in Nat, Grows(type, k)
      PROVE  Game!Create
  <2>1. /\ idToSet' = idToSet + k /\ idToSet \in Nat
        /\ deleted' = deleted
        /\ DOMAIN created' = DOMAIN created \cup idToSet .. (idToSet + k - 1)
    BY <1>3 DEF Grows, NewIds, TypeOK
  <2>2. idToSet' >= idToSet
    BY <2>1
  <2>. QED
    BY <1>1, <2>1, <2>2 DEF Game!Create
<1>. QED
  BY <1>2, <1>3, UpdateStep

\* To the server the game is any game: no id is ever used again, and no DELETE
\* packet names what no frame left or created (GameState.cpp:91-140, 356-378).
THEOREM MatchImplementsAnyGame == Spec => ImplementsAnyGame
<1>1. Init => Game!Init
  BY DEF Init, Empty, Game!Init
<1>2. GameInv /\ FrameInv /\ [Next]_vars => [Game!Next]_(Game!vars)
  <2>. SUFFICES ASSUME GameInv, FrameInv, [Next]_vars PROVE [Game!Next]_(Game!vars)
    OBVIOUS
  <2>1. CASE EndFrame
    BY <2>1, EndFrameIsFrame DEF Game!Next
  <2>2. CASE Update /\ ~EndFrame
    BY <2>2, CallIsCall DEF Game!Next
  <2>3. CASE Join \/ Leave \/ UNCHANGED vars
    BY <2>3 DEF Join, Leave, vars, gameVars, worldVars, historyVars, Game!vars
  <2>. QED
    BY <2>1, <2>2, <2>3 DEF Next
<1>3. GameInv /\ FrameInv /\ [Next]_vars => FrameInv'
  BY FrameStep
<1>4. Init => FrameInv
  BY DEF Init, FrameInv
<1>. QED
  BY <1>1, <1>2, <1>3, <1>4, GameInit, GameStep, PTL DEF Spec, ImplementsAnyGame, Game!Spec

------------------------------------------------------------------------------
(* Players for all, as long as nobody leaves.                              *)

\* Nobody left: the ids are 0..nbClients-1, and the slots those counted.
StayInv ==
  /\ availableIds = <<>>
  /\ Ids = 0..(nbClients - 1)
  /\ previousClients \subseteq Ids
  /\ DOMAIN clientToEntity = 0..(playerSpawned - 1)

LEMMA StayInit == Init => StayInv
  BY DEF Init, RegInit, StayInv, Ids, Empty

\* The number of missing players is what playerSpawned lacks.
LEMMA PlayersCounted ==
  ASSUME GameInv, StayInv, InitializePlayers
  PROVE  /\ DOMAIN clientToEntity' = 0..(playerSpawned' - 1)
         /\ playerSpawned' >= nbClients
         /\ UNCHANGED <<regVars, previousClients>>
<1>. DEFINE k == MissingPlayers
<1>1. nbClients \in Nat /\ playerSpawned \in Nat
  BY DEF GameInv, TypeOK, RegTypeOK
<1>2. 0 \in Int /\ nbClients - 1 \in Int
  BY <1>1
<1>3. Cardinality(0..(nbClients - 1)) = nbClients
  BY <1>1, <1>2, FS_Interval
<1>4. Cardinality(Ids) = nbClients
  BY <1>3 DEF StayInv
<1>5. k \in Nat /\ playerSpawned + k >= nbClients
  BY <1>1, <1>4 DEF MissingPlayers
<1>6. /\ DOMAIN clientToEntity' = DOMAIN clientToEntity \cup (playerSpawned .. (playerSpawned + k - 1))
      /\ playerSpawned' = playerSpawned + k
      /\ UNCHANGED <<regVars, previousClients>>
  BY DEF InitializePlayers
<1>. HIDE DEF k
<1>7. 0..(playerSpawned - 1) \cup (playerSpawned .. (playerSpawned + k - 1)) = 0..(playerSpawned + k - 1)
  BY <1>1, <1>5
<1>8. DOMAIN clientToEntity = 0..(playerSpawned - 1)
  BY DEF StayInv
<1>9. DOMAIN clientToEntity' = 0..(playerSpawned' - 1)
  <2>1. playerSpawned' - 1 = playerSpawned + k - 1
    BY <1>1, <1>5, <1>6
  <2>2. DOMAIN clientToEntity' = 0..(playerSpawned + k - 1)
    BY <1>6, <1>7, <1>8
  <2>. QED
    BY <2>1, <2>2
<1>10. playerSpawned' >= nbClients
  BY <1>5, <1>6
<1>. QED
  BY <1>6, <1>9, <1>10

LEMMA StayStep ==
  ASSUME GameInv, StayInv, [Update \/ Join]_vars
  PROVE  StayInv'
<1>1. CASE InitializePlayers
  BY <1>1, PlayersCounted DEF StayInv, regVars, Ids
<1>2. CASE CheckForDisconnectedPlayers
  <2>1. previousClients \ Ids = {}
    BY DEF StayInv
  <2>2. DOMAIN clientToEntity' = DOMAIN clientToEntity
    BY <1>2, <2>1 DEF CheckForDisconnectedPlayers, Without
  <2>3. /\ previousClients' = Ids
        /\ UNCHANGED <<regVars, playerSpawned>>
    BY <1>2 DEF CheckForDisconnectedPlayers
  <2>. QED
    BY <2>2, <2>3 DEF StayInv, regVars, Ids
<1>3. CASE Join
  <2>1. PICK e \in Endpoints : CreateClient(e)
    BY <1>3 DEF Join
  <2>2. UNCHANGED <<previousClients, clientToEntity, playerSpawned>>
    BY <1>3 DEF Join, gameVars, playerVars
  <2>3. CASE KeepClient(e)
    BY <2>2, <2>3 DEF KeepClient, StayInv, regVars, Ids
  <2>4. CASE FreshId(e)
    <3>1. nbClients \in Nat /\ nbClients \notin DOMAIN clients
      BY DEF GameInv, RegInv, RegTypeOK, Ids
    <3>2. Ids' = Ids \cup {nbClients}
      BY <2>4, <3>1 DEF FreshId, Insert, Ids
    <3>3. nbClients' = nbClients + 1 /\ availableIds' = availableIds
      BY <2>4 DEF FreshId
    <3>4. Ids' = 0..(nbClients' - 1)
      BY <3>1, <3>2, <3>3 DEF StayInv
    <3>. QED
      BY <2>2, <3>2, <3>3, <3>4 DEF StayInv
  <2>5. ~ReuseId(e)
    BY DEF ReuseId, StayInv
  <2>. QED
    BY <2>1, <2>3, <2>4, <2>5 DEF CreateClient
<1>4. CASE UNCHANGED <<regVars, playerVars>>
  BY <1>4 DEF StayInv, regVars, playerVars, Ids
<1>. QED
  BY <1>1, <1>2, <1>3, <1>4
     DEF Update, ProcessPlayerActions, SpawnWave, BulletsHitEnemies, MoveBullets, MoveEnemies,
         EnemyBulletsHitPlayers, MoveEnemyBullets, BulletsHitBoss, MoveBoss, EndFrame,
         vars, gameVars

\* As long as nobody leaves, counting players gives each client its own: the
\* count of all that ever came is then the count of those that are there
\* (GameState.cpp:290-296, 341).
THEOREM MatchPlayersForAll == StaySpec => PlayersForAllWhoStay
<1>1. Init => GameInv /\ StayInv
  BY GameInit, StayInit
<1>2. GameInv /\ StayInv /\ [Update \/ Join]_vars => GameInv' /\ StayInv'
  <2>1. [Update \/ Join]_vars => [Next]_vars
    BY DEF Next
  <2>. QED
    BY <2>1, GameStep, StayStep
<1>3. GameInv /\ StayInv /\ [Update \/ Join]_vars =>
        [InitializePlayers => Ids \subseteq DOMAIN clientToEntity']_vars
  <2>1. ASSUME GameInv, StayInv, InitializePlayers
        PROVE  Ids \subseteq DOMAIN clientToEntity'
    <3>1. /\ DOMAIN clientToEntity' = 0..(playerSpawned' - 1)
          /\ playerSpawned' >= nbClients
      BY <2>1, PlayersCounted
    <3>2. playerSpawned' \in Nat /\ nbClients \in Nat
      <4>1. TypeOK'
        BY <2>1, GameStep DEF Next, Update, GameInv
      <4>. QED
        BY <2>1, <4>1 DEF GameInv, TypeOK, RegTypeOK
    <3>3. Ids = 0..(nbClients - 1)
      BY <2>1 DEF StayInv
    <3>4. \A m, n \in Nat : n >= m => 0..(m - 1) \subseteq 0..(n - 1)
      OBVIOUS
    <3>5. 0..(nbClients - 1) \subseteq 0..(playerSpawned' - 1)
      BY <3>1, <3>2, <3>4
    <3>. QED
      BY <3>1, <3>3, <3>5
  <2>. QED
    BY <2>1
<1>. QED
  BY <1>1, <1>2, <1>3, PTL DEF StaySpec, PlayersForAllWhoStay
=============================================================================
