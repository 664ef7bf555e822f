-------------------------------- MODULE Match --------------------------------
(***************************************************************************)
(* The R-Type game (GameState): what one frame of GameState::update does   *)
(* to the entities, the players and the waves, while clients come and go.  *)
(*                                                                         *)
(* A frame runs under server_mutex, so game threads take turns and nobody  *)
(* else sees the entities in between; but the register of clients is       *)
(* changed by the handler thread at any time, and a frame reads it twice:  *)
(* its size without a lock at the start (GameState.cpp:341), its ids under *)
(* clients_mutex_ later (304).  Each call of update is a phase here.       *)
(*                                                                         *)
(* Positions are left out: any bullet may hit anything it can hit, or      *)
(* leave the screen.  Moves only change positions.                         *)
(***************************************************************************)
EXTENDS ClientIds, StdMap

CONSTANTS EnemiesPerWave,     \* enemiesPerWave
          NumberOfWaves,      \* numberOfWaves
          NumberOfBoss,       \* numberOfBoss
          BossLives,          \* the lives of a boss, 3 in the code
          MaxEnemyBullets,    \* maxEnemyBullets
          BossExtraBullets,   \* what moveBoss adds to it, 5 in the code
          MaxEntities         \* bound: no bullet is fired beyond that id

ASSUME MatchAssumption ==
    /\ EnemiesPerWave \in Nat /\ NumberOfWaves \in Nat /\ NumberOfBoss \in Nat
    /\ BossLives \in Nat \ {0}
    /\ MaxEnemyBullets \in Nat /\ BossExtraBullets \in Nat /\ MaxEntities \in Nat

EntityTypes == {"Player", "Enemy", "Boss", "Bullet", "EnemyBullet"}

VARIABLES
    phase,           \* the next call of update
    entities,        \* entities: id -> [type, lives]
    idToSet,         \* id_to_set
    clientToEntity,  \* clientToEntity: client id -> entity id
    playerSpawned,   \* playerSpawned
    previousClients, \* the ids of previousClients
    currentWave,     \* currentWave
    currentBoss,     \* currentBoss
    created,         \* the CREATE_ packets of the frame: id -> type
    deleted,         \* the ids of its DELETE packets
    shown,           \* history: what all frames so far show, id -> type
    won              \* history: some frame carried WIN

worldVars == <<entities, idToSet, created, deleted>>
playerVars == <<clientToEntity, playerSpawned, previousClients>>
waveVars == <<currentWave, currentBoss>>
historyVars == <<shown, won>>
gameVars == <<phase, worldVars, playerVars, waveVars, historyVars>>
vars == <<regVars, gameVars>>

Init ==
    /\ RegInit
    /\ phase = "players"
    /\ entities = Empty
    /\ idToSet = 0
    /\ clientToEntity = Empty
    /\ playerSpawned = 0
    /\ previousClients = {}
    /\ currentWave = 0
    /\ currentBoss = 0
    /\ created = Empty
    /\ deleted = {}
    /\ shown = Empty
    /\ won = FALSE

OfType(type) == {i \in DOMAIN entities : entities[i].type = type}

------------------------------------------------------------------------------
(* spawnEntity and killEntity, several at a time.                          *)

\* Mutant of NewIds: the counter is increased first.
NewIdsAhead(k) == (idToSet + 1) .. (idToSet + k)

NewIds(k) == idToSet .. (idToSet + k - 1)

NewEntity(type) == [type |-> type, lives |-> IF type = "Boss" THEN BossLives ELSE 1]

Spawn(type, k) ==
    /\ entities' = Emplace(entities, [i \in NewIds(k) |-> NewEntity(type)])
    /\ created' = Emplace(created, [i \in NewIds(k) |-> type])
    /\ idToSet' = idToSet + k
    /\ UNCHANGED deleted

\* Mutants of Kill: no DELETE packet; the entity stays in the map; whether it is
\* there is not asked.
KillUntold(S) ==
    /\ entities' = Without(entities, S)
    /\ UNCHANGED <<deleted, idToSet, created>>

KillNothing(S) ==
    /\ deleted' = deleted \cup (S \cap DOMAIN entities)
    /\ UNCHANGED <<entities, idToSet, created>>

KillUnasked(S) ==
    /\ entities' = Without(entities, S)
    /\ deleted' = deleted \cup S
    /\ UNCHANGED <<idToSet, created>>

Kill(S) ==
    /\ entities' = Without(entities, S)
    /\ deleted' = deleted \cup (S \cap DOMAIN entities)
    /\ UNCHANGED <<idToSet, created>>

CanFire(k) == idToSet + k <= MaxEntities

------------------------------------------------------------------------------
(* The calls of update, in their order.                                    *)

Call(now, next) == phase = now /\ phase' = next

\* One player for each client beyond those that were ever counted.
MissingPlayers ==
    LET size == Cardinality(Ids)
    IN IF size > playerSpawned THEN size - playerSpawned ELSE 0

InitializePlayers ==
    /\ Call("players", "shots")
    /\ LET k == MissingPlayers
           slots == playerSpawned .. (playerSpawned + k - 1)
       IN /\ Spawn("Player", k)
          /\ clientToEntity' = [c \in DOMAIN clientToEntity \cup slots |->
                IF c \in slots THEN idToSet + (c - playerSpawned) ELSE clientToEntity[c]]
          /\ playerSpawned' = playerSpawned + k
    /\ UNCHANGED <<regVars, previousClients, waveVars, historyVars>>

\* The pending actions are of clients that are, or were, registered; a shot
\* of one that has no living entity is dropped.
ProcessPlayerActions ==
    /\ Call("shots", "leavers")
    /\ \E shots \in 0..MaxEntities :
          /\ shots > 0 =>
                /\ CanFire(shots)
                /\ \E c \in 0..(nbClients - 1) :
                      c \in DOMAIN clientToEntity /\ clientToEntity[c] \in DOMAIN entities
          /\ Spawn("Bullet", shots)
    /\ UNCHANGED <<regVars, playerVars, waveVars, historyVars>>

\* The ids that left are looked for only when there are fewer clients.
CheckForDisconnectedPlayers ==
    /\ Call("leavers", "waves")
    /\ IF Cardinality(Ids) >= Cardinality(previousClients)
       THEN UNCHANGED <<worldVars, clientToEntity>>
       ELSE LET gone == (previousClients \ Ids) \cap DOMAIN clientToEntity
            IN /\ Kill({clientToEntity[c] : c \in gone})
               /\ clientToEntity' = Without(clientToEntity, gone)
    /\ previousClients' = Ids
    /\ UNCHANGED <<regVars, playerSpawned, waveVars, historyVars>>

\* Mutant of SpawnWave: the boss does not wait for the last wave to die.
SpawnBossEarly ==
    /\ Call("waves", "bulletsHitEnemies")
    /\ \/ /\ OfType("Enemy") = {}
          /\ currentWave < NumberOfWaves
          /\ Spawn("Enemy", EnemiesPerWave)
          /\ currentWave' = currentWave + 1
          /\ UNCHANGED currentBoss
       \/ /\ currentWave >= NumberOfWaves
          /\ currentBoss < NumberOfBoss
          /\ Spawn("Boss", NumberOfBoss)
          /\ currentBoss' = currentBoss + 1
          /\ UNCHANGED currentWave
       \/ UNCHANGED <<worldVars, waveVars>>
    /\ UNCHANGED <<regVars, playerVars, historyVars>>

SpawnWave ==
    /\ Call("waves", "bulletsHitEnemies")
    /\ \/ /\ OfType("Enemy") = {}
          /\ currentWave < NumberOfWaves
          /\ Spawn("Enemy", EnemiesPerWave)
          /\ currentWave' = currentWave + 1
          /\ UNCHANGED currentBoss
       \/ /\ OfType("Enemy") = {}
          /\ currentWave >= NumberOfWaves
          /\ currentBoss < NumberOfBoss
          /\ Spawn("Boss", NumberOfBoss)
          /\ currentBoss' = currentBoss + 1
          /\ UNCHANGED currentWave
       \/ /\ \/ OfType("Enemy") # {}
             \/ currentWave >= NumberOfWaves /\ currentBoss >= NumberOfBoss
          /\ UNCHANGED <<worldVars, waveVars>>
    /\ UNCHANGED <<regVars, playerVars, historyVars>>

\* checkCollisions: the first pair that touches, if any, loses a life each.
Collide(typeA, typeB) ==
    \/ UNCHANGED worldVars
    \/ \E a \in OfType(typeA), b \in OfType(typeB) :
          LET dead == {i \in {a, b} : entities[i].lives = 1}
          IN /\ entities' = [i \in DOMAIN entities \ dead |->
                               IF i \in {a, b} THEN [entities[i] EXCEPT !.lives = @ - 1]
                               ELSE entities[i]]
             /\ deleted' = deleted \cup dead
             /\ UNCHANGED <<idToSet, created>>

BulletsHitEnemies ==
    /\ Call("bulletsHitEnemies", "bullets")
    /\ Collide("Bullet", "Enemy")
    /\ UNCHANGED <<regVars, playerVars, waveVars, historyVars>>

MoveBullets ==
    /\ Call("bullets", "enemies")
    /\ \E gone \in SUBSET OfType("Bullet") : Kill(gone)
    /\ UNCHANGED <<regVars, playerVars, waveVars, historyVars>>

\* Each shooter in turn fires unless the limit is reached.
Fire(shooters, limit) ==
    \E k \in 0..Cardinality(shooters) :
        /\ k > 0 => /\ Cardinality(OfType("EnemyBullet")) + k <= limit
                    /\ CanFire(k)
        /\ Spawn("EnemyBullet", k)

MoveEnemies ==
    /\ Call("enemies", "enemyBulletsHitPlayers")
    /\ Fire(OfType("Enemy"), MaxEnemyBullets)
    /\ UNCHANGED <<regVars, playerVars, waveVars, historyVars>>

EnemyBulletsHitPlayers ==
    /\ Call("enemyBulletsHitPlayers", "enemyBullets")
    /\ Collide("EnemyBullet", "Player")
    /\ UNCHANGED <<regVars, playerVars, waveVars, historyVars>>

MoveEnemyBullets ==
    /\ Call("enemyBullets", "bulletsHitBoss")
    /\ \E gone \in SUBSET OfType("EnemyBullet") : Kill(gone)
    /\ UNCHANGED <<regVars, playerVars, waveVars, historyVars>>

BulletsHitBoss ==
    /\ Call("bulletsHitBoss", "boss")
    /\ Collide("Bullet", "Boss")
    /\ UNCHANGED <<regVars, playerVars, waveVars, historyVars>>

MoveBoss ==
    /\ Call("boss", "end")
    /\ Fire(OfType("Boss"), MaxEnemyBullets + BossExtraBullets)
    /\ UNCHANGED <<regVars, playerVars, waveVars, historyVars>>

\* Mutant of Victory: the boss that came may live.
VictoryTooSoon ==
    /\ currentWave = NumberOfWaves
    /\ currentBoss = NumberOfBoss
    /\ OfType("Enemy") = {}

Victory ==
    /\ currentWave = NumberOfWaves
    /\ currentBoss = NumberOfBoss
    /\ OfType("Enemy") = {}
    /\ OfType("Boss") = {}

\* What a client that gets every frame then shows: createSprite for all the
\* CREATE_ packets of a frame, destroySprite for its DELETE packets.
Replay == Without(Emplace(shown, created), deleted)

\* CheckWinCondition; run stores the frame, and the next one starts empty.
EndFrame ==
    /\ Call("end", "players")
    /\ won' = (won \/ Victory)
    /\ shown' = Replay
    /\ created' = Empty
    /\ deleted' = {}
    /\ UNCHANGED <<regVars, entities, idToSet, playerVars, waveVars>>

Update ==
    \/ InitializePlayers \/ ProcessPlayerActions \/ CheckForDisconnectedPlayers
    \/ SpawnWave \/ BulletsHitEnemies \/ MoveBullets \/ MoveEnemies
    \/ EnemyBulletsHitPlayers \/ MoveEnemyBullets \/ BulletsHitBoss \/ MoveBoss
    \/ EndFrame

Join == \E e \in Endpoints : CreateClient(e) /\ UNCHANGED gameVars
Leave == \E e \in Endpoints : RemoveClient(e) /\ UNCHANGED gameVars

Next == Update \/ Join \/ Leave
Spec == Init /\ [][Next]_vars

\* The game thread polls its clock for ever.
FairSpec == Spec /\ WF_vars(Update)

------------------------------------------------------------------------------
(* Invariants.                                                             *)

Phases == {"players", "shots", "leavers", "waves", "bulletsHitEnemies", "bullets",
           "enemies", "enemyBulletsHitPlayers", "enemyBullets", "bulletsHitBoss",
           "boss", "end"}

\* The type of every variable; the entities have ids already given.
TypeOK ==
    /\ RegTypeOK
    /\ phase \in Phases
    /\ idToSet \in Nat
    /\ DOMAIN entities \subseteq 0..(idToSet - 1)
    /\ \A i \in DOMAIN entities :
          entities[i].type \in EntityTypes /\ entities[i].lives \in Nat \ {0}
    /\ playerSpawned \in Nat
    /\ \A c \in DOMAIN clientToEntity : clientToEntity[c] \in 0..(idToSet - 1)
    /\ previousClients \subseteq Nat
    /\ currentWave \in 0..NumberOfWaves
    /\ currentBoss \in 0..NumberOfBoss
    /\ DOMAIN created \subseteq 0..(idToSet - 1)
    /\ deleted \subseteq 0..(idToSet - 1)
    /\ DOMAIN shown \subseteq 0..(idToSet - 1)
    /\ won \in BOOLEAN

(***************************************************************************)
(* Every player on the field answers to exactly one slot of clientToEntity *)
(* and a slot never names an entity that is not a player: what             *)
(* handlePlayerMove, handlePlayerShoot and removePlayerEntity (328, 378,   *)
(* 393) do to entityId, they do to that client's player.                   *)
(***************************************************************************)
PlayersOwned ==
    /\ \A p \in OfType("Player") : \E c \in DOMAIN clientToEntity : clientToEntity[c] = p
    /\ \A c, d \in DOMAIN clientToEntity : clientToEntity[c] = clientToEntity[d] => c = d
    /\ \A c \in DOMAIN clientToEntity :
          clientToEntity[c] \in DOMAIN entities => clientToEntity[c] \in OfType("Player")

(***************************************************************************)
(* The slots are ids the server gave out: playerSpawned, counted from the  *)
(* size of a map that shrinks and grows (290-296), never runs ahead of the *)
(* ids, and no slot at or above it exists.                                 *)
(***************************************************************************)
SlotsAreIds ==
    /\ playerSpawned <= nbClients
    /\ DOMAIN clientToEntity \subseteq 0..(playerSpawned - 1)

(***************************************************************************)
(* The frames tell everything: whoever replays the CREATE_ and DELETE      *)
(* packets of every frame, in the client's order, shows exactly the        *)
(* entities there are, at the middle of a frame too (91-140).              *)
(***************************************************************************)
FramesTellAll ==
    /\ DOMAIN Replay = DOMAIN entities
    /\ \A i \in DOMAIN entities : Replay[i] = entities[i].type

(***************************************************************************)
(* To the server, which reads only packets, this is a game like any other: *)
(* its CREATE_ packets give the next ids, and its DELETE packets name only *)
(* what earlier frames left or this one created, although a slot of        *)
(* clientToEntity outlives its player (91-140, 328-337, 356-378).          *)
(***************************************************************************)
Game == INSTANCE AnyGame WITH
            alive <- DOMAIN shown, next <- idToSet, created <- DOMAIN created
ImplementsAnyGame == Game!Spec

(***************************************************************************)
(* A WIN packet is the truth from then on: no enemy or boss is there or    *)
(* comes back after it (345-351 against 298-302).                          *)
(***************************************************************************)
WinIsFinal == won => OfType("Enemy") = {} /\ OfType("Boss") = {}

\* The boss comes when the last wave is dead, and no enemy joins it.
BossAfterWaves ==
    OfType("Boss") # {} => OfType("Enemy") = {} /\ currentWave = NumberOfWaves

------------------------------------------------------------------------------
(* Players come and go.                                                    *)

(***************************************************************************)
(* "Communicates with the server to send player inputs" (README.md:34): a  *)
(* client that stays registered eventually has a player its inputs move.   *)
(* Violated: a count of players ever spawned stands for their ids (291).   *)
(***************************************************************************)
EveryClientGetsPlayer ==
    \A c \in 0..(Cardinality(Endpoints) - 1) :
        c \in Ids ~> c \in DOMAIN clientToEntity \/ c \notin Ids

\* What is left of it: as long as nobody leaves, the frame that counts a client
\* gives it a player (290-296).
StaySpec == Init /\ [][Update \/ Join]_vars
PlayersForAllWhoStay == [][InitializePlayers => Ids \subseteq DOMAIN clientToEntity']_vars
=============================================================================
