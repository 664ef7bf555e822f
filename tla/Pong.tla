-------------------------------- MODULE Pong ---------------------------------
(***************************************************************************)
(* The second game behind AGame (Pong.cpp): two paddles and a ball.  A     *)
(* frame runs under server_mutex; each call of update is a phase here, and *)
(* between two of them the handler thread changes the register of clients, *)
(* of which Pong knows its size only (200) and, from the actions, ids that *)
(* were given at some time.                                                *)
(*                                                                         *)
(* Coordinates are integers in any unit (everything in the code is a       *)
(* multiple of 0.001): the proofs hold for the code's numbers, TLC runs on *)
(* a small field.  The packets are left out but for WIN.                   *)
(***************************************************************************)
EXTENDS Integers, StdMap

CONSTANTS LeftX, RightX, PlayerY,      \* where the paddles are created
          BallX, BallY,                \* where the ball is created
          ReachX, ReachY,              \* thresholdX, thresholdY
          LeftWall, RightWall,         \* beyond these the game is over
          Height,                      \* maxY; minY is 0
          Speed,                       \* ballSpeedX
          Drift,                       \* the most a frame adds to the ball's y
          MoveDistance,                \* moveDistance
          MaxClients,                  \* bound: clients at one time
          MaxY,                        \* bound: inputs move nothing beyond it
          MaxBeyond                    \* bound: how far outside a ball is followed

\* No paddle reaches a wall or what the other one reaches.
ASSUME PongAssumption ==
    /\ {LeftX, RightX, PlayerY, BallX, BallY, LeftWall, RightWall} \subseteq Int
    /\ {ReachX, ReachY, Height, Drift, MoveDistance} \subseteq Nat
    /\ {MaxClients, MaxY, MaxBeyond} \subseteq Nat
    /\ Speed \in Nat \ {0}
    /\ LeftWall <= LeftX - ReachX
    /\ LeftX + ReachX <= BallX /\ BallX <= RightX - ReachX
    /\ RightX + ReachX <= RightWall
    /\ 0 <= BallY /\ BallY <= Height /\ 2 * Drift <= Height

VARIABLES
    clientCount,    \* clients_.size()
    nbClients,      \* _nbClients: the ids ever given are below it
    call,           \* the next call of update
    entities,       \* entities: id -> [type, x, y]
    idToSet,        \* id_to_set
    playerSpawned,  \* playerSpawned
    currentBalls,   \* currentBalls
    lastPlayerHit,  \* lastPlayerHit
    gameOver,       \* gameOver
    won,            \* history: some frame carried WIN
    toucher         \* history: the paddle that touched the ball last

sizeVars == <<clientCount, nbClients>>
worldVars == <<entities, idToSet>>
countVars == <<playerSpawned, currentBalls>>
ballVars == <<lastPlayerHit, gameOver>>
historyVars == <<won, toucher>>
gameVars == <<call, worldVars, countVars, ballVars, historyVars>>
vars == <<sizeVars, gameVars>>

MaxPlayers == 2
MaxBalls == 1

Init ==
    /\ clientCount = 0 /\ nbClients = 0
    /\ call = "players"
    /\ entities = Empty /\ idToSet = 0
    /\ playerSpawned = 0 /\ currentBalls = 0
    /\ lastPlayerHit = 1 /\ gameOver = FALSE
    /\ won = FALSE /\ toucher = "none"

Balls == {i \in DOMAIN entities : entities[i].type = "Ball"}
Paddles == {i \in DOMAIN entities : entities[i].type = "Player"}

------------------------------------------------------------------------------
(* The register's two sizes: an id is made only when none is free.         *)

Join ==
    /\ clientCount < MaxClients
    /\ clientCount' = clientCount + 1
    /\ nbClients' = IF clientCount = nbClients THEN nbClients + 1 ELSE nbClients
    /\ UNCHANGED gameVars

Leave ==
    /\ clientCount > 0
    /\ clientCount' = clientCount - 1
    /\ UNCHANGED <<nbClients, gameVars>>

------------------------------------------------------------------------------
(* The calls of update, in their order.                                    *)

Call(now, next) == call = now /\ call' = next

Entity(type, x, y) == [type |-> type, x |-> x, y |-> y]

\* Mutant of NewIds: the counter is increased first.
NewIdsAhead(k) == (idToSet + 1) .. (idToSet + k)

NewIds(k) == idToSet .. (idToSet + k - 1)

\* spawnEntity k times: the map and the counter.
Spawn(k, new) ==
    /\ entities' = Emplace(entities, new)
    /\ idToSet' = idToSet + k

NumPlayers == IF clientCount < MaxPlayers THEN clientCount ELSE MaxPlayers

\* The paddles are told apart by how many there are already.
PaddleX(slot) == IF slot = 0 THEN LeftX ELSE RightX

\* One paddle for each client beyond those that were ever counted, two at most.
InitializePlayers ==
    /\ Call("players", "actions")
    /\ IF playerSpawned < NumPlayers
       THEN /\ Spawn(NumPlayers - playerSpawned,
                     [i \in NewIds(NumPlayers - playerSpawned) |->
                        Entity("Player", PaddleX(playerSpawned + i - idToSet), PlayerY)])
            /\ playerSpawned' = NumPlayers
       ELSE UNCHANGED <<worldVars, playerSpawned>>
    /\ UNCHANGED <<sizeVars, currentBalls, ballVars, historyVars>>

\* The entity whose id is the client's: a paddle, or the ball for the third.
HandlePlayerMove(client, dy) ==
    /\ call = "actions"
    /\ client \in DOMAIN entities
    /\ entities[client].y + dy \in (-MaxY) .. MaxY
    /\ entities' = [entities EXCEPT ![client].y = @ + dy]
    /\ UNCHANGED <<sizeVars, call, idToSet, countVars, ballVars, historyVars>>

Move == \E client \in 0..(nbClients - 1), dy \in {-MoveDistance, MoveDistance} :
            HandlePlayerMove(client, dy)

\* The walk over the actions, which PlayerActions models, is at its end.
ActionsDone ==
    /\ Call("actions", "ball")
    /\ UNCHANGED <<sizeVars, worldVars, countVars, ballVars, historyVars>>

\* Mutant of BallDue: one player is enough.
BallDueEarly == currentBalls < MaxBalls /\ playerSpawned > 0

BallDue == currentBalls < MaxBalls /\ playerSpawned = MaxPlayers

SpawnBall ==
    /\ Call("ball", "collisions")
    /\ IF BallDue
       THEN /\ Spawn(MaxBalls, [i \in NewIds(MaxBalls) |-> Entity("Ball", BallX, BallY)])
            /\ currentBalls' = currentBalls + 1
       ELSE UNCHANGED <<worldVars, currentBalls>>
    /\ UNCHANGED <<sizeVars, playerSpawned, ballVars, historyVars>>

Distance(u, v) == IF u < v THEN v - u ELSE u - v

Touches(p, b) ==
    /\ Distance(entities[p].x, entities[b].x) < ReachX
    /\ Distance(entities[p].y, entities[b].y) < ReachY

Touching == {p \in Paddles : \E b \in Balls : Touches(p, b)}

\* Mutant of HitBy: the other way round.
HitByOther(p) == IF p = 0 THEN 2 ELSE 1

HitBy(p) == IF p = 0 THEN 1 ELSE 2

\* The last paddle that touches, in the order of the ids, counts.
CheckCollisions ==
    /\ Call("collisions", "move")
    /\ IF Touching = {}
       THEN UNCHANGED <<lastPlayerHit, toucher>>
       ELSE \E p \in Touching :
               /\ \A q \in Touching : q <= p
               /\ lastPlayerHit' = HitBy(p)
               /\ toucher' = IF entities[p].x = LeftX THEN "left" ELSE "right"
    /\ UNCHANGED <<sizeVars, worldVars, countVars, gameOver, won>>

SpeedX == IF lastPlayerHit = 1 THEN Speed ELSE -Speed

\* Mutants of Ends: the border itself counts; no wall on the right.
EndsOnWall(newX) == newX <= LeftWall \/ newX >= RightWall
EndsLeft(newX) == newX < LeftWall

Ends(newX) == newX < LeftWall \/ newX > RightWall

\* Mutant of Clip: the top border is not tested.
ClipBottom(y, dy) == IF y + dy > Height THEN Height ELSE dy

\* What is added to y: the border's own coordinate, not the way to it.
Clip(y, dy) == IF y + dy < 0 THEN 0 ELSE IF y + dy > Height THEN Height ELSE dy

MoveBall ==
    /\ Call("move", "end")
    /\ \A b \in Balls : entities[b].x + SpeedX \in (LeftWall - MaxBeyond) .. (RightWall + MaxBeyond)
    /\ \E dy \in (-Drift) .. Drift :
          entities' = [i \in DOMAIN entities |->
                         IF i \in Balls
                         THEN Entity("Ball", entities[i].x + SpeedX,
                                     entities[i].y + Clip(entities[i].y, dy))
                         ELSE entities[i]]
    /\ gameOver' = (gameOver \/ \E b \in Balls : Ends(entities[b].x + SpeedX))
    /\ UNCHANGED <<sizeVars, idToSet, countVars, lastPlayerHit, historyVars>>

\* CheckWinCondition; run stores the frame, and the next one starts empty.
EndFrame ==
    /\ Call("end", "players")
    /\ won' = (won \/ gameOver)
    /\ UNCHANGED <<sizeVars, worldVars, countVars, ballVars, toucher>>

Update ==
    \/ InitializePlayers \/ ActionsDone \/ SpawnBall \/ CheckCollisions \/ MoveBall
    \/ EndFrame

Next == Update \/ Move \/ Join \/ Leave

Spec == Init /\ [][Next]_vars

\* The game thread polls its clock for ever.
FairSpec == Spec /\ WF_vars(Update)

------------------------------------------------------------------------------
(* Properties.                                                             *)

Calls == {"players", "actions", "ball", "collisions", "move", "end"}
EntityType == [type : {"Player", "Ball"}, x : Int, y : Int]

\* The type of every variable; the entities have ids already given.
TypeOK ==
    /\ clientCount \in Nat /\ nbClients \in Nat /\ clientCount <= nbClients
    /\ call \in Calls
    /\ idToSet \in Nat /\ DOMAIN entities = 0..(idToSet - 1)
    /\ \A i \in DOMAIN entities : entities[i] \in EntityType
    /\ playerSpawned \in 0..MaxPlayers /\ currentBalls \in 0..MaxBalls
    /\ lastPlayerHit \in {1, 2} /\ gameOver \in BOOLEAN
    /\ won \in BOOLEAN /\ toucher \in {"none", "left", "right"}

(***************************************************************************)
(* Client ids, entity ids and paddles are counted apart and used for each  *)
(* other (171, 238): while clients come and go, the paddles are the        *)
(* entities of the first ids ever given, 0 the left one and 1 the right    *)
(* one, and the ball comes after both.                                     *)
(***************************************************************************)
SlotsAreIds ==
    /\ playerSpawned <= nbClients
    /\ Paddles = 0..(playerSpawned - 1)
    /\ \A p \in Paddles : entities[p].x = PaddleX(p)
    /\ Balls # {} => Balls = {2} /\ playerSpawned = 2

(***************************************************************************)
(* gameOver, which is never reset, stays the truth: the ball is outside    *)
(* from the step that sets it on, and no paddle ever brings it back (147   *)
(* against 162-176).                                                       *)
(***************************************************************************)
GameOverIsOut ==
    gameOver <=> \E b \in Balls : entities[b].x < LeftWall \/ entities[b].x > RightWall

\* A player that touched the ball last does not lose it on its own side.
LastTouchSaves ==
    \A b \in Balls :
        /\ toucher = "left" => entities[b].x >= LeftWall
        /\ toucher = "right" => entities[b].x <= RightWall

(***************************************************************************)
(* The borders, while nobody but the two players was ever registered: the  *)
(* ball stays below the top one; at the bottom it is thrown out by a whole *)
(* height, and is never anywhere between (143-147).                        *)
(***************************************************************************)
BordersForTwo ==
    nbClients <= MaxPlayers =>
        \A b \in Balls :
            entities[b].y \in 0..Height \/ entities[b].y > 2 * Height - Drift

(***************************************************************************)
(* A rally ends: with a ball in play, a paddle touches it or some frame    *)
(* carries WIN.                                                            *)
(***************************************************************************)
RallyEnds == Balls # {} ~> won \/ Touching # {}
=============================================================================
