----------------------------- MODULE PongProofs ------------------------------
(***************************************************************************)
(* What holds of Pong for every field (the code's 1330 x 720 among them),  *)
(* any speeds, and any number of clients that come and go.                 *)
(***************************************************************************)
EXTENDS Pong, TLAPS

\* The counters and the kinds of the entities: two paddles, then the ball.
Numbers ==
    /\ idToSet = playerSpawned + currentBalls
    /\ currentBalls = 1 => playerSpawned = 2
    /\ playerSpawned <= nbClients
    /\ \A i \in DOMAIN entities :
          entities[i].type = IF i < 2 THEN "Player" ELSE "Ball"
    /\ \A i \in DOMAIN entities : i < 2 => entities[i].x = PaddleX(i)

(***************************************************************************)
(* The ball's way is that of its last touch, and a ball on its way to the  *)
(* right is not yet behind the left paddle's reach, nor the reverse.       *)
(***************************************************************************)
Turns ==
    /\ toucher = "left" => lastPlayerHit = 1
    /\ toucher = "right" => lastPlayerHit = 2
    /\ \A b \in Balls :
          /\ lastPlayerHit = 1 => entities[b].x >= LeftX - ReachX
          /\ lastPlayerHit = 2 => entities[b].x <= RightX + ReachX

PongInv == TypeOK /\ Numbers /\ Turns /\ GameOverIsOut /\ BordersForTwo

(***************************************************************************)
(* Which ids are paddles' and which the ball's, from the counters (89-116).*)
(***************************************************************************)
LEMMA WhoIsWho ==
    ASSUME TypeOK, Numbers
    PROVE  /\ Paddles = 0..(playerSpawned - 1)
           /\ Balls = IF currentBalls = 1 THEN {2} ELSE {}
<1>1. ASSUME NEW i \in DOMAIN entities
      PROVE  i \in 0..(idToSet - 1) /\ (i \in Paddles <=> i < 2) /\ (i \in Balls <=> i >= 2)
  BY DEF TypeOK, Numbers, Paddles, Balls
<1>2. playerSpawned \in 0..2 /\ currentBalls \in 0..1
  BY DEF TypeOK, MaxPlayers, MaxBalls
<1>3. CASE currentBalls = 1
  <2>1. idToSet = 3 /\ playerSpawned = 2 /\ DOMAIN entities = 0..2
    BY <1>3 DEF TypeOK, Numbers
  <2> QED BY <1>1, <1>3, <2>1 DEF Paddles, Balls
<1>4. CASE currentBalls = 0
  <2>1. DOMAIN entities = 0..(playerSpawned - 1)
    BY <1>2, <1>4 DEF TypeOK, Numbers
  <2> QED BY <1>1, <1>2, <1>4, <2>1 DEF Paddles, Balls
<1> QED BY <1>2, <1>3, <1>4

\* What the strengthening gives back: the slots, and who loses the ball.
LEMMA InvImplies ==
    ASSUME PongInv PROVE SlotsAreIds /\ LastTouchSaves
<1> USE PongAssumption
<1>1. SlotsAreIds
  <2>1. \A p \in Paddles : p < 2 /\ entities[p].x = PaddleX(p)
    BY WhoIsWho DEF PongInv, Numbers, Paddles, TypeOK, MaxPlayers
  <2> QED BY <2>1, WhoIsWho DEF PongInv, SlotsAreIds, Numbers
<1>2. LastTouchSaves
  <2> SUFFICES ASSUME NEW b \in Balls
               PROVE  /\ toucher = "left" => entities[b].x >= LeftWall
                      /\ toucher = "right" => entities[b].x <= RightWall
    BY DEF LastTouchSaves
  <2>1. entities[b].x \in Int
    BY DEF PongInv, TypeOK, Balls, EntityType
  <2> QED BY <2>1 DEF PongInv, Turns
<1> QED BY <1>1, <1>2

\* The game starts with nothing on the field.
LEMMA InitInv == ASSUME Init PROVE PongInv
<1>1. DOMAIN entities = {} /\ Balls = {} BY DEF Init, Empty, Balls
<1>2. TypeOK
  <2>1. /\ idToSet = 0 /\ clientCount = 0 /\ nbClients = 0 /\ call = "players"
        /\ playerSpawned = 0 /\ currentBalls = 0 /\ lastPlayerHit = 1
        /\ gameOver = FALSE /\ won = FALSE /\ toucher = "none"
    BY DEF Init
  <2>2. DOMAIN entities = 0..(idToSet - 1)
    BY <1>1, <2>1
  <2>3. gameOver \in BOOLEAN /\ won \in BOOLEAN
    BY <2>1
  <2>4. \A i \in DOMAIN entities : entities[i] \in EntityType
    BY <1>1
  <2>5. /\ idToSet \in Nat /\ clientCount \in Nat /\ nbClients \in Nat
        /\ clientCount <= nbClients /\ call \in Calls /\ playerSpawned \in 0..MaxPlayers
        /\ currentBalls \in 0..MaxBalls /\ lastPlayerHit \in {1, 2}
        /\ toucher \in {"none", "left", "right"}
    BY <2>1 DEF Calls, MaxPlayers, MaxBalls
  <2> QED BY <2>2, <2>3, <2>4, <2>5 DEF TypeOK
<1>3. Numbers BY <1>1 DEF Init, Numbers
<1> QED BY <1>1, <1>2, <1>3 DEF Init, PongInv, Turns, GameOverIsOut, BordersForTwo

------------------------------------------------------------------------------
(* One lemma per kind of step.                                             *)

\* Clients that come and go leave the game alone, and no id is taken back.
LEMMA ClientsInv == ASSUME PongInv, Join \/ Leave PROVE PongInv'
<1>1. /\ clientCount' \in Nat /\ nbClients' \in Nat
      /\ clientCount' <= nbClients' /\ nbClients <= nbClients'
      /\ UNCHANGED gameVars
  BY DEF PongInv, TypeOK, Join, Leave
<1> USE <1>1 DEF gameVars, worldVars, countVars, ballVars, historyVars
<1>2. Balls' = Balls BY DEF Balls
<1>3. TypeOK' BY DEF PongInv, TypeOK
<1>4. Numbers'
  <2>1. playerSpawned' <= nbClients'
    BY DEF PongInv, Numbers, TypeOK, MaxPlayers
  <2> QED BY <2>1 DEF PongInv, Numbers, PaddleX
<1>5. Turns' /\ GameOverIsOut' BY <1>2 DEF PongInv, Turns, GameOverIsOut
<1>6. BordersForTwo'
  <2>1. nbClients' <= 2 => nbClients <= 2 BY DEF PongInv, TypeOK
  <2> QED BY <1>2, <2>1 DEF PongInv, BordersForTwo, MaxPlayers
<1> QED BY <1>3, <1>4, <1>5, <1>6 DEF PongInv

\* Paddles are made before the ball only, for ids that were given.
LEMMA PlayersInv == ASSUME PongInv, InitializePlayers PROVE PongInv'
<1> USE DEF Call, ballVars, historyVars, sizeVars
<1>0. /\ call' = "actions" /\ clientCount' = clientCount /\ nbClients' = nbClients
      /\ currentBalls' = currentBalls /\ lastPlayerHit' = lastPlayerHit
      /\ gameOver' = gameOver /\ won' = won /\ toucher' = toucher
  BY DEF InitializePlayers
<1>1. CASE ~(playerSpawned < NumPlayers)
  <2>1. UNCHANGED <<entities, idToSet, playerSpawned>>
    BY <1>1 DEF InitializePlayers, worldVars
  <2>2. Balls' = Balls BY <2>1 DEF Balls
  <2>3. TypeOK' BY <1>0, <2>1 DEF PongInv, TypeOK, Calls
  <2>4. Numbers' BY <1>0, <2>1 DEF PongInv, Numbers, PaddleX
  <2> QED BY <1>0, <2>1, <2>2, <2>3, <2>4 DEF PongInv, Turns, GameOverIsOut, BordersForTwo
<1>2. CASE playerSpawned < NumPlayers
  <2>1. /\ NumPlayers \in 1..2 /\ NumPlayers <= nbClients /\ playerSpawned \in 0..1
        /\ currentBalls = 0 /\ idToSet = playerSpawned
        /\ DOMAIN entities = 0..(playerSpawned - 1)
    <3>1. NumPlayers \in 0..2 /\ NumPlayers <= nbClients
      BY DEF PongInv, TypeOK, NumPlayers, MaxPlayers
    <3>2. playerSpawned \in 0..2 /\ currentBalls \in 0..1
      BY DEF PongInv, TypeOK, MaxPlayers, MaxBalls
    <3>3. currentBalls = 0
      BY <1>2, <3>1, <3>2 DEF PongInv, Numbers
    <3> QED BY <1>2, <3>1, <3>2, <3>3 DEF PongInv, Numbers, TypeOK
  <2> DEFINE k == NumPlayers - playerSpawned
             new == [i \in NewIds(k) |->
                       Entity("Player", PaddleX(playerSpawned + i - idToSet), PlayerY)]
  <2>2. entities' = Emplace(entities, new) /\ idToSet' = idToSet + k /\ playerSpawned' = NumPlayers
    BY <1>2 DEF InitializePlayers, Spawn
  <2>3. DOMAIN new = playerSpawned..(NumPlayers - 1)
    BY <2>1 DEF NewIds
  <2>4. \A i \in DOMAIN new : new[i] = Entity("Player", PaddleX(i), PlayerY)
    <3> SUFFICES ASSUME NEW i \in DOMAIN new PROVE new[i] = Entity("Player", PaddleX(i), PlayerY)
      OBVIOUS
    <3>1. playerSpawned + i - idToSet = i BY <2>1, <2>3
    <3> QED BY <3>1
  <2> HIDE DEF new
  <2>5. DOMAIN entities' = 0..(NumPlayers - 1)
    BY <2>1, <2>2, <2>3 DEF Emplace
  <2>6. \A i \in DOMAIN entities' :
           entities'[i] = IF i \in DOMAIN entities THEN entities[i]
                          ELSE Entity("Player", PaddleX(i), PlayerY)
    BY <2>2, <2>4 DEF Emplace
  <2>7. \A i \in DOMAIN entities' :
           /\ entities'[i] \in EntityType /\ entities'[i].type = "Player"
           /\ entities'[i].x = PaddleX(i) /\ i < 2
    <3> SUFFICES ASSUME NEW i \in DOMAIN entities'
                 PROVE  /\ entities'[i] \in EntityType /\ entities'[i].type = "Player"
                        /\ entities'[i].x = PaddleX(i) /\ i < 2
      OBVIOUS
    <3>1. i \in 0..1 BY <2>1, <2>5
    <3>2. PaddleX(i) \in Int /\ PlayerY \in Int BY PongAssumption DEF PaddleX
    <3>3. CASE i \in DOMAIN entities
      BY <2>6, <3>1, <3>3 DEF PongInv, TypeOK, Numbers
    <3>4. CASE i \notin DOMAIN entities
      BY <2>6, <3>1, <3>2, <3>4 DEF Entity, EntityType
    <3> QED BY <3>3, <3>4
  <2>8. Balls = {} /\ Balls' = {}
    BY <2>1, <2>7, WhoIsWho DEF PongInv, Balls
  <2>9. TypeOK'
    <3>1. idToSet' = NumPlayers BY <2>1, <2>2
    <3> QED BY <1>0, <2>1, <2>2, <2>5, <2>7, <3>1 DEF PongInv, TypeOK, Calls, MaxPlayers
  <2>10. Numbers'
    <3>1. idToSet' = playerSpawned' + currentBalls' /\ currentBalls' = 0
      BY <1>0, <2>1, <2>2
    <3>2. playerSpawned' <= nbClients' BY <1>0, <2>1, <2>2
    <3> QED BY <1>0, <2>7, <3>1, <3>2 DEF Numbers, PaddleX
  <2> QED BY <1>0, <2>8, <2>9, <2>10 DEF PongInv, Turns, GameOverIsOut, BordersForTwo
<1> QED BY <1>1, <1>2

\* An input moves what has its client's id; that is the ball for the third.
LEMMA MoveInv == ASSUME PongInv, Move PROVE PongInv'
<1> USE DEF ballVars, countVars, historyVars, sizeVars
<1>1. PICK client \in 0..(nbClients - 1), dy \in {-MoveDistance, MoveDistance} :
         HandlePlayerMove(client, dy)
  BY DEF Move
<1>2. /\ client \in DOMAIN entities
      /\ entities' = [entities EXCEPT ![client].y = @ + dy]
      /\ clientCount' = clientCount /\ nbClients' = nbClients /\ call' = call
      /\ idToSet' = idToSet /\ playerSpawned' = playerSpawned
      /\ currentBalls' = currentBalls /\ lastPlayerHit' = lastPlayerHit
      /\ gameOver' = gameOver /\ won' = won /\ toucher' = toucher
  BY <1>1 DEF HandlePlayerMove
<1>3. DOMAIN entities' = DOMAIN entities
  BY <1>2
<1>4. \A i \in DOMAIN entities :
         /\ entities'[i] \in EntityType
         /\ entities'[i].type = entities[i].type /\ entities'[i].x = entities[i].x
         /\ i # client => entities'[i].y = entities[i].y
  <2> SUFFICES ASSUME NEW i \in DOMAIN entities
               PROVE  /\ entities'[i] \in EntityType
                      /\ entities'[i].type = entities[i].type
                      /\ entities'[i].x = entities[i].x
                      /\ i # client => entities'[i].y = entities[i].y
    OBVIOUS
  <2>1. entities[i] \in EntityType /\ dy \in Int
    BY PongAssumption DEF PongInv, TypeOK
  <2>2. CASE i = client
    <3>1. entities'[i] = [entities[i] EXCEPT !.y = @ + dy]
      BY <1>2, <2>2
    <3> QED BY <2>1, <2>2, <3>1 DEF EntityType
  <2>3. CASE i # client
    <3>1. entities'[i] = entities[i] BY <1>2, <2>3
    <3> QED BY <2>1, <3>1
  <2> QED BY <2>2, <2>3
<1>5. Balls' = Balls BY <1>3, <1>4 DEF Balls
<1>6. TypeOK' BY <1>2, <1>3, <1>4 DEF PongInv, TypeOK
<1>7. Numbers' BY <1>2, <1>3, <1>4 DEF PongInv, Numbers, PaddleX
<1>8. Turns' /\ GameOverIsOut'
  <2>1. \A b \in Balls : b \in DOMAIN entities BY DEF Balls
  <2> QED BY <1>2, <1>4, <1>5, <2>1 DEF PongInv, Turns, GameOverIsOut
<1>9. BordersForTwo'
  <2> SUFFICES ASSUME nbClients <= 2, NEW b \in Balls
               PROVE  entities'[b].y \in 0..Height \/ entities'[b].y > 2 * Height - Drift
    BY <1>2, <1>5 DEF BordersForTwo, MaxPlayers
  <2>1. b = 2 /\ b \in DOMAIN entities BY WhoIsWho DEF PongInv, Balls
  <2>2. client # b BY <2>1 DEF PongInv, TypeOK
  <2> QED BY <1>4, <2>1, <2>2 DEF PongInv, BordersForTwo, MaxPlayers
<1> QED BY <1>6, <1>7, <1>8, <1>9 DEF PongInv

\* The ball comes third, between what the two paddles reach.
LEMMA BallInv == ASSUME PongInv, SpawnBall PROVE PongInv'
<1>0. /\ call' = "collisions" /\ clientCount' = clientCount /\ nbClients' = nbClients
      /\ playerSpawned' = playerSpawned /\ lastPlayerHit' = lastPlayerHit
      /\ gameOver' = gameOver /\ won' = won /\ toucher' = toucher
  BY DEF SpawnBall, Call, sizeVars, ballVars, historyVars
<1>1. CASE ~BallDue
  <2>1. entities' = entities /\ idToSet' = idToSet /\ currentBalls' = currentBalls
    BY <1>1 DEF SpawnBall, worldVars
  <2>2. Balls' = Balls BY <2>1 DEF Balls
  <2>3. TypeOK' BY <1>0, <2>1 DEF PongInv, TypeOK, Calls
  <2>4. Numbers' BY <1>0, <2>1 DEF PongInv, Numbers, PaddleX
  <2> QED BY <1>0, <2>1, <2>2, <2>3, <2>4 DEF PongInv, Turns, GameOverIsOut, BordersForTwo
<1>2. CASE BallDue
  <2> DEFINE new == [i \in NewIds(MaxBalls) |-> Entity("Ball", BallX, BallY)]
  <2>1. currentBalls = 0 /\ playerSpawned = 2 /\ idToSet = 2 /\ DOMAIN entities = 0..1
    BY <1>2 DEF PongInv, TypeOK, Numbers, BallDue, MaxBalls, MaxPlayers
  <2>2. entities' = Emplace(entities, new) /\ idToSet' = 3 /\ currentBalls' = 1
    BY <1>2, <2>1 DEF SpawnBall, Spawn, MaxBalls
  <2>3. DOMAIN new = {2} /\ new[2] = Entity("Ball", BallX, BallY)
    BY <2>1 DEF NewIds, MaxBalls
  <2> HIDE DEF new
  <2>4. /\ DOMAIN entities' = 0..2 /\ entities'[2] = Entity("Ball", BallX, BallY)
        /\ \A i \in 0..1 : entities'[i] = entities[i]
    BY <2>1, <2>2, <2>3 DEF Emplace
  <2>5. \A i \in 0..1 : /\ entities[i] \in EntityType /\ entities[i].type = "Player"
                        /\ entities[i].x = PaddleX(i)
    BY <2>1 DEF PongInv, TypeOK, Numbers
  <2>6. /\ entities'[2] \in EntityType /\ entities'[2].type = "Ball"
        /\ entities'[2].x = BallX /\ entities'[2].y = BallY
    BY <2>4, PongAssumption DEF Entity, EntityType
  <2>7. Balls = {} BY <2>1, WhoIsWho DEF PongInv
  <2>8. Balls' = {2} BY <2>4, <2>5, <2>6 DEF Balls
  <2>9. TypeOK'
    <3>1. \A i \in DOMAIN entities' : entities'[i] \in EntityType
      BY <2>4, <2>5, <2>6
    <3> QED BY <1>0, <2>2, <2>4, <3>1 DEF PongInv, TypeOK, Calls, MaxBalls
  <2>10. Numbers'
    <3>1. \A i \in DOMAIN entities' :
             /\ entities'[i].type = IF i < 2 THEN "Player" ELSE "Ball"
             /\ i < 2 => entities'[i].x = PaddleX(i)
      BY <2>4, <2>5, <2>6
    <3> QED BY <1>0, <2>1, <2>2, <3>1 DEF PongInv, Numbers, PaddleX
  <2>11. Turns' /\ GameOverIsOut' /\ BordersForTwo'
    <3>1. /\ BallX >= LeftX - ReachX /\ BallX <= RightX + ReachX
          /\ ~(BallX < LeftWall) /\ ~(BallX > RightWall) /\ BallY \in 0..Height
      BY PongAssumption
    <3>2. gameOver' = FALSE
      BY <1>0, <2>7 DEF PongInv, GameOverIsOut, TypeOK
    <3>3. Turns'
      BY <1>0, <2>6, <2>8, <3>1 DEF PongInv, Turns
    <3>4. GameOverIsOut'
      BY <2>6, <2>8, <3>1, <3>2 DEF GameOverIsOut
    <3>5. BordersForTwo'
      BY <2>6, <2>8, <3>1 DEF BordersForTwo
    <3> QED BY <3>3, <3>4, <3>5
  <2> QED BY <2>9, <2>10, <2>11 DEF PongInv
<1> QED BY <1>1, <1>2

\* A touch turns the ball before the paddle that touched it.
LEMMA CollisionsInv == ASSUME PongInv, CheckCollisions PROVE PongInv'
<1>0. /\ call' = "move" /\ clientCount' = clientCount /\ nbClients' = nbClients
      /\ entities' = entities /\ idToSet' = idToSet /\ playerSpawned' = playerSpawned
      /\ currentBalls' = currentBalls /\ gameOver' = gameOver /\ won' = won
  BY DEF CheckCollisions, Call, sizeVars, worldVars, countVars
<1>1. Balls' = Balls BY <1>0 DEF Balls
<1>2. Numbers' BY <1>0 DEF PongInv, Numbers, PaddleX
<1>3. GameOverIsOut' /\ BordersForTwo'
  BY <1>0, <1>1 DEF PongInv, GameOverIsOut, BordersForTwo
<1>4. CASE Touching = {}
  <2>1. lastPlayerHit' = lastPlayerHit /\ toucher' = toucher
    BY <1>4 DEF CheckCollisions
  <2>2. TypeOK' BY <1>0, <2>1 DEF PongInv, TypeOK, Calls
  <2>3. Turns' BY <1>0, <1>1, <2>1 DEF PongInv, Turns
  <2> QED BY <1>2, <1>3, <2>2, <2>3 DEF PongInv
<1>5. CASE Touching # {}
  <2>1. PICK p \in Touching :
           /\ lastPlayerHit' = HitBy(p)
           /\ toucher' = IF entities[p].x = LeftX THEN "left" ELSE "right"
    BY <1>5 DEF CheckCollisions
  <2>2. Balls = {2} /\ 2 \in DOMAIN entities
        /\ p \in DOMAIN entities /\ p \in 0..1 /\ entities[p].x = PaddleX(p)
    <3>1. Balls # {} /\ p \in Paddles /\ p \in DOMAIN entities
      BY <2>1 DEF Touching, Paddles
    <3>2. Balls = {2} /\ p \in 0..1
      BY <3>1, WhoIsWho DEF PongInv, TypeOK, MaxPlayers
    <3> QED BY <3>1, <3>2 DEF PongInv, Numbers, Balls
  <2>3. Distance(entities[p].x, entities[2].x) < ReachX
    BY <2>1, <2>2 DEF Touching, Touches
  <2>4. entities[2].x \in Int /\ LeftX \in Int /\ RightX \in Int /\ ReachX \in Nat /\ LeftX <= RightX
    <3>1. entities[2].x \in Int
      BY <2>2 DEF PongInv, TypeOK, EntityType
    <3> QED BY <3>1, PongAssumption
  <2>5. CASE p = 0
    <3>1. lastPlayerHit' = 1 /\ toucher' = "left" /\ entities[p].x = LeftX
      BY <2>1, <2>2, <2>5 DEF HitBy, PaddleX
    <3>2. entities[2].x >= LeftX - ReachX
      BY <2>3, <2>4, <3>1 DEF Distance
    <3>3. TypeOK' BY <1>0, <3>1 DEF PongInv, TypeOK, Calls
    <3>4. Turns' BY <1>0, <1>1, <2>2, <3>1, <3>2 DEF Turns
    <3> QED BY <1>2, <1>3, <3>3, <3>4 DEF PongInv
  <2>6. CASE p = 1
    <3>1. lastPlayerHit' = 2 /\ toucher' \in {"left", "right"} /\ entities[p].x = RightX
      BY <2>1, <2>2, <2>6 DEF HitBy, PaddleX
    <3>2. entities[2].x <= RightX + ReachX
      BY <2>3, <2>4, <3>1 DEF Distance
    <3>3. toucher' = "right"
      <4>1. LeftX # RightX
        BY <2>3, <2>4, <3>1, PongAssumption DEF Distance
      <4> QED BY <2>1, <3>1, <4>1
    <3>4. TypeOK' BY <1>0, <3>1, <3>3 DEF PongInv, TypeOK, Calls
    <3>5. Turns' BY <1>0, <1>1, <2>2, <3>1, <3>2, <3>3 DEF Turns
    <3> QED BY <1>2, <1>3, <3>4, <3>5 DEF PongInv
  <2> QED BY <2>2, <2>5, <2>6
<1> QED BY <1>4, <1>5

(***************************************************************************)
(* A ball that is out goes on outwards, so that gameOver stays true of it; *)
(* one that the bottom border threw out is thrown on (130-155).            *)
(***************************************************************************)
LEMMA MoveBallInv == ASSUME PongInv, MoveBall PROVE PongInv'
<1>0. /\ call' = "end" /\ clientCount' = clientCount /\ nbClients' = nbClients
      /\ idToSet' = idToSet /\ playerSpawned' = playerSpawned
      /\ currentBalls' = currentBalls /\ lastPlayerHit' = lastPlayerHit
      /\ won' = won /\ toucher' = toucher
  BY DEF MoveBall, Call, sizeVars, countVars, historyVars
<1>1. PICK dy \in (-Drift)..Drift :
         entities' = [i \in DOMAIN entities |->
                        IF i \in Balls
                        THEN Entity("Ball", entities[i].x + SpeedX,
                                    entities[i].y + Clip(entities[i].y, dy))
                        ELSE entities[i]]
  BY DEF MoveBall
<1>2. DOMAIN entities' = DOMAIN entities
  BY <1>1
<1>3. SpeedX \in Int /\ dy \in Int /\ Height \in Int /\ Drift \in Int
  BY PongAssumption DEF SpeedX
<1>4. ASSUME NEW b \in Balls
      PROVE  /\ b = 2 /\ b \in DOMAIN entities
             /\ entities[b].x \in Int /\ entities[b].y \in Int
             /\ entities'[b] \in EntityType /\ entities'[b].type = "Ball"
             /\ entities'[b].x = entities[b].x + SpeedX
             /\ entities'[b].y = entities[b].y + Clip(entities[b].y, dy)
  <2>1. b = 2 /\ b \in DOMAIN entities
    BY WhoIsWho DEF PongInv, Balls
  <2>2. entities[b].x \in Int /\ entities[b].y \in Int
    BY <2>1 DEF PongInv, TypeOK, EntityType
  <2>3. Clip(entities[b].y, dy) \in Int
    BY <1>3 DEF Clip
  <2>4. entities'[b] = Entity("Ball", entities[b].x + SpeedX,
                              entities[b].y + Clip(entities[b].y, dy))
    BY <1>1, <2>1
  <2>5. entities[b].x + SpeedX \in Int /\ entities[b].y + Clip(entities[b].y, dy) \in Int
    BY <1>3, <2>2, <2>3
  <2> QED BY <2>1, <2>2, <2>4, <2>5 DEF Entity, EntityType
<1>5. ASSUME NEW i \in DOMAIN entities, i \notin Balls
      PROVE  entities'[i] = entities[i]
  BY <1>1, <1>5
<1>6. \A i \in DOMAIN entities : entities'[i].type = entities[i].type
  BY <1>4, <1>5 DEF Balls
<1>7. Balls' = Balls
  BY <1>2, <1>6 DEF Balls
<1>8. TypeOK'
  <2>1. \A i \in DOMAIN entities' : entities'[i] \in EntityType
    BY <1>2, <1>4, <1>5 DEF PongInv, TypeOK
  <2>2. gameOver' \in BOOLEAN
    BY DEF MoveBall
  <2> QED BY <1>0, <1>2, <2>1, <2>2 DEF PongInv, TypeOK, Calls
<1>9. Numbers'
  <2>1. \A i \in DOMAIN entities : i < 2 => entities'[i] = entities[i]
    BY <1>4, <1>5
  <2> QED BY <1>0, <1>2, <1>6, <2>1 DEF PongInv, Numbers, PaddleX
<1>10. Turns'
  <2> SUFFICES ASSUME NEW b \in Balls
               PROVE  /\ lastPlayerHit = 1 => entities'[b].x >= LeftX - ReachX
                      /\ lastPlayerHit = 2 => entities'[b].x <= RightX + ReachX
    BY <1>0, <1>7 DEF PongInv, Turns
  <2> QED BY <1>4, PongAssumption DEF PongInv, Turns, SpeedX
<1>11. GameOverIsOut'
  <2>1. gameOver' = (gameOver \/ \E b \in Balls : Ends(entities[b].x + SpeedX))
    BY DEF MoveBall
  <2>2. ASSUME NEW b \in Balls
        PROVE  /\ Ends(entities[b].x + SpeedX)
                    <=> entities'[b].x < LeftWall \/ entities'[b].x > RightWall
               /\ entities[b].x < LeftWall => entities'[b].x < LeftWall
               /\ entities[b].x > RightWall => entities'[b].x > RightWall
    <3>1. Ends(entities[b].x + SpeedX)
            <=> entities'[b].x < LeftWall \/ entities'[b].x > RightWall
      BY <1>4 DEF Ends
    <3>2. lastPlayerHit \in {1, 2}
      BY DEF PongInv, TypeOK
    <3>3. CASE lastPlayerHit = 1
      BY <1>4, <3>1, <3>3, PongAssumption DEF PongInv, Turns, SpeedX
    <3>4. CASE lastPlayerHit = 2
      BY <1>4, <3>1, <3>4, PongAssumption DEF PongInv, Turns, SpeedX
    <3> QED BY <3>2, <3>3, <3>4
  <2>3. gameOver => \E b \in Balls : entities'[b].x < LeftWall \/ entities'[b].x > RightWall
    BY <2>2 DEF PongInv, GameOverIsOut
  <2> QED BY <1>7, <2>1, <2>2, <2>3 DEF GameOverIsOut
<1>12. BordersForTwo'
  <2> SUFFICES ASSUME nbClients <= MaxPlayers, NEW b \in Balls
               PROVE  entities'[b].y \in 0..Height \/ entities'[b].y > 2 * Height - Drift
    BY <1>0, <1>7 DEF BordersForTwo
  <2>1. entities[b].y \in 0..Height \/ entities[b].y > 2 * Height - Drift
    BY DEF PongInv, BordersForTwo
  <2> QED BY <1>3, <1>4, <2>1, PongAssumption DEF Clip
<1> QED BY <1>8, <1>9, <1>10, <1>11, <1>12 DEF PongInv

\* The rest of a frame does not touch the field.
LEMMA FrameInv == ASSUME PongInv, ActionsDone \/ EndFrame PROVE PongInv'
<1>0. /\ call' \in Calls /\ clientCount' = clientCount /\ nbClients' = nbClients
      /\ entities' = entities /\ idToSet' = idToSet /\ playerSpawned' = playerSpawned
      /\ currentBalls' = currentBalls /\ lastPlayerHit' = lastPlayerHit
      /\ gameOver' = gameOver /\ toucher' = toucher /\ won' \in BOOLEAN
  BY DEF PongInv, TypeOK, ActionsDone, EndFrame, Call, Calls, sizeVars, worldVars, countVars,
         ballVars, historyVars
<1>1. Balls' = Balls BY <1>0 DEF Balls
<1>2. TypeOK' BY <1>0 DEF PongInv, TypeOK
<1>3. Numbers' BY <1>0 DEF PongInv, Numbers, PaddleX
<1> QED BY <1>0, <1>1, <1>2, <1>3 DEF PongInv, Turns, GameOverIsOut, BordersForTwo

\* The game that does nothing keeps everything.
LEMMA StutterInv == ASSUME PongInv, UNCHANGED vars PROVE PongInv'
<1>0. /\ call' = call /\ clientCount' = clientCount /\ nbClients' = nbClients
      /\ entities' = entities /\ idToSet' = idToSet /\ playerSpawned' = playerSpawned
      /\ currentBalls' = currentBalls /\ lastPlayerHit' = lastPlayerHit
      /\ gameOver' = gameOver /\ toucher' = toucher /\ won' = won
  BY DEF vars, gameVars, sizeVars, worldVars, countVars, ballVars, historyVars
<1>1. Balls' = Balls BY <1>0 DEF Balls
<1>2. TypeOK' BY <1>0 DEF PongInv, TypeOK
<1>3. Numbers' BY <1>0 DEF PongInv, Numbers, PaddleX
<1> QED BY <1>0, <1>1, <1>2, <1>3 DEF PongInv, Turns, GameOverIsOut, BordersForTwo

------------------------------------------------------------------------------
(* The theorems.                                                           *)

LEMMA PongInvariant == Spec => []PongInv
<1>1. Init => PongInv BY InitInv
<1>2. PongInv /\ [Next]_vars => PongInv'
  BY PlayersInv, BallInv, CollisionsInv, MoveBallInv, FrameInv, MoveInv, ClientsInv, StutterInv
     DEF Next, Update
<1> QED BY <1>1, <1>2, PTL DEF Spec

\* Types of all the variables, for any field.
THEOREM PongTypes == Spec => []TypeOK
<1>1. PongInv => TypeOK BY DEF PongInv
<1> QED BY <1>1, PongInvariant, PTL

(***************************************************************************)
(* However clients come and go, entity 0 is the left paddle, 1 the right   *)
(* one and 2 the ball (Pong.cpp:171, 238), and no paddle is made for an id *)
(* that was not given.                                                     *)
(***************************************************************************)
THEOREM PongSlots == Spec => []SlotsAreIds
<1>1. PongInv => SlotsAreIds BY InvImplies
<1> QED BY <1>1, PongInvariant, PTL

\* gameOver is true exactly while the ball is outside, for any speeds (149-150).
THEOREM PongOver == Spec => []GameOverIsOut
<1>1. PongInv => GameOverIsOut BY DEF PongInv
<1> QED BY <1>1, PongInvariant, PTL

\* Nobody loses the ball on its own side after the last touch (133, 171).
THEOREM PongLastTouch == Spec => []LastTouchSaves
<1>1. PongInv => LastTouchSaves BY InvImplies
<1> QED BY <1>1, PongInvariant, PTL

\* What the borders do to the ball when no third client ever came (143-147).
THEOREM PongBorders == Spec => []BordersForTwo
<1>1. PongInv => BordersForTwo BY DEF PongInv
<1> QED BY <1>1, PongInvariant, PTL
=============================================================================
