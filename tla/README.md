# R-Type-Catch-up: a TLA+ model

R-Type-Catch-up is a networked shoot-them-up: a server plays the game, and
clients on UDP send inputs and draw what the server's frames tell
them. This directory models the server's register and sessions, the vector of
player inputs, both games, the way of a frame from the game thread to a client's
sprites, and the client's view of frames; TLC checks the models on small instances and TLAPS proves their
main invariants for every value of the constants.

Every definition is translated from the C++ code; `PROJECT.json` says which
lines each one stands for. Line numbers in comments are of the file the module
(or the comment) names.

## 1. Inventory

| Component | Code | State | Operations |
|---|---|---|---|
| Register of clients | `Server.cpp:124-178` | `clients_`, `_nbClients`, `available_ids_` | `createClient`, `disconnectData` |
| Server's io thread | `Server.cpp:67-109, 292-311` | `recv_buffer_`, `remote_endpoint_`, `send_queue_` | `start_receive`, `handle_receive`, `handle_send_timer` |
| PacketHandler thread | `PacketHandler.cpp`, `ThreadSafeQueue.hpp` | `m_packetQueue`, the packet handled | one handler per packet type |
| R-Type game | `GameState.cpp` | `entities`, slots of the players, waves, bullets | `update`, one call after the other; `run` stores the frame |
| Server thread | `Server.cpp:185-291` | `lastClientCount`, `lastKnownPositions`, `unacknowledgedPackets` | `run`: snapshot, positions, broadcast |
| Client, io thread | `Client.cpp:57-294` | `frameMap`, `last_received_frame_id`, `gameStatePacket` | `parseFramePacket`, `parseGameStatePacket` |
| Client, main thread | `Client.cpp:84-150, 355-530` | `currentFrameIndex`, `sprites_` | `main_loop`, `processEvents`, `UpdateGameStateLayers` |
| Player actions | `GameState.cpp:47-74`, `Pong.cpp:48-72` | `playerActions` | `addPlayerAction`, `processPlayerActions`, `deletePlayerAction` |
| Pong | `Pong.cpp` | paddles, ball, `lastPlayerHit`, `gameOver` | a second game behind `AGame`: `update`, `run` |
| ECS | `ECS/` | registry, sparse arrays | `spawn_entity`, `kill_entity`; its systems are added to no registry |
| DataPacking, errors, `main.cpp` | | none | gzip, exceptions, start-up |

How they interact:

```
 client main thread --send--> UDP --> server io thread --m_packetQueue--> PacketHandler
        ^                                 ^    |  remote_endpoint_ ........^   |  |
        | frameMap, gameStatePacket       |    +--------------------- clients_ |  | addPlayerAction
 client io thread <-- UDP <-- send_queue_ +<-- server thread <--engineFrames-- game thread(s)
```

What is hard:

* **Five threads, several mutexes.** `remote_endpoint_` is written by the io
  thread and read by the handler without a lock or a copy in the packet; the
  number of clients is read twice without `clients_mutex_` by the server
  thread and once by the game; the client's two threads share
  `gameStatePacket` with no lock and `frameMap` and `last_received_frame_id`
  under two different ones.
* **UDP.** Datagrams are lost, doubled and reordered; clients crash without a
  word and restart on the same port.
* **Order.** A frame is made, completed with a snapshot and with the positions
  that changed, queued and sent by three threads; newcomers may come between
  any two of these. Every GAME_START starts one more thread on the same game.
* **Counts for identities.** Players are created and removed, and newcomers
  noticed, by comparing sizes of maps; Pong takes a client's id for an entity's.
* **A vector under a walk.** The game thread walks `playerActions` without its
  mutex; an `emplace_back` of the handler thread may move the elements away.

What makes each component correct: ids partition and no client has two
(register); a request is served for its sender, and nobody stays in the lobby
of a running game (sessions); no input is lost or left waiting, and each stays with
the client it was found for (player actions); the ball's way is that of its last touch, and WIN is
the truth (Pong); every player has one owner and the frames tell
everything (game); frames go out once and in order, and what a client shows is
what the server said (feed); the sprites are a replay of the frames shown
(client). `PROJECT.json` lists the hazards line by line with the properties
that watch them.

## 2. Modules

| Module | Models | Composes |
|---|---|---|
| `ClientIds` | the register | |
| `SessionTable` | abstract: numbered seats, each held by one endpoint | implemented by `ClientIds`, `Sessions` and `PlayerActions` |
| `AnyGame` | abstract: frames whose CREATE_ packets carry new ids and whose DELETE packets name entities that are there | implemented by `Match` |
| `Playback` | abstract: the first frame there is, then each following one | implemented by `ClientView` |
| `Sessions` | io thread, packet queue, handler thread, clients, network | extends `ClientIds` |
| `PlayerActions` | the vector of inputs, the handler thread that appends, the game thread that walks it | extends `ClientIds` |
| `Match` | the R-Type game, against clients that come and go | extends `ClientIds` |
| `Pong` | the second game, against the register's two sizes | |
| `FrameFeed` | game threads' frames, `Server::run`, the send timer, ideal clients | |
| `FeedLog` | the feed, with a record of the frames that went out | extends `FrameFeed` |
| `ClientView` | a real client on a bad network | |
| `StdMap` | `std::map`: emplace, operator[], erase | |
| `ClientIdsProofs`, `SessionsProofs`, `PlayerActionsProofs`, `MatchProofs`, `PongProofs`, `FrameFeedProofs`, `FeedLogProofs`, `ClientViewProofs` | the theorems | |
| `MC*` | instances for TLC | |

**ClientIds.** `CreateClient` and `RemoveClient` are one critical section of
`clients_mutex_` each. `ImplementsTable` is the refinement: `owner <- clients`,
`capacity <- nbClients`; the FIFO order of the ids given back is what the table
leaves open.

**Sessions.** A packet in the queue does not carry its sender. The model keeps
in a field `from` who sent it, which no guard reads; the handler reads
`remoteEndpoint` as the code does. A handler's steps are split where another
thread can come in: `ReqConnect` (copy of the endpoint), `Create` (first
critical section), `Reply` (second one); the scan of `handlePlayerAction` holds
`clients_mutex_` but compares with a reference to `remote_endpoint_`, so each
comparison is a step (`ScanStep`). Lost datagrams are those never received.
Abstractions: comparing or copying an endpoint is atomic; the life of the
buffer of `async_send_to` is left out; the five packets that share
`handlePlayerAction` are one; packets whose handlers only log are one; frames
and latency checks, which share `send_queue_`, are left out, being no status.

**PlayerActions.** An element is known by the number it was added under; the
vector is sorted by these numbers, so it is a function from them. The handler
finds a client and appends (`Add`); the same thread changes the register, so
nothing comes between the two. It looks for the owner of `remote_endpoint_`,
which the io thread may overwrite before and between the comparisons (the scan
of `Sessions`): `Add` takes any registered client as found, and when nobody is
found nothing is added. The game thread reads `begin()`, then `end()`,
then visits (`ReadBegin`, `ReadEnd`, `Visit`), and erases under the mutex
(`DeletePlayerAction`). `Reallocate` moves the block when it is full: a walk
that had begun goes on in freed memory (`stale`), where each old element may
still be read, or not, and the marks are lost. If the move falls between
`begin()` and `end()` the range has no end, and the model stops (`wild`).
`Handled` is what the game has a branch for: everything in GameState, no shots
in Pong. `from` (the endpoint of the client found), `times`, `walks`, `moves` and `orphans` are history, read by
properties only. Game threads take turns under `server_mutex`, so one is enough.

**Match.** One action per call of `update`, in the code's order (`phase`).
Positions are left out: any bullet may hit, or miss and leave the screen. Kills
and spawns come with the packets they put into the frame; `EndFrame` is the
frame handed over, and `shown` the replay of all frames. The clients come and
go between any two calls. `ImplementsAnyGame` maps `alive` to what `shown`
holds, `next` to `idToSet`, and `created` and `deleted` to the packets of the
unfinished frame: a call that spawns is a `Create`, one that kills a `Delete`,
`EndFrame` a `Frame`, and a `Delete` may name only what an earlier frame left
or this one created.

**Pong.** One action per call of `update`, as in Match, with coordinates: the
properties are about where the ball is. Inputs are `Move` steps, as many as the
vector holds, before `ActionsDone`; their x never changes. Of the register only
its two sizes matter: `Join` and `Leave` are what `createClient` and
`disconnectData` do to them. Constants are in any integer unit (in thousandths
of a pixel all of the code's numbers are integers); rounding of floats is left
out, and so are the packets, but for WIN.

**FrameFeed.** The game is any game: a frame creates, kills and moves any
entities. `PollCompare`, `PollCount` and `PollSend` are the points of
`Server::run` between which clients come and go; `server_mutex` keeps frames
out of a poll. `Store` is `emplace`: a number that another thread has used
keeps the old frame. The clients are ideal: each one applies every message
sent to it, at once, with `createSprite`, `destroySprite` and
`updateSpritePosition` in `main_loop`'s order. Old frames' contents are never
read again and are dropped. Latency checks, the GAME_START broadcast and
`resendImportPackets` (whose map stays empty, see section 5) are left out.
`left` and `lost` are history variables that only properties read.

**FeedLog.** `log` is a history variable: for each frame that went out, the ids
of the entities born in it, of all its CREATE_ packets (`made`: its own and
those of the snapshot for newcomers) and of its DELETE packets. `LogNext` is `Next` and what is written into `log`, which no guard reads.

**ClientView.** `life` fixes which frames create each entity and which deletes
it: the one it is born in and any later ones, because every client is sent the
snapshots that newcomers are given (`Server.cpp:231-234`), up to the one that
deletes it. A client that comes late, or that went back to the lobby, draws
entities from such a frame. A frame may also bring the background
(`Brought`, `GameState.cpp:292`). Then any frame and any state packet may arrive at any moment, so loss,
duplication, reordering and delay are all there. `parseFramePacket` is two
steps (it sets `last_received_frame_id` first), `UpdateGameStateLayers` three
(two reads and a write of `gameStatePacket`). Undefined behaviour ends the
model (`noFirst`: `begin()` of an empty map; `noFrame`: `end()`
dereferenced). The packets of a frame may be in any order (`SetToSeqs`);
positions, the WIN text, sounds, texts and drawing are left out.
`ImplementsPlayback` maps `arrived` to `frameMap`, `index` to
`currentFrameIndex` and `visible` to the ids of `sprites_` that are entities:
the lobby's background and button, which share the vector, do not show.

**How the modules fit together.** The theorems make a chain from the game to
the screen. `Match` implements `AnyGame`. `FrameFeed` does not contain a game:
its `GameFrame` makes, in one step, any frame that `AnyGame`'s `Create`s,
`Delete`s and `Frame` can make (new ids are the next ones; what is deleted is
there or new), so it covers every game that implements `AnyGame`; that last
step is by reading the two definitions side by side, since it speaks of which
steps are possible (ENABLED). `LogLives` says that what such a feed sends out,
snapshots included and whatever its threads, gives each entity a life of the
shape that `ClientView` assumes of `life`. And `ClientView` implements
`Playback` of those lives. The frames `LogLives` speaks of are numbered by the
feed; `ClientView` lets any of them be lost.

## 3. Runs

| Run | Checks | Bounds and why they are enough |
|---|---|---|
| `sessions` | types; `NewestPacketSender`, `SenderServed`: what `remote_endpoint_` can be trusted for; `NobodyLeftInLobby`, `NeverBackToLobby`; `StartReachesEveryone` | two clients, four datagrams: a REQCONNECT and a GAME_START of each, or connect, leave and connect again against the other's packets. `MaxDuplicates` is 0, so that liveness fits; a doubled datagram is like a second one, and the proofs have no bound |
| `match` | types, `PlayersOwned`, `FramesTellAll`, `WinIsFinal`, `BossAfterWaves`, `ImplementsAnyGame` | two clients, one wave of one enemy, one boss of one life, one enemy bullet, five entities: the fight to WIN with a player and two bullets, or two players and one. Bosses with more lives, larger waves and limits are the theorems' |
| `actions` | types, `IdPartition`, `ImplementsTable`: the register; `NothingLost`, `RepeatsBounded`, `InOrder`, `NoLeftovers`, `EveryActionExecuted`: the vector; `ClientKept`: both | two clients that come and go without a bound, three inputs of two kinds, one of which the game has no branch for: the block grows from none to one, two and four elements, with walks in between |
| `pong` | types, `SlotsAreIds`, `GameOverIsOut`, `LastTouchSaves`, `BordersForTwo`, `RallyEnds` | three clients for two paddles; a field of four columns between the walls and three rows, in which all of it happens within a few frames |
| `feed` | types, `PositionsAgree`, `NoGhostSprites`, `NewcomersCatchUp`, `BroadcastInOrder`; `OneLife` of the log | two threads, three frames in all, two entities, two clients, two positions: one frame overtakes or drops another while a second client comes in the middle of a poll |
| `feed_fair` | `FramesGoOut` | one thread, two frames, one entity; no symmetry |
| `view` | types, `OneSpritePerId`, `SpritesAreReplay`, `FirstFrameWindow`, `KeepsUp`, `ImplementsPlayback` | three frames, an entity and the background that comes with a player, in every life: born, shown again by a snapshot, deleted, with a frame before and between |
| `sessions_reply_misdirected`, `match_no_player`, `feed_out_of_sync`, `feed_retransmission`, `view_lost_frame` | one property each, which the code violates | section 5 |

Deadlock is not checked in `sessions` (the clients stop after `MaxDatagrams`
datagrams), in `view` (the client closes, or reaches undefined behaviour) nor
in `actions` (the walk may be undefined behaviour); everywhere else it is.

The bounds, all of them named constants: `MaxDatagrams`, `MaxDuplicates`
(Sessions); `MaxAdded` (PlayerActions); `MaxEntities` (Match: no bullet is
fired beyond that id); `MaxClients`, `MaxY` (how far inputs move) and
`MaxBeyond` (how far outside a ball is followed) (Pong);
`MaxThreads`, `MaxFrames`, `MaxEntities` (FrameFeed); `MaxFrames` (ClientView).

**Fairness.** Sessions: weak fairness of `HandleReceive`, `HandleSendTimer` and
`HandlerStep` - the io_context runs ready handlers and its timer is re-armed
each time, and the handler thread loops for ever. Match: `WF(Update)`, the game
thread polls its clock for ever. PlayerActions and Pong: the same, `WF` of the
walk's steps and of `Update`; an input that comes is not assumed, and any
number of them may come before the walk ends. FrameFeed: `WF` of `Poll`, `Warm` (the 600 ms
pass) and `HandleSendTimer`. ClientView: `WF` of `EmplaceFrame` and `Loop`, and
strong fairness of showing a frame that is there, because the test of 10 ms is
false on most turns but true again and again. Nothing is assumed of the
network, of the clients, or of the player.

No run lists `OneIdPerEndpoint` (two seats of one endpoint break
`ImplementsTable` in the same run), Match's `SlotsAreIds` and
`PlayersForAllWhoStay`, and `OneGameDropsNothing`: they are theorems of
section 4. TLC confirms each of them on the instance of the run of its module,
when its cfg lists it (`PlayersForAllWhoStay` with `SPECIFICATION StaySpec`;
under `Spec` it is violated, as it should be).

Conditions that properties carry, and why:

* `NewestPacketSender`, `SenderServed`: only while nothing newer was received.
  That is the whole of what the design guarantees; section 5 has the rest.
* `NoGhostSprites`, `NewcomersCatchUp`: `~lost`, no CREATE_ or DELETE was
  overtaken by a newer frame before the poll (`Server.cpp:226` reads only the
  newest) or dropped because another thread had used its number
  (`GameState.cpp:372`). Both happen in the model, and then sprites are
  missing or stay.
* `NewcomersCatchUp`: `~left`, because of `feed_out_of_sync`; and `InSync`
  speaks of `SnapshotKinds`, because the snapshot has no packet for enemy
  bullets (`Server.cpp:186`) nor for Pong's ball.
* `InOrder`: no walk that the vector moved under; `RepeatsBounded` and
  `NoLeftovers` say what such walks cost, `EveryActionExecuted` excepts `wild`.
* `ClientKept`: not of those whose client left since (`orphans`); until the next
  walk such an input may act for the next holder of the id.
* `PlayersForAllWhoStay`: `StaySpec`, in which nobody leaves, because of
  `match_no_player`. `OneGameDropsNothing`: one game thread.
* `BordersForTwo`: no third id was ever given; the third client's inputs move
  the ball, beyond any border.
* `KeepsUp`: `Alive`, the window is open and no undefined behaviour was met.

## 4. Theorems

All hold for any endpoints, any number of datagrams, threads of the server in
any interleaving, and any sizes of waves and limits, from the modules'
`ASSUME`s only (bounds are naturals, what a game creates is finite, `NoEndpoint`
is no endpoint, a boss has a life, Pong's paddles do not reach the walls).

* `ClientIdsProofs`: `RegisterCorrect` and `RegisterImplementsTable`, from the
  invariant `RegInv` = types, `IdPartition`, `OneIdPerEndpoint`. `IdPartition`
  is what makes the insertion of a reused id an insertion: the key is never
  there already. No seat is added while one is free, because the queue and the
  clients share out the ids.
  `RegisterOneId` is its part about clients that ask twice.
* `SessionsProofs`: `SessionInv` adds to types and `RegInv` that once anything
  is buffered, queued or handled `remote_endpoint_` is an endpoint
  (`HeardSomeone`), that a handler past its copy has one (`EndpointCopied`),
  that the buffer's sender is `remote_endpoint_` (`BufferSender`), and that
  nobody is told of a game before one runs (`ToldOnlyIfRunning`).
  `ToldOnlyIfRunning` is what `NeverBackToLobby` needs: a client that was told
  of a game proves `m_running`, which is never reset, so no GAME_NOT_STARTED
  follows. `NobodyLeftInLobby` and `NewestPacketSender` are inductive relative
  to `SessionInv`; `SenderServed` follows from `NewestPacketSender`. That the
  threads still implement `SessionTable` follows from `RegInv`.
* `PlayerActionsProofs`: `ActionsInv` adds to types, `RegInv` and `ClientKept`
  what a walk has behind it (`MarkedVisited`, `VisitedInOrder`) and an account
  of repetitions: each execution whose mark was lost was paid for by a move,
  and one that lies ahead in freed memory is paid for already (`RepeatsPaid`,
  `WalksPaid`). An element is erased only when marked, and marked only when
  executed: `NothingLost`.
* `PongProofs`: `PongInv` = types, `Numbers` (the counters say which entity is
  what), `Turns` (a ball on its way to one side is not yet behind the other
  side's reach), `GameOverIsOut` and `BordersForTwo`. `Turns` needs the paddles'
  reaches to be apart and off the walls, which `PongAssumption` states and the
  code's numbers satisfy; it is why a ball that is out never comes back.
* `MatchProofs`: `GameInv` = types, `RegInv`, `SlotsAreIds`, `PlayersOwned`,
  `FramesTellAll`, `BossAfterWaves`, `WinIsFinal` and "after WIN all waves and
  bosses were there". The calls of `update` fall into those that only kill
  (`Shrinks`) and those that only add (`Grows`), one lemma each.
  `MatchImplementsAnyGame` adds `FrameInv`: the DELETE packets of a frame name
  what is shown or what the frame creates itself. That is no part of `Kill`,
  which reads neither; `FramesTellAll` gives it, because what is killed was an
  entity and every entity was told of. A kill that does not ask whether the
  entity is there breaks it (the mutant).
  `MatchPlayersForAll` is about the behaviours in which nobody leaves:
  `StayInv` says that no id waits to be given again and that the slots are
  exactly the ids below `playerSpawned`, so that counting clients is as good
  as naming them, which is what the code relies on and a leaver breaks.

* `FrameFeedProofs`: `Typed` adds to the types that no thread's number is
  ahead of the frames stored (`NoThreadAhead`), so that `emplace` leaves no gap
  and the newest frame is the highest number; `FeedInOrder` follows.
  `FeedPositions` needs that the last CHANGE on its way tells
  `lastKnownPositions` (`ChangesAgree`), that a CREATE_ does too or a CHANGE in
  the same or a later message follows (`CreatesAgree`), and that nothing the
  unsent frame creates is known yet (`NewIsUnknown`). `FeedNoGhosts` needs that
  what a CREATE_ on its way tells of is there, or is deleted by the same or a
  later message, or by the frame not yet sent (`DeletesFollow`, `NewestTold`).
  `FeedCatchUp` rests on `CatchUpInv`: whatever is there is shown by a client,
  or its CREATE_ is on its way (`Told`), unless a snapshot is due: a poll is
  about to take it, or `lastClientCount` is below the number of clients and the
  next poll will (`SnapshotDue`). With `PositionsAgree` that gives `InSync`.
  `FeedOneGame` says what a single GAME_START is worth: with one thread the
  frames stored are as many as the thread has counted, so that `emplace` never
  finds a number taken; the hypothesis is a step's, `OneGame` the invariant.
* `FeedLogProofs`: `LogInv` says of every frame that went out that it is stored
  and marked sent, that what it deleted is no entity any more, that no entity
  born in the frame that waits was created or deleted by it, and that this
  frame deletes nothing it deleted. The snapshot tells of `entities` only, so
  it brings back nothing that a frame, sent or waiting, has deleted.
  The numbers only grow (`Typed`), so a poll writes behind all there is:
  `LogOneLife`. `LogLives` then names the lives: the frames of the log that
  create an entity, newly or in a snapshot, and the one that deletes it, or the
  bound `h` when there is none; it is the shape of ClientView's `Lives`.
* `ClientViewProofs`: what `createSprite` and `destroySprite` do to a sequence
  (`CreateAdds`, `EraseKeeps`, `RemoveFirstKeeps`, `FrontKeeps`) gives
  `OneSpritePerId` and `SpritesAreReplay`, together with `IndexInv`: the index
  is looked up once, and no frame before `since` was shown. `EraseIds` is
  recursive; `NumbersBySet` is induction over a set of numbers (a set of
  naturals without a least element is empty), which needs no theorem with an
  operator as its parameter. `ViewImplementsPlayback` takes `ViewInv`: only
  `ShowFrame`, `BeginIndex`, `EmplaceFrame` and the way back to the lobby show;
  a click, or GAME_START, takes away a sprite that is no entity's.
  `ViewFirstFrame` adds `WindowInv`: `frameMap` is empty only while the frame
  that `last_received_frame_id` names is still in the io thread's hands.

Only model-checked: liveness (fairness is out of the prover's reach), and of
course the violations. That `FrameFeed` makes every choice of `AnyGame` is
neither (section 2). Every invariant and every action property of the passing
runs is a theorem.

## 5. Where the code departs from its documents

Five runs are expected to be violated; each has an entry under "findings".

* `sessions_reply_misdirected`: two datagrams close together, and a REQCONNECT
  is answered, and its id given, to the sender of the later one.
* `match_no_player`: after a leaver, `playerSpawned` (which only grows) stands
  for the number of clients; one that stays may never get a player. As long as
  nobody leaves each client has its player with the next frame
  (`MatchPlayersForAll`).
* `feed_out_of_sync`: `lastClientCount` never goes down; after a client left or
  restarted the next newcomer gets no snapshot.
* `feed_retransmission`: the search for an important packet looks for "33",
  the packet is written as the byte 33; nothing is ever sent again.
* `view_lost_frame`: the main loop dereferences `frameMap.end()`. In the trace
  frame 0 is shown, frame 1 never arrives, frame 2 does, and the next turn asks
  for frame 1.

The same models show, without a run of their own:

* A DISCONNECTED ends the session of the sender of the newest datagram.
* GAME_START is answered by a broadcast of GAME_START, not by the GAME_STARTED
  of `protocol.md:42`.
* An `emplace_back` during a walk over `playerActions` makes the walk read freed
  memory; inputs are then executed again in the next frame, or, when the move
  falls between `begin()` and `end()`, anything may happen.
* An input that waits while its sender leaves acts for the next holder of the
  id, within one frame.
* In Pong shots are never marked, so they are never erased: the vector grows
  and every walk meets all of them (`Pong.cpp:58`).
* In Pong the third client moves the ball (`Pong.cpp:238`), the bottom border
  throws it out by a whole screen (`Pong.cpp:146`), and the ball flies on and
  WIN is sent with every frame once the game is over.
* A client that leaves before the first frame that counts clients leaves its
  player behind (`GameState.cpp:306`).
* The main loop may take `begin()` of an empty `frameMap`, without any loss,
  because `last_received_frame_id` is set first (`noFirst`); before the very
  first frame is stored, and at no other time (`ViewFirstFrame`).
* The main loop dereferences `frameMap.end()` without any loss, too: when it is
  faster than the frames come, and when the very first frame is stored between
  the test of `last_received_frame_id` and that of `frameMap.empty()`, so that
  it looks for frame -1 (`LostFramesSurvived` excepts both).
* A state packet that arrives between the tests and the reset of
  `UpdateGameStateLayers` is wiped out unseen.
* Where REQCONNECT or its answer is lost nothing is sent again, and a client
  that crashed is never removed: the protocol has no timeout.

## 6. Not modelled, and what is open

Not modelled: gzip (`DataPacking`), argument parsing, exception texts, drawing
and sound (pure I/O or third-party); the ECS systems (no registry ever runs
one); the life of buffers and the data races inside `std::queue`
(no bounded set of outcomes). The ECS registry: each `GeneralEntity` owns a
copy in which it spawns one entity and nobody a second, so ids are never reused
and nothing there takes more than one step to go wrong.

Open, in this order:

1. `Sessions` with `PlayerActions` in one module: the lookup under
   `remote_endpoint_` is in the first, step by step, and the second takes any
   of its outcomes; what the two say together (`SenderServed` for the moment of
   the lookup, `ClientKept` from then on) is not stated of one state.
2. The clients of `FrameFeed` apply messages at once, those of `ClientView`
   frames as they come: one client that does both would join `InSync` to
   `Playback`, with frames lost on the way.
