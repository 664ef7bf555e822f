------------------------------ MODULE ClientView -----------------------------
(***************************************************************************)
(* What a client makes of the frames it receives.  Two threads share its   *)
(* state without a common lock:                                            *)
(*                                                                         *)
(*   io thread    handle_receive: stores each frame in frameMap, under     *)
(*                mutex_frameMap, after it set last_received_frame_id,     *)
(*                under another mutex; writes gameStatePacket, under none  *)
(*   main thread  main_loop: takes the first frame there is, then one      *)
(*                frame every 10 ms, and turns its packets into sprites    *)
(*                                                                         *)
(* The network loses, doubles and reorders datagrams: any frame, or any    *)
(* state packet, may arrive at any moment.  Positions, the WIN text,       *)
(* sounds and what is only drawn are left out, as are the packets a key    *)
(* sends (module Sessions), but for the GAME_START of the start button.    *)
(* An entity is created by the frame it is born in, and again by every     *)
(* frame that carries a snapshot for newcomers.                            *)
(***************************************************************************)
EXTENDS Integers, Sequences, FiniteSets, SequencesExt

CONSTANTS Entities,     \* ids of the entities the frames tell of
          MaxFrames     \* bound: the frames of the game, numbered from 0

ASSUME ViewAssumption ==
    Entities \subseteq Nat /\ IsFiniteSet(Entities) /\ MaxFrames \in Nat

Background == -100      \* the ids of the sprites of the lobby
Button == -101

FrameIds == 0..(MaxFrames - 1)
StatePackets == {"GAME_START", "GAME_NOT_STARTED", "other"}

VARIABLES
    life,              \* the frames that create each entity, the one that deletes it
    ioFrame,           \* the frame parseFramePacket is about to store, or -1
    lastReceived,      \* last_received_frame_id
    frameMap,          \* the ids of the frames in frameMap; none is ever erased
    gameStatePacket,   \* the action of gameStatePacket; GAME_STARTED is an "other"
    pc,                \* where main_loop is
    open,              \* window.isOpen()
    currentFrameIndex, \* currentFrameIndex
    sprites,           \* the ids in sprites_, in their order
    since              \* history: the first frame shown since sprites was emptied

ioVars == <<ioFrame, lastReceived, frameMap>>
spriteVars == <<sprites, since>>
vars == <<life, ioVars, gameStatePacket, pc, open, currentFrameIndex, spriteVars>>

\* Each entity has a CREATE_ in the frame it is born in and in the snapshots of
\* others, a DELETE in one frame or, with MaxFrames, in none, and no CREATE_
\* after it.  A frame that another thread dropped leaves the snapshots only.
Lives ==
    {l \in [Entities -> [made : SUBSET FrameIds, dead : 0..MaxFrames]] :
        \A i \in Entities : \A n \in l[i].made : n <= l[i].dead}

\* gameStatePacket has no initial value: its action is read before anything
\* is written to it, and may be anything.
Init ==
    /\ life \in Lives
    /\ ioFrame = -1
    /\ lastReceived = -1
    /\ frameMap = {}
    /\ gameStatePacket \in StatePackets
    /\ pc = "index"
    /\ open = TRUE
    /\ currentFrameIndex = -1
    /\ sprites = <<>>
    /\ since = 0

\* Where undefined behaviour begins the model ends.
Undefined == {"noFirst", "noFrame"}

Alive == pc \notin {"closed"} \cup Undefined

------------------------------------------------------------------------------
(* The io thread.                                                          *)

\* Mutant of ReceiveFrame: it keeps the number it expects next.
ReceiveFrameExpectNext(n) ==
    /\ Alive
    /\ ioFrame = -1
    /\ ioFrame' = n
    /\ lastReceived' = n + 1
    /\ UNCHANGED <<life, frameMap, gameStatePacket, pc, open, currentFrameIndex,
                   spriteVars>>

\* parseFramePacket up to line 257.
ReceiveFrame(n) ==
    /\ Alive
    /\ ioFrame = -1
    /\ ioFrame' = n
    /\ lastReceived' = n
    /\ UNCHANGED <<life, frameMap, gameStatePacket, pc, open, currentFrameIndex,
                   spriteVars>>

\* Mutant of EmplaceFrame: the map keeps the newest frame only.
EmplaceFrameOnly ==
    /\ Alive
    /\ ioFrame # -1
    /\ ioFrame' = -1
    /\ frameMap' = {ioFrame}
    /\ UNCHANGED <<life, lastReceived, gameStatePacket, pc, open,
                   currentFrameIndex, spriteVars>>

\* Lines 258-266.
EmplaceFrame ==
    /\ Alive
    /\ ioFrame # -1
    /\ ioFrame' = -1
    /\ frameMap' = frameMap \cup {ioFrame}
    /\ UNCHANGED <<life, lastReceived, gameStatePacket, pc, open,
                   currentFrameIndex, spriteVars>>

ReceiveState(type) ==
    /\ Alive
    /\ ioFrame = -1
    /\ gameStatePacket' = type
    /\ UNCHANGED <<life, ioVars, pc, open, currentFrameIndex, spriteVars>>

------------------------------------------------------------------------------
(* The main loop, in its order.                                            *)

\* Mutant of TestIndex: whether a frame was received is not asked.
TestIndexUnasked ==
    /\ pc = "index"
    /\ pc' = IF ~open THEN "closed"
             ELSE IF currentFrameIndex = -1 THEN "begin"
             ELSE "events"
    /\ UNCHANGED <<life, ioVars, gameStatePacket, open, currentFrameIndex,
                   spriteVars>>

\* Mutant of TestIndex: the index is taken to start from 0.
TestIndexZero ==
    /\ pc = "index"
    /\ pc' = IF ~open THEN "closed"
             ELSE IF lastReceived # -1 /\ currentFrameIndex = 0 THEN "begin"
             ELSE "events"
    /\ UNCHANGED <<life, ioVars, gameStatePacket, open, currentFrameIndex,
                   spriteVars>>

\* Lines 362-363.
TestIndex ==
    /\ pc = "index"
    /\ pc' = IF ~open THEN "closed"
             ELSE IF lastReceived # -1 /\ currentFrameIndex = -1 THEN "begin"
             ELSE "events"
    /\ UNCHANGED <<life, ioVars, gameStatePacket, open, currentFrameIndex,
                   spriteVars>>

\* Line 365: begin() of an empty map must not be dereferenced.
BeginIndex ==
    /\ pc = "begin"
    /\ IF frameMap = {}
       THEN pc' = "noFirst" /\ UNCHANGED <<currentFrameIndex, since>>
       ELSE /\ pc' = "events"
            /\ \E first \in frameMap :
                  /\ \A n \in frameMap : first <= n
                  /\ currentFrameIndex' = first
                  /\ since' = first
    /\ UNCHANGED <<life, ioVars, gameStatePacket, open, sprites>>

InitLobbySprites ==
    /\ sprites' = <<Background, Button>>
    /\ since' = currentFrameIndex

\* processEvents: a click on the start button, which must be the last sprite.
Click ==
    /\ pc = "events"
    /\ sprites # <<>> /\ Last(sprites) = Button
    /\ sprites' = Front(sprites)
    /\ UNCHANGED <<life, ioVars, gameStatePacket, pc, open, currentFrameIndex,
                   since>>

Escape ==
    /\ pc = "events"
    /\ InitLobbySprites
    /\ UNCHANGED <<life, ioVars, gameStatePacket, pc, open, currentFrameIndex>>

Close ==
    /\ pc = "events"
    /\ open' = FALSE
    /\ UNCHANGED <<life, ioVars, gameStatePacket, pc, currentFrameIndex, spriteVars>>

EventsDone ==
    /\ pc = "events"
    /\ pc' = "layers"
    /\ UNCHANGED <<life, ioVars, gameStatePacket, open, currentFrameIndex, spriteVars>>

\* UpdateGameStateLayers, lines 140-141.
TestNotStarted ==
    /\ pc = "layers"
    /\ IF gameStatePacket = "GAME_NOT_STARTED"
       THEN pc' = "reset" /\ InitLobbySprites
       ELSE pc' = "start" /\ UNCHANGED spriteVars
    /\ UNCHANGED <<life, ioVars, gameStatePacket, open, currentFrameIndex>>

\* Lines 142-149: the action is read a second time; the first button goes.
TestStart ==
    /\ pc = "start"
    /\ pc' = "reset"
    /\ sprites' = IF gameStatePacket = "GAME_START"
                  THEN RemoveFirst(sprites, Button) ELSE sprites
    /\ UNCHANGED <<life, ioVars, gameStatePacket, open, currentFrameIndex, since>>

\* Line 150.
ResetGameStatePacket ==
    /\ pc = "reset"
    /\ pc' = "frame"
    /\ gameStatePacket' = "other"
    /\ UNCHANGED <<life, ioVars, open, currentFrameIndex, spriteVars>>

Created(n) == {i \in Entities : n \in life[i].made}
Deleted(n) == {i \in Entities : life[i].dead = n}

\* What the CREATE_ packets of a frame name: with a player comes a background.
Brought(n) == {Created(n), Created(n) \cup {Background : i \in Created(n)}}

\* Mutant of CreateSprite: nobody looks whether the id is there.
CreateSpriteAlways(s, n) ==
    UNION {{s \o new : new \in SetToSeqs(ids)} : ids \in Brought(n)}

\* createSprite: at the end of sprites_, in the order of the frame's packets,
\* which may be any, unless the id is there.
CreateSprite(s, n) ==
    UNION {{s \o new : new \in SetToSeqs(ids \ Range(s))} : ids \in Brought(n)}

\* std::remove_if and erase.  A recursive function, not SelectSeq, which the
\* provers cannot expand.
EraseIds(s, ids) ==
    LET kept[k \in 0..Len(s)] ==
          IF k = 0 THEN <<>>
          ELSE IF s[k] \in ids THEN kept[k - 1] ELSE Append(kept[k - 1], s[k])
    IN kept[Len(s)]

\* Mutant of DestroySprite: it gives up after the first sprite.
DestroyFirstOnly(s, n) ==
    IF s # <<>> /\ Head(s) \in Deleted(n) THEN Tail(s) ELSE s

\* destroySprite.
DestroySprite(s, n) == EraseIds(s, Deleted(n))

\* Lines 371-377: it is too early for a frame, or there is none at all.
SkipFrame ==
    /\ pc = "frame"
    /\ pc' = "index"
    /\ UNCHANGED <<life, ioVars, gameStatePacket, open, currentFrameIndex, spriteVars>>

\* Lines 379-387: the result of find is dereferenced, whatever it is.
ShowFrame ==
    /\ pc = "frame"
    /\ frameMap # {}
    /\ IF currentFrameIndex \notin frameMap
       THEN pc' = "noFrame" /\ UNCHANGED <<currentFrameIndex, sprites>>
       ELSE /\ pc' = "index"
            /\ \E made \in CreateSprite(sprites, currentFrameIndex) :
                  sprites' = DestroySprite(made, currentFrameIndex)
            /\ currentFrameIndex' = currentFrameIndex + 1
    /\ UNCHANGED <<life, ioVars, gameStatePacket, open, since>>

Events == Click \/ Escape \/ Close

Loop ==
    \/ TestIndex \/ BeginIndex \/ EventsDone \/ TestNotStarted \/ TestStart
    \/ ResetGameStatePacket \/ SkipFrame

------------------------------------------------------------------------------

Receive ==
    \/ \E n \in FrameIds : ReceiveFrame(n)
    \/ \E type \in StatePackets : ReceiveState(type)

Next == Receive \/ EmplaceFrame \/ Loop \/ Events \/ ShowFrame
Spec == Init /\ [][Next]_vars

\* Both threads keep running, and 10 ms pass again and again.
Fairness ==
    /\ WF_vars(EmplaceFrame)
    /\ WF_vars(Loop)
    /\ SF_vars(currentFrameIndex \in frameMap /\ ShowFrame)

FairSpec == Spec /\ Fairness

------------------------------------------------------------------------------
(* Properties.                                                             *)

\* The type of every variable.
TypeOK ==
    /\ life \in Lives
    /\ ioFrame \in {-1} \cup FrameIds
    /\ lastReceived \in {-1} \cup FrameIds
    /\ frameMap \subseteq FrameIds
    /\ gameStatePacket \in StatePackets
    /\ pc \in {"index", "begin", "events", "layers", "start", "reset", "frame", "closed"}
               \cup Undefined
    /\ open \in BOOLEAN
    /\ currentFrameIndex \in -1..MaxFrames
    /\ sprites \in Seq(Entities \cup {Background, Button})
    /\ since \in -1..MaxFrames

(***************************************************************************)
(* No id has two sprites, though lobby and game both bring a background    *)
(* and frames arrive doubled: an id drawn twice would outlive its DELETE   *)
(* or its click (Client.cpp:98-101, 116, 438, 514-530).                    *)
(***************************************************************************)
OneSpritePerId ==
    \A j, k \in 1..Len(sprites) : sprites[j] = sprites[k] => j = k

(***************************************************************************)
(* The sprites are exactly the entities that the frames from since to      *)
(* currentFrameIndex created, newly or in a snapshot, and none before      *)
(* currentFrameIndex deleted: each of these frames was applied once and in *)
(* its place, however often and in whatever order the datagrams came, and  *)
(* a snapshot brings nobody back (Client.cpp:84-122, 259, 377-388;         *)
(* Server.cpp:231-234).                                                    *)
(***************************************************************************)
SpritesAreReplay ==
    {i \in Range(sprites) : i \in Entities} =
        {i \in Entities : /\ \E n \in life[i].made : since <= n /\ n < currentFrameIndex
                          /\ life[i].dead >= currentFrameIndex}

(***************************************************************************)
(* Sprites in a vector, packets in the order of their text, two threads    *)
(* and a network that doubles and reorders: what shows of it on the screen *)
(* is a plain playback of frames (Client.cpp:84-122, 198-266, 355-396).    *)
(***************************************************************************)
Screen == INSTANCE Playback WITH
    arrived <- frameMap, index <- currentFrameIndex,
    visible <- Range(sprites) \cap Entities

ImplementsPlayback == Screen!Spec

(***************************************************************************)
(* begin() of an empty frameMap is dereferenced only while the io thread   *)
(* is between last_received_frame_id and the emplace of the very first     *)
(* frame; however the threads interleave afterwards, and whatever is lost, *)
(* there is a first frame (Client.cpp:254-266 and 363-366).                *)
(***************************************************************************)
FirstFrameWindow ==
    pc = "noFirst" => frameMap = {} /\ ioFrame # -1 /\ ioFrame = lastReceived

(***************************************************************************)
(* The view keeps up: again and again every frame there is, from the first *)
(* one shown on and up to a gap, has been shown, whatever the player does, *)
(* unless he closes the window (Client.cpp:363-388).                       *)
(***************************************************************************)
KeepsUp ==
    []<>(~Alive \/ frameMap = {} \/ (currentFrameIndex # -1 /\ currentFrameIndex \notin frameMap))

(***************************************************************************)
(* "Supports robust error handling and client synchronization"             *)
(* (README.md:66): a frame that was lost or overtaken is survived; when    *)
(* the main loop dereferences the end of frameMap (Client.cpp:379-381), no *)
(* later frame is there, the server having sent none yet.                  *)
(***************************************************************************)
LostFramesSurvived ==
    pc = "noFrame" => \A n \in frameMap : currentFrameIndex = -1 \/ n < currentFrameIndex
=============================================================================
