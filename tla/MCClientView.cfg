\* Frames and state packets in any order, lost or doubled; any events.
CONSTANTS
    Entities = {1}
    MaxFrames = 3
SPECIFICATION FairSpec
INVARIANTS
    TypeOK
    OneSpritePerId
    SpritesAreReplay
    FirstFrameWindow
PROPERTIES
    KeepsUp
    ImplementsPlayback
\* The client closes, or reaches undefined behaviour.
CHECK_DEADLOCK FALSE
