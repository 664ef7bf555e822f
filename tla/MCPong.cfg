\* Three clients, and a field that the ball crosses in a few frames.
CONSTANTS
    LeftX = 1
    RightX = 4
    PlayerY = 1
    BallX = 2
    BallY = 1
    ReachX = 1
    ReachY = 1
    LeftWall = 0
    RightWall = 5
    Height = 2
    Speed = 1
    Drift = 1
    MoveDistance = 1
    MaxClients = 3
    MaxY = 3
    MaxBeyond = 3
SPECIFICATION FairSpec
INVARIANTS
    TypeOK
    SlotsAreIds
    GameOverIsOut
    LastTouchSaves
    BordersForTwo
PROPERTIES
    RallyEnds
