\* Two threads, clients that come, leave and restart.
CONSTANTS
    Endpoints = {e1, e2}
    Kinds = {"Player"}
    Positions = {p1, p2}
    MaxThreads = 2
    MaxFrames = 3
    MaxEntities = 2
SYMMETRY Symmetry
SPECIFICATION LogSpec
INVARIANTS
    TypeOK
    PositionsAgree
    NoGhostSprites
    NewcomersCatchUp
    OneLife
PROPERTIES
    BroadcastInOrder
