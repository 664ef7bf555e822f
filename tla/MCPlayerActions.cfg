\* Two clients that come and go, three inputs, of which Pong drops the shots.
CONSTANTS
    Endpoints = {e1, e2}
    Kinds = {move, shot}
    Handled = {move}
    MaxAdded = 3
SPECIFICATION FairSpec
INVARIANTS
    TypeOK
    IdPartition
    NothingLost
    RepeatsBounded
    InOrder
    NoLeftovers
    ClientKept
PROPERTIES
    ImplementsTable
    EveryActionExecuted
CHECK_DEADLOCK FALSE
