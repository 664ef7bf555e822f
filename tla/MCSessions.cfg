\* Two clients; datagrams may be lost and reordered.  No symmetry: the run
\* checks liveness too.
CONSTANTS
    Endpoints = {e1, e2}
    NoEndpoint = NoEndpoint
    MaxDatagrams = 4
    MaxDuplicates = 0
SPECIFICATION FairSpec
INVARIANTS
    TypeOK
    NewestPacketSender
    NobodyLeftInLobby
PROPERTIES
    NeverBackToLobby
    SenderServed
    StartReachesEveryone
\* The clients stop when they have sent MaxDatagrams datagrams.
CHECK_DEADLOCK FALSE
