SPECIFICATION FairSpec
CONSTANTS
    NumPieces = 2
    BlocksPerPiece = 2
    pipelineLimit = 2
    MaxChokes = 2
INVARIANTS
    TypeOK
    PendingExact
    NeverAskedTwice
    AskedForWhatPeerHas
    NeverIdles
PROPERTY Downloads
CHECK_DEADLOCK FALSE
