SPECIFICATION PeersFairSpec
CONSTANTS
    maxRetries = 3
    DialOutlives = TRUE
    NumTrackers = 2
    Peer = {p1, p2}
    maxConnections = 2
INVARIANTS
    PeersTypeOK
    ListedWhileHandled
    ReaderEndsFirst
    OpenIsHeld
    TrackerOpenIsHeld
PROPERTIES
    ConnectedOnce
    CancelEndsAll
    AttemptsEnd
    EndsWithReader
    ImplementsPeersGoroutine
CHECK_DEADLOCK FALSE
