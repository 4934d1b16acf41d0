SPECIFICATION Spec
CONSTANTS
    Peer = {p1, p2, p3}
    NoPeer = NoPeer
    maxUnchoked = 1
    maxSeedingUnchoked = 2
    MayFinish = TRUE
SYMMETRY PeerSymmetry
INVARIANTS
    TypeOK
    StatsNeverNil
    UnchokesOnlyInterested
CHECK_DEADLOCK FALSE
