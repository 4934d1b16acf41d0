SPECIFICATION Spec
CONSTANTS
    Peer = {p1, p2, p3}
    NoPeer = NoPeer
    maxUnchoked = 1
    maxSeedingUnchoked = 2
    MayFinish = FALSE
SYMMETRY PeerSymmetry
INVARIANT SlotsRespected
CHECK_DEADLOCK FALSE
