SPECIFICATION FairSpec
CONSTANTS
    Torrent = {t1, t2}
    NoTorrent = NoTorrent
    NumTrackers = 1
INVARIANTS
    TypeOK
    ListIsTrue
PROPERTIES
    HangsOnlyWedged
    RemovedEnds
    PeersAsPromised
CHECK_DEADLOCK FALSE
