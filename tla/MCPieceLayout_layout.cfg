SPECIFICATION Spec
CONSTANTS
    BlockSize = 2
    Torrents <- MCTorrents
    Missing = Missing
INVARIANTS
    BlocksTile
    DiskRight
    ReadsAreRight
