SPECIFICATION SeederSpec
CONSTANTS
    Conn = {c1, c2}
    NumPieces = 1
    BlocksPerPiece = 1
    ByteBits = 8
    MaxSent = 2
    NoPeer = NoPeer
    maxUnchoked = 1
SYMMETRY ConnSymmetry
INVARIANTS
    SeederTypeOK
    ListedAreOpen
    UploadedCounts
    ServedStayUnchoked
CHECK_DEADLOCK FALSE
