SPECIFICATION Spec
CONSTANTS
    Conn = {c1, c2, c3}
    NoConn = NoConn
    NoBlock = NoBlock
    NumPieces = 2
    Block <- MCBlock
    PieceOf <- MCPieceOf
    Arriving <- GoodOrBad
    Requestable <- FirstPiece
    DiskMayFail = TRUE
    ByteBits = 8
SYMMETRY ConnSymmetry
INVARIANTS
    TypeOK
    BitfieldVerified
    DiskVerified
    UniqueCompleter
    DownloadedCounts
PROPERTIES
    WedgedForever
    ImplementsLedger
CHECK_DEADLOCK FALSE
