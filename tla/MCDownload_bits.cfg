SPECIFICATION Spec
CONSTANTS
    Conn = {c1, c2}
    NoConn = NoConn
    NoBlock = NoBlock
    NumPieces = 2
    Block <- MCBlock
    PieceOf <- MCPieceOf
    Arriving <- Good
    Requestable <- NoBlocks
    DiskMayFail = FALSE
    ByteBits = 8
PROPERTY BitfieldKeepsBits
CHECK_DEADLOCK FALSE
