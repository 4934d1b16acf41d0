SPECIFICATION Spec
CONSTANTS
    Conn = {c1, c2}
    NoConn = NoConn
    NoBlock = NoBlock
    NumPieces = 2
    Block <- MCBlock
    PieceOf <- MCPieceOf
    Arriving <- Good
    Requestable <- FirstPiece
    DiskMayFail = FALSE
    ByteBits = 8
INVARIANT NoSelfDeadlock
CHECK_DEADLOCK FALSE
