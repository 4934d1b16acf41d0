SPECIFICATION FairSpec
CONSTANTS
    Conn = {c1, c2}
    NoConn = NoConn
    NoBlock = NoBlock
    NumPieces = 2
    Block <- MCBlock
    PieceOf <- MCPieceOf
    Arriving <- Good
    Requestable <- NoBlocks
    DiskMayFail = FALSE
    ByteBits = 8
PROPERTIES
    ReceivedReachesDisk
    HandlersReturn
CHECK_DEADLOCK FALSE
