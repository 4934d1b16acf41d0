SPECIFICATION Spec
CONSTANTS
    Conn = {c1}
    NumPieces = 2
    BlocksPerPiece = 1
    ByteBits = 8
    MaxSent = 1
INVARIANT ServesVerified
CHECK_DEADLOCK FALSE
