--------------------------- MODULE MCDownloadManager ---------------------------
(***************************************************************************)
(* Small torrents for TLC: a piece of two blocks and a last piece of one,    *)
(* whose bits share the first byte of the bitfield as any eight pieces do,   *)
(* or, with ByteBits = 1, do not.                                            *)
(***************************************************************************)
EXTENDS DownloadManager, TLC

MCBlock == {<<0, 0>>, <<0, 1>>, <<1, 0>>}
MCPieceOf == [b \in MCBlock |-> b[1]]

\* The Requests of the run with GetBlock: both blocks of the first piece.
FirstPiece == {<<0, 0>>, <<0, 1>>}

NoBlocks == {}

Good == {"good"}
GoodOrBad == {"good", "bad"}

ConnSymmetry == Permutations(Conn)
================================================================================
