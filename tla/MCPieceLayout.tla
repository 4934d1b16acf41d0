----------------------------- MODULE MCPieceLayout -----------------------------
(***************************************************************************)
(* Torrents with a block of two bytes: pieces that are and are not a whole    *)
(* number of blocks, last pieces of every kind, files that end inside and at  *)
(* the end of pieces and blocks, and an empty file.                           *)
(***************************************************************************)
EXTENDS PieceLayout

Info(total, pieceLen, files) == [total |-> total, pieceLength |-> pieceLen, files |-> files]

MCTorrents ==
    {Info(n, 4, <<>>) : n \in {4, 7, 8, 9}} \cup {Info(n, 3, <<>>) : n \in {1, 5, 8}} \cup
    {Info(7, 4, <<2, 5>>), Info(8, 4, <<5, 0, 3>>), Info(5, 3, <<1, 1, 3>>), Info(6, 4, <<4, 2>>)}
================================================================================
