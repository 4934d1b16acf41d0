----------------------------- MODULE MCTorrentPeers ----------------------------
(***************************************************************************)
(* Two trackers, so that a dial given up at the first lives on during the      *)
(* second; two peers; three attempts: the first, one in the middle, and the     *)
(* last.                                                                       *)
(***************************************************************************)
EXTENDS TorrentPeers
================================================================================
