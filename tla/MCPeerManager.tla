----------------------------- MODULE MCPeerManager -----------------------------
(***************************************************************************)
(* Three connections and one regular slot, so that slots run out.             *)
(***************************************************************************)
EXTENDS PeerManager, TLC

PeerSymmetry == Permutations(Peer)
================================================================================
