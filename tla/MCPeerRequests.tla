----------------------------- MODULE MCPeerRequests ----------------------------
(***************************************************************************)
(* Two pieces of two blocks, so that the scan crosses from one piece to the  *)
(* next, and a pipeline of two requests, so that it fills up.                *)
(***************************************************************************)
EXTENDS PeerRequests
================================================================================
