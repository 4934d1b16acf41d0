---------------------------- MODULE MCUploadManager ----------------------------
(***************************************************************************)
(* One incoming connection and a file of two pieces of one block.              *)
(***************************************************************************)
EXTENDS UploadManager
================================================================================
