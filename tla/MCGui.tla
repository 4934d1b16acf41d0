--------------------------------- MODULE MCGui ---------------------------------
(***************************************************************************)
(* Two torrents, so that one is added or removed while the other is, and one   *)
(* tracker: the torrent may be removed before or after it was asked.           *)
(***************************************************************************)
EXTENDS Gui
================================================================================
