------------------------------ MODULE PieceLedger ------------------------------
(***************************************************************************)
(* What lib/download promises of the pieces of one torrent, with every      *)
(* goroutine, mutex and bitfield left out: a block is received once and      *)
(* never replaced, and a piece reaches the disk, or is announced to a peer,  *)
(* only when every one of its blocks carries the bytes the torrent's SHA-1   *)
(* stands for.  DownloadManager is shown to implement this specification.    *)
(***************************************************************************)

CONSTANTS
    Piece,      \* the pieces of the torrent
    Block,      \* the blocks of all the pieces
    PieceOf     \* the piece each block belongs to

VARIABLES
    content,    \* what was received for each block: nothing, good or bad bytes
    disk,       \* the pieces written to the downloaded file
    announced   \* the pieces some peer was sent a Have for

vars == <<content, disk, announced>>

Verified(p) == \A b \in Block : PieceOf[b] = p => content[b] = "good"

Init ==
    /\ content = [b \in Block |-> "none"]
    /\ disk = {}
    /\ announced = {}

Receive(b) ==
    /\ content[b] = "none"
    /\ \E d \in {"good", "bad"} : content' = [content EXCEPT ![b] = d]
    /\ UNCHANGED <<disk, announced>>

Persist(p) ==
    /\ Verified(p)
    /\ disk' = disk \cup {p}
    /\ UNCHANGED <<content, announced>>

Announce(p) ==
    /\ Verified(p)
    /\ announced' = announced \cup {p}
    /\ UNCHANGED <<content, disk>>

Next ==
    \/ \E b \in Block : Receive(b)
    \/ \E p \in Piece : Persist(p) \/ Announce(p)

Spec == Init /\ [][Next]_vars
================================================================================
