------------------------------ MODULE UploadManager ------------------------------
(***************************************************************************)
(* The seeding side: StartPeerListener (lib/peer/connection.go), which the    *)
(* GUI starts together with the download, accepts connections and runs         *)
(* HandleSeedingPeer (lib/peer/message_handler.go) for each in a goroutine of   *)
(* its own, over one UploadManager (lib/upload/manager.go) and one PeerManager  *)
(* without a download.                                                         *)
(*                                                                           *)
(* The download meanwhile writes the file the blocks are served from, with no   *)
(* lock in common: StartWrite and EndWrite are WritePieceToDisk seen from       *)
(* outside.  pc[c] names the point the goroutine of connection c has reached;    *)
(* "done" is past conn.Close().                                                *)
(***************************************************************************)
EXTENDS Naturals, FiniteSets

CONSTANTS
    Conn,           \* incoming connections
    NumPieces,      \* info.CountPieces()
    BlocksPerPiece, \* 16 KiB blocks in a piece
    ByteBits,       \* pieces in a byte of a bitfield: 8
    MaxSent         \* bound: blocks sent to one connection

ASSUME SizeAssumption ==
    /\ IsFiniteSet(Conn)
    /\ {NumPieces, BlocksPerPiece, ByteBits} \subseteq Nat \ {0}
    /\ MaxSent \in Nat

Piece == 0 .. NumPieces - 1
Block == Piece \X (0 .. BlocksPerPiece - 1)
NoBlock == <<>>

VARIABLES
    writing,    \* the pieces the download is writing to the file
    disk,       \* the pieces it has written
    fileLen,    \* length of the file, in pieces; 0 when there is none
    pc,         \* where each goroutine is
    umPeers,    \* um.Peers
    pmPeers,    \* the keys of pm.Peers
    peerStats,  \* the keys of pm.peerStats
    BitField,   \* pc.BitField: whether one came, and the bits that are set
    block,      \* blockData: the block, and the bytes GetBlock read
    Uploaded,   \* um.Uploaded, in blocks
    bytesUploaded, \* stats.bytesUploaded, in blocks
    sent,       \* how many blocks each peer was sent
    got         \* what they were: <<block, bytes>>

file == <<writing, disk, fileLen>>
managers == <<umPeers, pmPeers, peerStats, BitField>>
served == <<Uploaded, bytesUploaded, sent, got>>
vars == <<file, pc, managers, block, served>>

Goto(c, l) == pc' = [pc EXCEPT ![c] = l]

NothingRead == [name |-> NoBlock, bytes |-> "none"]

\* NewUploadManager sets every bit, whatever is on disk.
Bitfield == Piece

Init ==
    /\ writing = {}
    /\ disk = {}
    /\ fileLen \in 0 .. NumPieces
    /\ pc = [c \in Conn |-> "new"]
    /\ umPeers = {} /\ pmPeers = {} /\ peerStats = {}
    /\ BitField = [c \in Conn |-> [nil |-> TRUE, bits |-> {}]]
    /\ block = [c \in Conn |-> NothingRead]
    /\ Uploaded = 0
    /\ bytesUploaded = [c \in Conn |-> 0]
    /\ sent = [c \in Conn |-> 0]
    /\ got = [c \in Conn |-> {}]
--------------------------------------------------------------------------------
\* The download's writes.

StartWrite(p) ==
    /\ p \notin disk \cup writing
    /\ writing' = writing \cup {p}
    /\ fileLen' \in {fileLen, IF fileLen > p THEN fileLen ELSE p + 1}
    /\ UNCHANGED <<disk, pc, managers, block, served>>

EndWrite(p) ==
    /\ p \in writing
    /\ writing' = writing \ {p}
    /\ disk' = disk \cup {p}
    /\ fileLen' = IF fileLen > p THEN fileLen ELSE p + 1
    /\ UNCHANGED <<pc, managers, block, served>>
--------------------------------------------------------------------------------
\* StartPeerListener's goroutine and the frame of HandleSeedingPeer.

\* The handshake fails, or it succeeds and um.AddPeer registers the connection.
Accept(c) ==
    /\ pc[c] = "new"
    /\ \/ Goto(c, "close") /\ UNCHANGED umPeers
       \/ Goto(c, "register") /\ umPeers' = umPeers \cup {c}
    /\ UNCHANGED <<file, pmPeers, peerStats, BitField, block, served>>

\* pm.Peers gets the connection, under pm.Mu.
Register(c) ==
    /\ pc[c] = "register"
    /\ Goto(c, "greet")
    /\ pmPeers' = pmPeers \cup {c}
    /\ UNCHANGED <<file, umPeers, peerStats, BitField, block, served>>

\* The bitfield and Unchoke are sent, or one of them fails.
Greet(c) ==
    /\ pc[c] = "greet"
    /\ Goto(c, "read") \/ Goto(c, "unregister")
    /\ UNCHANGED <<file, managers, block, served>>

\* EOF, an unreadable message, or the deadline of the connection.
ReadFails(c) ==
    /\ pc[c] = "read"
    /\ Goto(c, "unregister")
    /\ UNCHANGED <<file, managers, block, served>>

\* HandleSeedingPeer's deferred function.
Unregister(c) ==
    /\ pc[c] = "unregister"
    /\ Goto(c, "remove")
    /\ pmPeers' = pmPeers \ {c}
    /\ UNCHANGED <<file, umPeers, peerStats, BitField, block, served>>

\* A listener that closes the connection before it removes the peer.
RemovePeerLate(c) ==
    /\ pc[c] = "remove"
    /\ Goto(c, "done")
    /\ UNCHANGED <<file, managers, block, served>>

\* The listener's deferred functions, the last one declared first.
RemovePeer(c) ==
    /\ pc[c] = "remove"
    /\ Goto(c, "close")
    /\ umPeers' = umPeers \ {c}
    /\ UNCHANGED <<file, pmPeers, peerStats, BitField, block, served>>

CloseConn(c) ==
    /\ pc[c] = "close"
    /\ Goto(c, "done")
    /\ UNCHANGED <<file, managers, block, served>>
--------------------------------------------------------------------------------
\* HandleSeedingPeer's messages.

\* What a read of a block of piece p may return: a file read is not atomic with
\* a write, and what was never written below the end reads as zeros.
BytesOf(p) == IF p \in disk THEN {"good"} ELSE
              IF p \in writing THEN {"good", "zero"} ELSE {"zero"}

\* A Request: GetBlock refuses a piece that does not exist and fails beyond the
\* end of the file, and the loop goes on with nothing changed.
GetBlock(c, b) ==
    /\ pc[c] = "read"
    /\ sent[c] < MaxSent
    /\ fileLen > b[1]
    /\ \E q \in BytesOf(b[1]) : block' = [block EXCEPT ![c] = [name |-> b, bytes |-> q]]
    /\ Goto(c, "send")
    /\ UNCHANGED <<file, managers, served>>

\* A send that keeps the block in hand when it fails.
SendPieceKeeping(c) ==
    /\ pc[c] = "send"
    /\ \/ /\ sent' = [sent EXCEPT ![c] = @ + 1]
          /\ got' = [got EXCEPT ![c] = @ \cup {block[c]}]
          /\ block' = [block EXCEPT ![c] = NothingRead]
          /\ Goto(c, "count")
       \/ /\ UNCHANGED <<sent, got, block>>
          /\ Goto(c, "read")
    /\ UNCHANGED <<file, managers, Uploaded, bytesUploaded>>

\* The block is sent, or SendPiece fails and the loop goes on.
SendPiece(c) ==
    /\ pc[c] = "send"
    /\ \/ /\ sent' = [sent EXCEPT ![c] = @ + 1]
          /\ got' = [got EXCEPT ![c] = @ \cup {block[c]}]
          /\ Goto(c, "count")
       \/ /\ UNCHANGED <<sent, got>>
          /\ Goto(c, "read")
    /\ block' = [block EXCEPT ![c] = NothingRead]
    /\ UNCHANGED <<file, managers, Uploaded, bytesUploaded>>

\* A count that was loaded before another goroutine counted.
CountUploadRacing(c) ==
    /\ pc[c] = "count"
    /\ Uploaded' \in {Uploaded, Uploaded + 1}
    /\ Goto(c, "stats")
    /\ UNCHANGED <<file, managers, block, bytesUploaded, sent, got>>

\* um.Uploaded, under um.Mu ...
CountUpload(c) ==
    /\ pc[c] = "count"
    /\ Uploaded' = Uploaded + 1
    /\ Goto(c, "stats")
    /\ UNCHANGED <<file, managers, block, bytesUploaded, sent, got>>

\* ... and then the statistics, under pm.Mu, made when there are none.
UpdatePeerStats(c) ==
    /\ pc[c] = "stats"
    /\ peerStats' = peerStats \cup {c}
    /\ bytesUploaded' = [bytesUploaded EXCEPT ![c] = @ + 1]
    /\ Goto(c, "read")
    /\ UNCHANGED <<file, umPeers, pmPeers, BitField, block, Uploaded, sent, got>>

\* What else OnPeerInterested and OnPeerNotInterested record is PeerManager's.
OnPeerInterested(c) ==
    /\ pc[c] = "read"
    /\ peerStats' = peerStats \cup {c}
    /\ UNCHANGED <<file, pc, umPeers, pmPeers, BitField, block, served>>

\* pc.BitField.Set, when the index is below the length, which is in bytes.
HandleHave(c, p) ==
    LET bytes == IF BitField[c].nil THEN 0 ELSE (NumPieces + ByteBits - 1) \div ByteBits
    IN  /\ pc[c] = "read"
        /\ BitField' = IF p < bytes
                         THEN [BitField EXCEPT ![c].bits = @ \cup {p}]
                         ELSE BitField
        /\ UNCHANGED <<file, pc, umPeers, pmPeers, peerStats, block, served>>

HandleBitField(c, bits) ==
    /\ pc[c] = "read"
    /\ BitField' = [BitField EXCEPT ![c] = [nil |-> FALSE, bits |-> bits]]
    /\ UNCHANGED <<file, pc, umPeers, pmPeers, peerStats, block, served>>

Handle(c) ==
    \/ \E b \in Block : GetBlock(c, b)
    \/ OnPeerInterested(c)
    \/ \E p \in Piece : HandleHave(c, p)
    \/ \E bits \in {{}, Piece} : HandleBitField(c, bits)

\* What a goroutine does without waiting for its peer.
Continue(c) ==
    \/ Register(c)
    \/ Greet(c)
    \/ Unregister(c)
    \/ RemovePeer(c)
    \/ CloseConn(c)
    \/ SendPiece(c)
    \/ CountUpload(c)
    \/ UpdatePeerStats(c)

Next ==
    \/ \E p \in Piece : StartWrite(p) \/ EndWrite(p)
    \/ \E c \in Conn : Accept(c) \/ ReadFails(c) \/ Handle(c) \/ Continue(c)

Spec == Init /\ [][Next]_vars
--------------------------------------------------------------------------------
Labels == {"new", "register", "greet", "read", "send", "count", "stats",
           "unregister", "remove", "close", "done"}

BlockRead == [name : Block, bytes : {"good", "zero"}]

\* Every variable stays in its range; a goroutine holds a block while it sends.
TypeOK ==
    /\ writing \subseteq Piece /\ disk \subseteq Piece \ writing
    /\ fileLen \in 0 .. NumPieces
    /\ pc \in [Conn -> Labels]
    /\ {umPeers, pmPeers, peerStats} \subseteq SUBSET Conn
    /\ BitField \in [Conn -> [nil : BOOLEAN, bits : SUBSET Piece]]
    /\ block \in [Conn -> BlockRead \cup {NothingRead}]
    /\ \A c \in Conn : block[c] # NothingRead <=> pc[c] = "send"
    /\ Uploaded \in Nat
    /\ bytesUploaded \in [Conn -> Nat] /\ sent \in [Conn -> 0 .. MaxSent]
    /\ got \in [Conn -> SUBSET BlockRead]

\* The two managers list only connections that are open, whichever way the handler
\* ends: its deferred calls take it off pm.Peers before um.Peers, and off both before
\* the connection closes.  (This is about the two lists only.  The choking rounds go
\* over peerStats, which keeps its entry.)
ListedAreOpen ==
    /\ pmPeers \subseteq umPeers
    /\ \A c \in umPeers : pc[c] \notin {"new", "done"}

\* What was sent, each block by its number on its connection.
SentBlocks == {s \in Conn \X (1 .. MaxSent) : s[2] <= sent[s[1]]}

\* The two counts of what was uploaded, kept under two mutexes one after the
\* other, agree with what the peers were sent, however many goroutines count:
\* um.Uploaded lags by the blocks whose goroutine is just about to count, and the
\* statistics the rounds sort by credit each peer with all but the block in hand.
UploadedCounts ==
    /\ Uploaded + Cardinality({c \in Conn : pc[c] = "count"}) = Cardinality(SentBlocks)
    /\ \A c \in Conn :
           bytesUploaded[c] + (IF pc[c] \in {"count", "stats"} THEN 1 ELSE 0) = sent[c]
--------------------------------------------------------------------------------
\* What the source says and the code does not do.

\* upload/manager.go l.178: "VerifyPiece verifies the integrity of a piece before
\* serving it to peers."
ServesVerified == \A c \in Conn : \A s \in got[c] : s.bytes = "good"
================================================================================
