---------------------------- MODULE DownloadManager ----------------------------
(***************************************************************************)
(* lib/download/manager.go under concurrency: the reader goroutines of the  *)
(* peer connections (lib/peer/connection.go) run handleMessage, which calls *)
(* OnBlock for a Piece message and GetBlock for a Request message on one     *)
(* shared DownloadManager.                                                   *)
(*                                                                           *)
(* A goroutine's program counter pc[c] names the point it has reached:       *)
(*   "idle"       in ReadMsg, no handler running                             *)
(*   "store"      OnBlock, past dm.Mu (l.273), about to take piece.Mu        *)
(*   "verify"     OnBlock, piece complete and piece.Mu released (l.331)      *)
(*   "loadBits", "storeBits"   the two halves of dm.Bitfield.Set (l.341)     *)
(*   "persist"    WritePieceToDisk, about to take piece.Mu (l.382)           *)
(*   "write"      WritePieceToDisk, holding piece.Mu across the file I/O     *)
(*   "broadcast"  BroadcastHave, about to take dm.Mu (l.1023)                *)
(*   "after"      handleMessage, OnBlock returned nil (message_handler l.186)*)
(*   "readFile"   GetBlock, holding dm.Mu, flag checked (l.919)              *)
(*   "check"      GetBlock, holding dm.Mu, block marked (l.1002)             *)
(*   "closed"     the handler returned an error or the connection ended      *)
(* Sections of code under one mutex that take no other are one step.         *)
(***************************************************************************)
EXTENDS Naturals, FiniteSets

CONSTANTS
    Conn,         \* reader goroutines, one per peer connection
    NoConn,       \* "no goroutine": the owner of a free mutex
    NoBlock,      \* "no block": what an idle goroutine works on
    NumPieces,    \* len(dm.Pieces)
    Block,        \* the blocks of all the pieces
    PieceOf,      \* the piece each block belongs to
    ByteBits,     \* pieces whose bits share one byte of the bitfield
    Arriving,     \* what peers send for a block: {"good"} or {"good", "bad"}
    Requestable,  \* the blocks peers send Requests for; {} if they send none at all
    DiskMayFail   \* whether a write to disk may fail

Piece == 0 .. NumPieces - 1
BlocksOf(p) == {b \in Block : PieceOf[b] = p}
\* The pieces whose bit lives in the same byte of the []byte bitfield as p's.
SameByte(p) == {q \in Piece : q \div ByteBits = p \div ByteBits}

ASSUME NothingAssumption == NoConn \notin Conn /\ NoBlock \notin Block
ASSUME PieceAssumption ==
    /\ NumPieces \in Nat \ {0}
    /\ IsFiniteSet(Block)
    /\ PieceOf \in [Block -> Piece]
    /\ \A p \in Piece : BlocksOf(p) # {}
ASSUME EnvironmentAssumption ==
    /\ ByteBits \in Nat \ {0}
    /\ Arriving \subseteq {"good", "bad"}
    /\ Requestable \subseteq Block
    /\ DiskMayFail \in BOOLEAN

VARIABLES
    flags,       \* the blocks b with piece.Blocks[b] = true
    data,        \* piece.BlockData: "none" (nil), "good" or "bad" bytes
    bitfield,    \* dm.Bitfield as the set of pieces whose bit is set
    downloaded,  \* dm.Downloaded, in blocks
    dmMu,        \* the goroutine that holds dm.Mu across steps, or NoConn
    pieceMu,     \* the goroutine that holds each piece.Mu across steps, or NoConn
    disk,        \* the pieces WritePieceToDisk wrote in full
    fileLen,     \* length of the file, in pieces (it is sparse below that)
    announced,   \* the pieces some peer was sent a Have for
    process,     \* "running", or "panicked" once a panic killed it
    pc,          \* program counter of each goroutine
    job,         \* the block its handler works on, and the bytes it brought
    loaded       \* the byte of the bitfield read by the first half of Set

shared == <<flags, data, bitfield, downloaded, disk, fileLen, announced>>
vars == <<shared, dmMu, pieceMu, process, pc, job, loaded>>

NoJob == [block |-> NoBlock, bytes |-> "none"]
--------------------------------------------------------------------------------
\* What the handlers read.

\* IsPieceComplete: every flag of the piece is true.
IsPieceComplete(p) == BlocksOf(p) \subseteq flags

\* Where the bytes of a piece end in the file, in pieces; and one too far.
PieceEndTooFar(p) == p + 2
PieceEnd(p) == p + 1

\* VerifyPiece: every block is flagged, has data, and the SHA-1 of the whole
\* matches.  It reads without piece.Mu; since flags and data only ever grow, a
\* read spread over time returns what one read at some moment in it returns.
VerifyPiece(p) == \A b \in BlocksOf(p) : b \in flags /\ data[b] = "good"

\* IsFinished: every bit is set.
IsFinished == bitfield = Piece

PieceAt(c) == PieceOf[job[c].block]

Goto(c, l) == pc' = [pc EXCEPT ![c] = l]

\* The handler returns: to ReadMsg, or (with an error) to pc.Close().
Return(c, l) ==
    /\ Goto(c, l)
    /\ job' = [job EXCEPT ![c] = NoJob]

Init ==
    /\ flags = {}
    /\ data = [b \in Block |-> "none"]
    /\ bitfield = {}
    /\ downloaded = 0
    /\ dmMu = NoConn
    /\ pieceMu = [p \in Piece |-> NoConn]
    /\ disk = {}
    /\ fileLen \in 0 .. NumPieces    \* an earlier run may have left the file
    /\ announced = {}
    /\ process = "running"
    /\ pc = [c \in Conn |-> "idle"]
    /\ job = [c \in Conn |-> NoJob]
    /\ loaded = [c \in Conn |-> {}]
--------------------------------------------------------------------------------
\* OnBlock.

\* A Piece message arrives; dm.Mu is taken and released to look the piece up.
ReceivePiece(c, b, q) ==
    /\ pc[c] = "idle"
    /\ dmMu = NoConn
    /\ Goto(c, "store")
    /\ job' = [job EXCEPT ![c] = [block |-> b, bytes |-> q]]
    /\ UNCHANGED <<shared, dmMu, pieceMu, process, loaded>>

\* A store that forgot the test for a duplicate.
StoreBlockTwice(c) ==
    LET b == job[c].block
    IN  /\ pc[c] = "store"
        /\ pieceMu[PieceAt(c)] = NoConn
        /\ data' = [data EXCEPT ![b] = job[c].bytes]
        /\ flags' = flags \cup {b}
        /\ downloaded' = downloaded + 1
        /\ Goto(c, IF BlocksOf(PieceAt(c)) \subseteq flags' THEN "verify" ELSE "after")
        /\ UNCHANGED <<bitfield, disk, fileLen, announced, dmMu, pieceMu,
                       process, job, loaded>>

\* A store that scans for completeness before it sets the flag.
StoreBlockLate(c) ==
    LET b == job[c].block
    IN  /\ pc[c] = "store"
        /\ pieceMu[PieceAt(c)] = NoConn
        /\ b \notin flags
        /\ data' = [data EXCEPT ![b] = job[c].bytes]
        /\ flags' = flags \cup {b}
        /\ downloaded' = downloaded + 1
        /\ Goto(c, IF IsPieceComplete(PieceAt(c)) THEN "verify" ELSE "after")
        /\ UNCHANGED <<bitfield, disk, fileLen, announced, dmMu, pieceMu,
                       process, job, loaded>>

\* The section under piece.Mu: a duplicate is ignored, a new block is stored.
StoreBlock(c) ==
    LET b == job[c].block
        p == PieceAt(c)
    IN  /\ pc[c] = "store"
        /\ pieceMu[p] = NoConn
        /\ \/ /\ b \in flags
              /\ Goto(c, "after")
              /\ UNCHANGED <<flags, data, downloaded>>
           \/ /\ b \notin flags
              /\ data' = [data EXCEPT ![b] = job[c].bytes]
              /\ flags' = flags \cup {b}
              /\ downloaded' = downloaded + 1
              /\ Goto(c, IF BlocksOf(p) \subseteq flags' THEN "verify" ELSE "after")
        /\ UNCHANGED <<bitfield, disk, fileLen, announced, dmMu, pieceMu,
                       process, job, loaded>>

\* VerifyPiece on the complete piece; an error goes back to the reader.
VerifyComplete(c) ==
    /\ pc[c] = "verify"
    /\ IF VerifyPiece(PieceAt(c))
         THEN Goto(c, "loadBits") /\ UNCHANGED job
         ELSE Return(c, "closed")
    /\ UNCHANGED <<shared, dmMu, pieceMu, process, loaded>>

\* dm.Bitfield.Set holds no lock: it loads the byte that holds the bit ...
LoadBits(c) ==
    /\ pc[c] = "loadBits"
    /\ loaded' = [loaded EXCEPT ![c] = bitfield \cap SameByte(PieceAt(c))]
    /\ Goto(c, "storeBits")
    /\ UNCHANGED <<shared, dmMu, pieceMu, process, job>>

\* ... and stores it back with the bit set, whatever happened to it meanwhile.
StoreBits(c) ==
    LET p == PieceAt(c)
    IN  /\ pc[c] = "storeBits"
        /\ bitfield' = (bitfield \ SameByte(p)) \cup loaded[c] \cup {p}
        /\ loaded' = [loaded EXCEPT ![c] = {}]
        /\ Goto(c, "persist")
        /\ UNCHANGED <<flags, data, downloaded, disk, fileLen, announced, dmMu,
                       pieceMu, process, job>>

\* WritePieceToDisk takes piece.Mu and keeps it across the file I/O.
LockForWrite(c) ==
    LET p == PieceAt(c)
    IN  /\ pc[c] = "persist"
        /\ pieceMu[p] = NoConn
        /\ pieceMu' = [pieceMu EXCEPT ![p] = c]
        /\ Goto(c, "write")
        /\ UNCHANGED <<shared, dmMu, process, job, loaded>>

\* A write that returns without releasing piece.Mu.
WriteKeepingLock(c) ==
    /\ pc[c] = "write"
    /\ disk' = disk \cup {PieceAt(c)}
    /\ Goto(c, "broadcast")
    /\ UNCHANGED <<flags, data, bitfield, downloaded, fileLen, announced, dmMu,
                   pieceMu, process, job, loaded>>

\* The write succeeds, or fails and OnBlock returns the error.
WritePieceToDisk(c) ==
    LET p == PieceAt(c)
    IN  /\ pc[c] = "write"
        /\ pieceMu' = [pieceMu EXCEPT ![p] = NoConn]
        /\ \/ /\ disk' = disk \cup {p}
              /\ fileLen' = IF fileLen > p THEN fileLen ELSE PieceEnd(p)
              /\ Goto(c, "broadcast")
              /\ UNCHANGED job
           \/ /\ DiskMayFail
              /\ Return(c, "closed")
              /\ UNCHANGED <<disk, fileLen>>
        /\ UNCHANGED <<flags, data, bitfield, downloaded, announced, dmMu,
                       process, loaded>>

\* BroadcastHave, called by OnBlock and by GetBlock, takes dm.Mu itself.
BroadcastHave(c) ==
    /\ pc[c] = "broadcast"
    /\ dmMu = NoConn
    /\ announced' = announced \cup {PieceAt(c)}
    /\ Goto(c, "after")
    /\ UNCHANGED <<flags, data, bitfield, downloaded, disk, fileLen, dmMu,
                   pieceMu, process, job, loaded>>

\* handleMessage once OnBlock returned nil, duplicates included: VerifyPiece
\* again, without piece.Mu, and SendHave when it succeeds.
FinishPiece(c) ==
    /\ pc[c] = "after"
    /\ announced' = announced \cup {p \in {PieceAt(c)} : VerifyPiece(p)}
    /\ Return(c, "idle")
    /\ UNCHANGED <<flags, data, bitfield, downloaded, disk, fileLen, dmMu,
                   pieceMu, process, loaded>>

\* A message OnBlock or GetBlock rejects before it touches any state, EOF, or
\* cancellation.
CloseConn(c) ==
    /\ pc[c] = "idle"
    /\ Goto(c, "closed")
    /\ UNCHANGED <<shared, dmMu, pieceMu, process, job, loaded>>
--------------------------------------------------------------------------------
\* GetBlock, called by handleMessage for a Request; it holds dm.Mu throughout.

\* The flag check: a block that is flagged is refused, and the error closes
\* the connection.
GetBlock(c, b) ==
    /\ pc[c] = "idle"
    /\ dmMu = NoConn
    /\ IF b \in flags
         THEN Goto(c, "closed") /\ UNCHANGED <<dmMu, job>>
         ELSE /\ dmMu' = c
              /\ Goto(c, "readFile")
              /\ job' = [job EXCEPT ![c] = [block |-> b, bytes |-> "none"]]
    /\ UNCHANGED <<shared, pieceMu, process, loaded>>

\* The flag is looked up (l.919) before the offset is compared with the piece's length
\* (l.932): for an offset past the last block the index is out of range.
GetBlockPastEnd(c) ==
    /\ pc[c] = "idle"
    /\ dmMu = NoConn
    /\ Requestable # {}
    /\ process' = "panicked"
    /\ UNCHANGED <<shared, dmMu, pieceMu, pc, job, loaded>>

\* Read the block from the file, which must exist and reach that far, and mark
\* it as received without piece.Mu and without data.
ReadAndMark(c) ==
    LET b == job[c].block
    IN  /\ pc[c] = "readFile"
        /\ IF fileLen > PieceOf[b]
             THEN /\ flags' = flags \cup {b}
                  /\ Goto(c, "check")
                  /\ UNCHANGED <<dmMu, job>>
             ELSE /\ dmMu' = NoConn
                  /\ Return(c, "closed")
                  /\ UNCHANGED flags
        /\ UNCHANGED <<data, bitfield, downloaded, disk, fileLen, announced,
                       pieceMu, process, loaded>>

\* IsPieceComplete waits for piece.Mu.  An incomplete piece ends the handler
\* with the block sent; a complete one is verified: an error is logged and then
\* panics the process, success goes on to BroadcastHave with dm.Mu still held.
CheckMarked(c) ==
    LET p == PieceAt(c)
    IN  /\ pc[c] = "check"
        /\ pieceMu[p] = NoConn
        /\ \/ /\ ~IsPieceComplete(p)
              /\ dmMu' = NoConn
              /\ Return(c, "idle")
              /\ UNCHANGED process
           \/ /\ IsPieceComplete(p)
              /\ VerifyPiece(p)
              /\ Goto(c, "broadcast")
              /\ UNCHANGED <<dmMu, job, process>>
           \/ /\ IsPieceComplete(p)
              /\ ~VerifyPiece(p)
              /\ process' = "panicked"
              /\ UNCHANGED <<dmMu, job, pc>>
        /\ UNCHANGED <<shared, pieceMu, loaded>>
--------------------------------------------------------------------------------
\* What a goroutine does on its own once a handler has started.
Handler(c) ==
    \/ StoreBlock(c)
    \/ VerifyComplete(c)
    \/ LoadBits(c)
    \/ StoreBits(c)
    \/ LockForWrite(c)
    \/ WritePieceToDisk(c)
    \/ BroadcastHave(c)
    \/ FinishPiece(c)
    \/ ReadAndMark(c)
    \/ CheckMarked(c)

\* What a peer makes it start.
Message(c) ==
    \/ \E b \in Block, q \in Arriving : ReceivePiece(c, b, q)
    \/ \E b \in Requestable : GetBlock(c, b)
    \/ GetBlockPastEnd(c)
    \/ CloseConn(c)

Next ==
    /\ process = "running"
    /\ \E c \in Conn : Handler(c) \/ Message(c)

Spec == Init /\ [][Next]_vars

\* The Go scheduler runs every goroutine that can run, and the starvation mode
\* of sync.Mutex hands a released mutex to its longest waiter; nothing is
\* assumed of the peers.
Fairness == \A c \in Conn : WF_vars(process = "running" /\ Handler(c))

FairSpec == Spec /\ Fairness
--------------------------------------------------------------------------------
Labels == {"idle", "store", "verify", "loadBits", "storeBits", "persist", "write",
           "broadcast", "after", "readFile", "check", "closed"}

\* Every variable stays in its range, and a goroutine has a block in hand
\* exactly while a handler runs.
TypeOK ==
    /\ flags \subseteq Block
    /\ data \in [Block -> {"none", "good", "bad"}]
    /\ bitfield \subseteq Piece
    /\ downloaded \in Nat
    /\ dmMu \in Conn \cup {NoConn}
    /\ pieceMu \in [Piece -> Conn \cup {NoConn}]
    /\ disk \subseteq Piece
    /\ fileLen \in 0 .. NumPieces
    /\ announced \subseteq Piece
    /\ process \in {"running", "panicked"}
    /\ pc \in [Conn -> Labels]
    /\ job \in [Conn -> [block : Block \cup {NoBlock}, bytes : {"none", "good", "bad"}]]
    /\ loaded \in [Conn -> SUBSET Piece]
    /\ \A c \in Conn : (job[c].block = NoBlock) <=> (pc[c] \in {"idle", "closed"})

\* Every block of the piece has been received and the piece hashes right.
Hashed(p) == \A b \in BlocksOf(p) : data[b] = "good"

\* The bits peers see (SendBitfield, IsFinished, NeedPiecesFrom) are set only for
\* pieces whose every block hashed right, although Set runs unlocked and can put
\* back a byte that is out of date, and although GetBlock flags blocks that
\* were never received.
BitfieldVerified == \A p \in bitfield : Hashed(p)

\* Only hashed bytes are written or announced, although VerifyPiece, the write
\* and the broadcast are three sections with other goroutines in between.
DiskVerified == \A p \in disk \cup announced : Hashed(p)

\* The stages of OnBlock that follow the block that completed the piece.
Completing(c) == pc[c] \in {"verify", "loadBits", "storeBits", "persist", "write"}

\* However many connections deliver the blocks of a piece, duplicates included,
\* one OnBlock call completes it: no two goroutines verify or write it.
UniqueCompleter ==
    \A c, d \in Conn :
        Completing(c) /\ Completing(d) /\ PieceAt(c) = PieceAt(d) => c = d

\* dm.Downloaded, which the progress bar shows, counts each block once, however
\* often it was sent and whatever GetBlock flagged.
DownloadedCounts == downloaded = Cardinality({b \in Block : data[b] # "none"})

\* A piece all of whose flags are set but whose data is wrong or missing.
Wedged(p) == IsPieceComplete(p) /\ ~Hashed(p)

\* Nothing clears the flags when a hash fails: a piece that failed stays failed
\* and never gets its bit, whatever the peers send later.
WedgedForever == [][\A p \in Piece : Wedged(p) => Wedged(p)' /\ p \notin bitfield']_vars

\* Memory, disk and announcements together implement the ledger of pieces.
Ledger == INSTANCE PieceLedger WITH content <- data
ImplementsLedger == Ledger!Spec

\* With a disk that works and no Requests in flight, a piece whose last good
\* block was stored gets to disk and is announced, whatever the connections do.
ReceivedReachesDisk ==
    \A p \in Piece : Hashed(p) ~> (p \in disk /\ p \in announced)

\* A goroutine inside OnBlock comes out of it, with a disk that works and while no peer
\* sends Requests.  (With them it need not: GetBlock can wait for a mutex it holds, see
\* NoSelfDeadlock, and every other handler then waits for that one.)
HandlersReturn == \A c \in Conn : pc[c] # "idle" ~> pc[c] \in {"idle", "closed"}
--------------------------------------------------------------------------------
\* What the source says and the code does not do.

\* manager.go l.340: "Update bitfield to indicate we have the piece".
BitfieldKeepsBits == [][bitfield \subseteq bitfield']_vars

\* manager.go l.1013: "Broadcast 'Have' message to peers": the goroutine that
\* gets there does not wait for a mutex it holds itself.
NoSelfDeadlock == \A c \in Conn : pc[c] = "broadcast" => dmMu # c
================================================================================
