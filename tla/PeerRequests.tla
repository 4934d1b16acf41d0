----------------------------- MODULE PeerRequests ------------------------------
(***************************************************************************)
(* One download connection: handleMessage and requestNextBlock               *)
(* (lib/peer/message_handler.go) with their PeerState (peer_state.go), the    *)
(* peer at the other end, and the two FIFO directions of the stream.  The     *)
(* connection's reader goroutine runs one handler at a time; between two of   *)
(* its steps other connections store blocks of their own.  OnBlock is taken   *)
(* at its word, as PieceLedger states it (DownloadManager is the module       *)
(* about its inside): a block is stored once, a piece is ours when its last    *)
(* block is in.  Interested is sent before the reader starts (connection.go,    *)
(* l.160), so that the peer knows of our interest in every state here; the       *)
(* handlers' further Interested messages tell it nothing new and are left out,   *)
(* as is RequestPending, which no code sets to true.                             *)
(***************************************************************************)
EXTENDS Integers, Sequences, FiniteSets

CONSTANTS
    NumPieces,         \* pieces of the torrent
    BlocksPerPiece,    \* blocks of a piece
    pipelineLimit,     \* 5 in requestNextBlock
    MaxChokes          \* bound on how often the peer chokes us

ASSUME SizeAssumption ==
    /\ NumPieces \in Nat \ {0}
    /\ BlocksPerPiece \in Nat \ {0}
    /\ pipelineLimit \in Nat \ {0}
    /\ MaxChokes \in Nat

Piece == 0 .. NumPieces - 1
\* A block as the code addresses it: the piece and the number within the piece.
Block == Piece \X (0 .. BlocksPerPiece - 1)

VARIABLES
    reader,        \* "idle" in ReadMsg, "requesting" in requestNextBlock, "failing" there
                   \* with a firstErr, "closed"
    PeerChoked,    \* pc.PeerChoked: the peer has us choked
    gotBitField,   \* pc.BitField # nil
    BitField,      \* pc.BitField
    pending,       \* ps.PendingRequests
    requested,     \* ps.RequestedBlocks
    received,      \* the blocks the DownloadManager has
    unscanned,     \* (history) pieces heard of by Have since requestNextBlock last ended
    toPeer,        \* Requests on their way to the peer
    toUs,          \* messages on their way to us
    peerHas,       \* what the peer has
    peerChoking,   \* whether the peer is choking us
    answersChoked, \* whether it answers then what it was asked before
    chokes         \* how often it has choked us

ours == <<reader, PeerChoked, gotBitField, BitField, pending, requested, received, unscanned>>
theirs == <<peerHas, peerChoking, answersChoked, chokes>>
vars == <<ours, theirs, toPeer, toUs>>

Msg(type, arg) == [type |-> type, arg |-> arg]
--------------------------------------------------------------------------------
\* What we have: dm.Bitfield.IsSet.
IsSet(p) == \A j \in 0 .. BlocksPerPiece - 1 : <<p, j>> \in received

IsFinished == received = Block

\* Some piece of a peer's (non-nil) BitField is one we lack.
NeedPiecesFrom(bits) == \E p \in bits : ~IsSet(p)

\* Without the test for what the peer has.
EligibleAnywhere == {b \in Block : b \notin received /\ b \notin requested}

\* The blocks requestNextBlock may pick: of a piece the peer has and we do not,
\* neither received nor marked as requested.
Eligible == {b \in Block : b[1] \in BitField /\ b \notin received /\ b \notin requested}

\* The scan goes by piece, then by block.
Before(a, b) == a[1] < b[1] \/ (a[1] = b[1] /\ a[2] <= b[2])
FirstEligible == CHOOSE b \in Eligible : \A e \in Eligible : Before(b, e)

\* The block after the one the scan found.
NextBlockOffByOne == <<FirstEligible[1], FirstEligible[2] + 1>>
NextBlock == FirstEligible

\* Forgets the test for the limit.
MayAskMore == pending >= 0 /\ ~IsFinished

\* The condition of requestNextBlock's loop.
MayAsk == pending < pipelineLimit /\ ~IsFinished

Init ==
    /\ reader = "idle"
    /\ PeerChoked = TRUE
    /\ gotBitField = FALSE
    /\ BitField = {}
    /\ pending = 0
    /\ requested = {}
    /\ received = {}
    /\ unscanned = {}
    /\ toPeer = <<>>
    /\ peerHas \in SUBSET Piece
    /\ peerChoking = TRUE
    /\ answersChoked \in BOOLEAN
    /\ chokes = 0
    /\ \/ toUs = <<Msg("bitfield", peerHas)>>
       \/ peerHas = {} /\ toUs = <<>>    \* a peer with no piece may send none
--------------------------------------------------------------------------------
\* requestNextBlock.

\* One round of the loop: mark the block, count it, send the Request.
RequestBlock ==
    /\ reader \in {"requesting", "failing"}
    /\ MayAsk
    /\ Eligible # {}
    /\ requested' = requested \cup {NextBlock}
    /\ pending' = pending + 1
    /\ toPeer' = Append(toPeer, NextBlock)
    /\ UNCHANGED <<reader, PeerChoked, gotBitField, BitField, received, unscanned, theirs,
                   toUs>>

\* A round whose send fails: the block is counted out again but stays marked, and the
\* loop goes on with the next one.
RequestFails ==
    /\ reader \in {"requesting", "failing"}
    /\ MayAsk
    /\ Eligible # {}
    /\ requested' = requested \cup {NextBlock}
    /\ reader' = "failing"
    /\ UNCHANGED <<PeerChoked, gotBitField, BitField, pending, received, unscanned, theirs,
                   toPeer, toUs>>

\* The loop ends, and with it the handler: a firstErr ends the reader too.
StopRequesting ==
    /\ reader \in {"requesting", "failing"}
    /\ ~(MayAsk /\ Eligible # {})
    /\ reader' = IF reader = "failing" THEN "closed" ELSE "idle"
    /\ unscanned' = {}
    /\ UNCHANGED <<PeerChoked, gotBitField, BitField, pending, requested, received,
                   theirs, toPeer, toUs>>

\* A message cannot be read or handled: the error ends the reader, and what PeerState
\* knew is dropped with it.
CloseConn ==
    /\ reader = "idle"
    /\ reader' = "closed"
    /\ UNCHANGED <<PeerChoked, gotBitField, BitField, pending, requested, received,
                   unscanned, theirs, toPeer, toUs>>
--------------------------------------------------------------------------------
\* handleMessage.

Receives(type) ==
    /\ reader = "idle"
    /\ toUs # <<>>
    /\ Head(toUs).type = type
    /\ toUs' = Tail(toUs)

\* requestNextBlock does nothing while the peer has us choked.
RequestNext(choked) == reader' = IF choked THEN "idle" ELSE "requesting"

\* Blocks are requested when the peer has what we need.
HandleBitField ==
    /\ Receives("bitfield")
    /\ gotBitField' = TRUE
    /\ BitField' = Head(toUs).arg
    /\ IF NeedPiecesFrom(BitField') THEN RequestNext(PeerChoked) ELSE UNCHANGED reader
    /\ UNCHANGED <<PeerChoked, pending, requested, received, unscanned, theirs, toPeer>>

\* Set on a nil BitField sets nothing, and nothing is requested here.
HandleHave ==
    /\ Receives("have")
    /\ BitField' = IF gotBitField THEN BitField \cup {Head(toUs).arg} ELSE BitField
    /\ unscanned' = unscanned \cup {Head(toUs).arg}
    /\ UNCHANGED <<reader, PeerChoked, gotBitField, pending, requested, received,
                   theirs, toPeer>>

\* A choke that clears the marks as well as the count.
HandleChokeClearing ==
    /\ Receives("choke")
    /\ PeerChoked' = TRUE
    /\ pending' = 0
    /\ requested' = {}
    /\ UNCHANGED <<reader, gotBitField, BitField, received, unscanned, theirs, toPeer>>

\* The count is reset; the marks in RequestedBlocks stay.
HandleChoke ==
    /\ Receives("choke")
    /\ PeerChoked' = TRUE
    /\ pending' = 0
    /\ UNCHANGED <<reader, gotBitField, BitField, requested, received, unscanned, theirs,
                   toPeer>>

HandleUnchoke ==
    /\ Receives("unchoke")
    /\ PeerChoked' = FALSE
    /\ RequestNext(FALSE)
    /\ UNCHANGED <<gotBitField, BitField, pending, requested, received, unscanned, theirs,
                   toPeer>>

\* Forgets to count down.
HandlePieceUncounted ==
    /\ Receives("piece")
    /\ received' = received \cup {Head(toUs).arg}
    /\ requested' = requested \ {Head(toUs).arg}
    /\ RequestNext(PeerChoked)
    /\ UNCHANGED <<PeerChoked, gotBitField, BitField, pending, unscanned, theirs, toPeer>>

\* Returns early from a block that another connection brought first.
HandlePieceDuplicate ==
    /\ Receives("piece")
    /\ pending' = pending - 1
    /\ received' = received \cup {Head(toUs).arg}
    /\ IF Head(toUs).arg \in received
         THEN UNCHANGED <<requested, reader>>
         ELSE requested' = requested \ {Head(toUs).arg} /\ RequestNext(PeerChoked)
    /\ UNCHANGED <<PeerChoked, gotBitField, BitField, unscanned, theirs, toPeer>>

\* Count down, store through OnBlock (a duplicate is no error), clear the mark, request
\* on.
HandlePiece ==
    /\ Receives("piece")
    /\ pending' = pending - 1
    /\ received' = received \cup {Head(toUs).arg}
    /\ requested' = requested \ {Head(toUs).arg}
    /\ RequestNext(PeerChoked)
    /\ UNCHANGED <<PeerChoked, gotBitField, BitField, unscanned, theirs, toPeer>>

Reader ==
    \/ RequestBlock
    \/ RequestFails
    \/ StopRequesting
    \/ HandleBitField
    \/ HandleHave
    \/ HandleChoke
    \/ HandleUnchoke
    \/ HandlePiece

\* OnBlock on behalf of another connection.
OtherReceives(b) ==
    /\ b \notin received
    /\ received' = received \cup {b}
    /\ UNCHANGED <<reader, PeerChoked, gotBitField, BitField, pending, requested,
                   unscanned, theirs, toPeer, toUs>>
--------------------------------------------------------------------------------
\* The peer.  A client of this kind answers Requests in order; EepTorrent's own
\* handlers (message_handler.go, l.130 and l.421) do so choking or not, while
\* most clients drop on choke what they were asked.

PeerUnchokes ==
    /\ peerChoking
    /\ peerChoking' = FALSE
    /\ toUs' = Append(toUs, Msg("unchoke", {}))
    /\ UNCHANGED <<ours, peerHas, answersChoked, chokes, toPeer>>

PeerChokes ==
    /\ ~peerChoking
    /\ chokes < MaxChokes
    /\ peerChoking' = TRUE
    /\ chokes' = chokes + 1
    /\ toUs' = Append(toUs, Msg("choke", {}))
    /\ UNCHANGED <<ours, peerHas, answersChoked, toPeer>>

PeerAnswers ==
    /\ toPeer # <<>>
    /\ toPeer' = Tail(toPeer)
    /\ toUs' = IF peerChoking /\ ~answersChoked
                 THEN toUs ELSE Append(toUs, Msg("piece", Head(toPeer)))
    /\ UNCHANGED <<ours, theirs>>

PeerGainsPiece(p) ==
    /\ p \notin peerHas
    /\ peerHas' = peerHas \cup {p}
    /\ toUs' = Append(toUs, Msg("have", p))
    /\ UNCHANGED <<ours, peerChoking, answersChoked, chokes, toPeer>>

Peer ==
    \/ PeerUnchokes
    \/ PeerChokes
    \/ PeerAnswers
    \/ \E p \in Piece : PeerGainsPiece(p)

\* Once the connection is closed nothing happens on it any more.
Next ==
    /\ reader # "closed"
    /\ Reader \/ CloseConn \/ Peer \/ \E b \in Block : OtherReceives(b)

Spec == Init /\ [][Next]_vars

\* The reader goroutine is scheduled; a peer that stays connected answers what
\* reaches it and does not keep us, who told it Interested at the start, choked for good.
Fairness ==
    /\ WF_vars(reader # "closed" /\ Reader)
    /\ WF_vars(reader # "closed" /\ PeerAnswers)
    /\ WF_vars(reader # "closed" /\ PeerUnchokes)

FairSpec == Spec /\ Fairness
--------------------------------------------------------------------------------
\* The blocks we asked for and have no answer to: on their way to the peer, or
\* answered and on their way back.
InFlight ==
    {toPeer[i] : i \in DOMAIN toPeer}
        \cup {toUs[i].arg : i \in {k \in DOMAIN toUs : toUs[k].type = "piece"}}

\* The number of requests in flight, each counted as often as it was sent.
Outstanding ==
    Len(toPeer) + Cardinality({k \in DOMAIN toUs : toUs[k].type = "piece"})

\* The messages to us, each with what its type carries.
Message ==
    [type : {"bitfield"}, arg : SUBSET Piece] \cup [type : {"have"}, arg : Piece]
        \cup [type : {"piece"}, arg : Block] \cup [type : {"choke", "unchoke"}, arg : {{}}]

\* Every variable stays in its range.
TypeOK ==
    /\ reader \in {"idle", "requesting", "failing", "closed"}
    /\ {PeerChoked, gotBitField, peerChoking, answersChoked} \subseteq BOOLEAN
    /\ {BitField, peerHas, unscanned} \subseteq SUBSET Piece
    /\ pending \in Int /\ chokes \in 0 .. MaxChokes
    /\ requested \subseteq Block /\ received \subseteq Block
    /\ toPeer \in Seq(Block)
    /\ toUs \in Seq(Message)

\* A block is never in flight twice on a connection, across chokes, unchokes and
\* answers that come after a choke: RequestedBlocks stays set until the answer.
NeverAskedTwice == Outstanding = Cardinality(InFlight)

\* Every block in flight is one whose piece the peer has, and is marked.
AskedForWhatPeerHas ==
    \A b \in InFlight : b[1] \in peerHas /\ b \in requested

\* Until the peer chokes the counter is exact, so the pipeline limit bounds what
\* is in flight, whatever other connections bring meanwhile.
PendingExact == chokes = 0 => pending = Outstanding /\ Outstanding <= pipelineLimit

\* The pipeline does not run dry: when the reader waits for a message, the peer does not
\* have us choked and the limit would allow a Request, then every block that could be
\* asked for is of a piece the peer told us of by Have after requestNextBlock last ended.
\* Those are the exception the code makes: handling a Have requests nothing.
NeverIdles ==
    reader = "idle" /\ ~PeerChoked /\ MayAsk => \A b \in Eligible : b[1] \in unscanned

\* A peer that has everything from the start, answers all it is asked and unchokes us
\* again after every choke gives us the torrent unless the connection ends, although the
\* count is reset by every choke and decremented by answers that come after it.
\* (Without answersChoked it does not: RequestedBlocks stays set, see README.)
Downloads ==
    peerHas = Piece /\ answersChoked => <>(IsFinished \/ reader = "closed")
================================================================================
