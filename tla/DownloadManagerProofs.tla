------------------------- MODULE DownloadManagerProofs -------------------------
(***************************************************************************)
(* DownloadManager for every number of connections, pieces and blocks.       *)
(* The invariant IInv says at which points of OnBlock a goroutine may rely   *)
(* on its piece having been hashed.  It rests on two facts about the code:    *)
(* flags are never cleared, and data is written only where the flag is not    *)
(* yet set (the duplicate test of StoreBlock), so a piece that is flagged in   *)
(* full never changes again.                                                  *)
(***************************************************************************)
EXTENDS DownloadManager, FiniteSetTheorems, TLAPS

\* A goroutine in these stages relies on the outcome of VerifyPiece.
PastVerify == {"loadBits", "storeBits", "persist", "write", "broadcast"}

\* A block with data is flagged; a block GetBlock flagged may have no data.
DataIsFlagged == \A b \in Block : data[b] # "none" => b \in flags

\* What sits in the bitfield, on disk, in an announcement, or in the byte a
\* goroutine is about to store back, has been hashed.
Vouched ==
    /\ \A p \in bitfield \cup disk \cup announced : VerifyPiece(p)
    /\ \A c \in Conn : \A p \in loaded[c] : VerifyPiece(p)

\* What a goroutine may rely on at each stage.
Stage(c) ==
    /\ pc[c] = "store" => job[c].bytes \in {"good", "bad"}
    /\ pc[c] = "verify" => IsPieceComplete(PieceAt(c))
    /\ pc[c] \in PastVerify => VerifyPiece(PieceAt(c))

Stages == \A c \in Conn : Stage(c)

Safe == TypeOK /\ DataIsFlagged /\ Vouched /\ Stages

IInv == Safe /\ UniqueCompleter /\ DownloadedCounts
--------------------------------------------------------------------------------
\* The piece of a goroutine at work is one of the torrent's.
LEMMA PieceAtType ==
    ASSUME TypeOK, NEW c \in Conn, pc[c] \notin {"idle", "closed"}
    PROVE  job[c].block \in Block /\ PieceAt(c) \in Piece
BY PieceAssumption DEF TypeOK, PieceAt

\* Flags and data grow only, so what VerifyPiece once found stays true.
LEMMA VerifiedIsStable ==
    ASSUME NEW p, flags \subseteq flags',
           \A b \in Block : b \in flags => data'[b] = data[b],
           VerifyPiece(p)
    PROVE  VerifyPiece(p)'
BY DEF VerifyPiece, BlocksOf

\* What a step may do to the flags and the data.
Grows ==
    /\ flags \subseteq flags'
    /\ \A b \in Block : b \in flags => data'[b] = data[b]

LEMMA StepGrows ==
    ASSUME TypeOK, [Next]_vars
    PROVE  Grows
<1>1. ASSUME NEW c \in Conn, StoreBlock(c)
      PROVE  Grows
  BY <1>1, PieceAtType DEF StoreBlock, Grows, TypeOK
<1>2. ASSUME NEW c \in Conn, Handler(c), ~StoreBlock(c)
      PROVE  Grows
  BY <1>2 DEF Handler, Grows, VerifyComplete, LoadBits, StoreBits, LockForWrite,
     WritePieceToDisk, BroadcastHave, FinishPiece, ReadAndMark, CheckMarked, shared
<1>3. ASSUME NEW c \in Conn, Message(c)
      PROVE  Grows
  BY <1>3 DEF Message, Grows, ReceivePiece, GetBlock, GetBlockPastEnd, CloseConn, shared
<1>4. CASE UNCHANGED vars
  BY <1>4 DEF Grows, vars, shared
<1> QED
  BY <1>1, <1>2, <1>3, <1>4 DEF Next
--------------------------------------------------------------------------------
\* The type invariant.

LEMMA TypeOKInit == Init => TypeOK
BY NothingAssumption, PieceAssumption DEF Init, TypeOK, NoJob, Labels, Piece

LEMMA TypeOKStep ==
    ASSUME TypeOK, [Next]_vars
    PROVE  TypeOK'
<1> USE DEF TypeOK, Goto, Return, NoJob, Labels, shared
<1>1. ASSUME NEW c \in Conn, NEW b \in Block, NEW q \in Arriving, ReceivePiece(c, b, q)
      PROVE  TypeOK'
  BY <1>1, NothingAssumption, EnvironmentAssumption DEF ReceivePiece
<1>2. ASSUME NEW c \in Conn, StoreBlock(c)
      PROVE  TypeOK'
  <2>1. job[c].block \in Block
    BY <1>2, PieceAtType DEF StoreBlock
  <2> QED
    BY <1>2, <2>1 DEF StoreBlock
<1>3. ASSUME NEW c \in Conn, VerifyComplete(c)
      PROVE  TypeOK'
  BY <1>3 DEF VerifyComplete
<1>4. ASSUME NEW c \in Conn, LoadBits(c)
      PROVE  TypeOK'
  BY <1>4 DEF LoadBits
<1>5. ASSUME NEW c \in Conn, StoreBits(c)
      PROVE  TypeOK'
  BY <1>5, PieceAtType DEF StoreBits
<1>6. ASSUME NEW c \in Conn, LockForWrite(c)
      PROVE  TypeOK'
  BY <1>6 DEF LockForWrite
<1>7. ASSUME NEW c \in Conn, WritePieceToDisk(c)
      PROVE  TypeOK'
  <2>1. PieceAt(c) \in Piece
    BY <1>7, PieceAtType DEF WritePieceToDisk
  <2>2. PieceEnd(PieceAt(c)) \in 0 .. NumPieces
    BY <2>1, PieceAssumption DEF Piece, PieceEnd
  <2>3. CASE Return(c, "closed") /\ UNCHANGED <<disk, fileLen>>
    BY <1>7, <2>1, <2>3, NothingAssumption DEF WritePieceToDisk
  <2>4. CASE Goto(c, "broadcast") /\ UNCHANGED job
    BY <1>7, <2>1, <2>2, <2>4 DEF WritePieceToDisk
  <2> QED
    BY <1>7, <2>3, <2>4 DEF WritePieceToDisk
<1>8. ASSUME NEW c \in Conn, BroadcastHave(c)
      PROVE  TypeOK'
  BY <1>8, PieceAtType DEF BroadcastHave
<1>9. ASSUME NEW c \in Conn, FinishPiece(c)
      PROVE  TypeOK'
  BY <1>9, PieceAtType DEF FinishPiece
<1>10. ASSUME NEW c \in Conn, CloseConn(c) \/ GetBlockPastEnd(c)
      PROVE  TypeOK'
  BY <1>10 DEF CloseConn, GetBlockPastEnd
<1>11. ASSUME NEW c \in Conn, NEW b \in Requestable, GetBlock(c, b)
      PROVE  TypeOK'
  <2>1. CASE b \in flags
    BY <1>11, <2>1 DEF GetBlock
  <2>2. CASE b \notin flags
    <3>1. b \in Block /\ b # NoBlock
      BY NothingAssumption, EnvironmentAssumption
    <3>2. /\ dmMu' = c
          /\ pc' = [pc EXCEPT ![c] = "readFile"]
          /\ job' = [job EXCEPT ![c] = [block |-> b, bytes |-> "none"]]
          /\ UNCHANGED <<shared, pieceMu, process, loaded>>
      BY <1>11, <2>2 DEF GetBlock
    <3>3. job' \in [Conn -> [block : Block \cup {NoBlock}, bytes : {"none", "good", "bad"}]]
      BY <3>1, <3>2
    <3> QED
      BY <1>11, <3>1, <3>2, <3>3
  <2> QED
    BY <2>1, <2>2
<1>12. ASSUME NEW c \in Conn, ReadAndMark(c)
      PROVE  TypeOK'
  <2>1. job[c].block \in Block
    BY <1>12, PieceAtType DEF ReadAndMark
  <2>2. CASE Goto(c, "check") /\ UNCHANGED <<dmMu, job>>
    BY <1>12, <2>1, <2>2 DEF ReadAndMark
  <2>3. CASE Return(c, "closed") /\ dmMu' = NoConn
    BY <1>12, <2>1, <2>3 DEF ReadAndMark
  <2> QED
    BY <1>12, <2>2, <2>3 DEF ReadAndMark
<1>13. ASSUME NEW c \in Conn, CheckMarked(c)
      PROVE  TypeOK'
  <2>1. CASE Return(c, "idle") /\ dmMu' = NoConn /\ UNCHANGED process
    BY <1>13, <2>1 DEF CheckMarked
  <2>2. CASE Goto(c, "broadcast") /\ UNCHANGED <<dmMu, job, process>>
    BY <1>13, <2>2 DEF CheckMarked
  <2>3. CASE process' = "panicked" /\ UNCHANGED <<dmMu, job, pc>>
    BY <1>13, <2>3 DEF CheckMarked
  <2> QED
    BY <1>13, <2>1, <2>2, <2>3 DEF CheckMarked
<1>14. CASE UNCHANGED vars
  BY <1>14 DEF vars
<1> QED
  BY <1>1, <1>2, <1>3, <1>4, <1>5, <1>6, <1>7, <1>8, <1>9, <1>10, <1>11, <1>12,
     <1>13, <1>14 DEF Next, Handler, Message

\* Every variable keeps its type, and a goroutine has a block in hand exactly
\* while a handler runs.
THEOREM TypeCorrect == Spec => []TypeOK
<1>1. Init => TypeOK
  BY TypeOKInit
<1>2. TypeOK /\ [Next]_vars => TypeOK'
  BY TypeOKStep
<1> QED
  BY <1>1, <1>2, PTL DEF Spec
--------------------------------------------------------------------------------
\* The strengthening.

LEMMA SafeInit == Init => Safe
<1> SUFFICES ASSUME Init
             PROVE  Safe
  OBVIOUS
<1>1. TypeOK
  BY TypeOKInit
<1>2. DataIsFlagged /\ Vouched /\ Stages
  BY DEF Init, DataIsFlagged, Vouched, Stages, Stage, PastVerify
<1> QED
  BY <1>1, <1>2 DEF Safe

\* What is verified stays verified across any step.
LEMMA VerifiedStays ==
    ASSUME TypeOK, [Next]_vars
    PROVE  \A p : VerifyPiece(p) => VerifyPiece(p)'
<1>1. Grows
  BY StepGrows
<1> QED
  BY <1>1, VerifiedIsStable DEF Grows

LEMMA DataIsFlaggedStep ==
    ASSUME Safe, [Next]_vars
    PROVE  DataIsFlagged'
<1> USE DEF Safe, DataIsFlagged
<1>1. ASSUME NEW c \in Conn, StoreBlock(c)
      PROVE  DataIsFlagged'
  BY <1>1 DEF StoreBlock, TypeOK
<1>2. ASSUME NEW c \in Conn, ReadAndMark(c)
      PROVE  DataIsFlagged'
  BY <1>2 DEF ReadAndMark
<1>3. ASSUME NEW c \in Conn, Handler(c), ~StoreBlock(c), ~ReadAndMark(c)
      PROVE  DataIsFlagged'
  BY <1>3 DEF Handler, VerifyComplete, LoadBits, StoreBits, LockForWrite,
     WritePieceToDisk, BroadcastHave, FinishPiece, CheckMarked, shared
<1>4. ASSUME NEW c \in Conn, Message(c)
      PROVE  DataIsFlagged'
  BY <1>4 DEF Message, ReceivePiece, GetBlock, GetBlockPastEnd, CloseConn, shared
<1>5. CASE UNCHANGED vars
  BY <1>5 DEF vars, shared
<1> QED
  BY <1>1, <1>2, <1>3, <1>4, <1>5 DEF Next

LEMMA VouchedStep ==
    ASSUME Safe, [Next]_vars
    PROVE  Vouched'
<1>1. TypeOK /\ Vouched /\ Stages
  BY DEF Safe
<1>2. \A p : VerifyPiece(p) => VerifyPiece(p)'
  BY <1>1, VerifiedStays
<1> DEFINE NewVerified == /\ \A p \in bitfield' \cup disk' \cup announced' : VerifyPiece(p)
                          /\ \A d \in Conn : \A p \in loaded'[d] : VerifyPiece(p)
<1>3. SUFFICES NewVerified
  BY <1>2 DEF Vouched
<1>4. ASSUME NEW c \in Conn, LoadBits(c)
      PROVE  NewVerified
  <2>1. \A d \in Conn : \A p \in loaded'[d] : VerifyPiece(p)
    BY <1>1, <1>4 DEF LoadBits, Vouched, TypeOK
  <2> QED
    BY <1>1, <1>4, <2>1 DEF LoadBits, Vouched, shared
<1>6. ASSUME NEW c \in Conn, StoreBits(c)
      PROVE  NewVerified
  <2>1. VerifyPiece(PieceAt(c))
    BY <1>1, <1>6 DEF StoreBits, Stages, Stage, PastVerify
  <2> QED
    BY <1>1, <1>6, <2>1 DEF StoreBits, Vouched, TypeOK
<1>7. ASSUME NEW c \in Conn, WritePieceToDisk(c)
      PROVE  NewVerified
  <2>1. VerifyPiece(PieceAt(c))
    BY <1>1, <1>7 DEF WritePieceToDisk, Stages, Stage, PastVerify
  <2> QED
    BY <1>1, <1>7, <2>1 DEF WritePieceToDisk, Vouched
<1>8. ASSUME NEW c \in Conn, BroadcastHave(c)
      PROVE  NewVerified
  <2>1. VerifyPiece(PieceAt(c))
    BY <1>1, <1>8 DEF BroadcastHave, Stages, Stage, PastVerify
  <2> QED
    BY <1>1, <1>8, <2>1 DEF BroadcastHave, Vouched
<1>9. ASSUME NEW c \in Conn, FinishPiece(c)
      PROVE  NewVerified
  BY <1>1, <1>9 DEF FinishPiece, Vouched
<1>10. ASSUME NEW c \in Conn,
              \/ StoreBlock(c) \/ VerifyComplete(c) \/ LockForWrite(c)
              \/ ReadAndMark(c) \/ CheckMarked(c)
       PROVE  NewVerified
  BY <1>1, <1>10 DEF StoreBlock, VerifyComplete, LockForWrite, ReadAndMark,
     CheckMarked, Vouched, shared
<1>11. ASSUME NEW c \in Conn, Message(c)
       PROVE  NewVerified
  BY <1>1, <1>11 DEF Message, ReceivePiece, GetBlock, GetBlockPastEnd, CloseConn,
                    Vouched, shared
<1>12. CASE UNCHANGED vars
  BY <1>1, <1>12 DEF vars, shared, Vouched
<1> QED
  BY <1>4, <1>6, <1>7, <1>8, <1>9, <1>10, <1>11, <1>12 DEF Next, Handler

\* A goroutine that does not move keeps what it may rely on.
LEMMA StageOfOthers ==
    ASSUME Safe, [Next]_vars, NEW d \in Conn, pc'[d] = pc[d], job'[d] = job[d]
    PROVE  Stage(d)'
<1>1. TypeOK /\ Stage(d)
  BY DEF Safe, Stages
<1>2. Grows
  BY <1>1, StepGrows
<1>3. PieceAt(d)' = PieceAt(d)
  BY DEF PieceAt
<1>4. VerifyPiece(PieceAt(d)) => VerifyPiece(PieceAt(d))'
  BY <1>2, <1>3 DEF VerifyPiece, BlocksOf, Grows
<1>5. IsPieceComplete(PieceAt(d)) => IsPieceComplete(PieceAt(d))'
  BY <1>2, <1>3 DEF IsPieceComplete, Grows
<1> QED
  BY <1>1, <1>4, <1>5 DEF Stage

LEMMA StagesStep ==
    ASSUME Safe, [Next]_vars
    PROVE  Stages'
<1>1. TypeOK /\ Stages
  BY DEF Safe
<1>2. ASSUME NEW c \in Conn, Handler(c) \/ Message(c),
             NEW d \in Conn, d # c
      PROVE  pc'[d] = pc[d] /\ job'[d] = job[d]
  BY <1>1, <1>2 DEF TypeOK, Handler, Message, StoreBlock, VerifyComplete, LoadBits,
     StoreBits, LockForWrite, WritePieceToDisk, BroadcastHave, FinishPiece,
     ReadAndMark, CheckMarked, ReceivePiece, GetBlock, GetBlockPastEnd, CloseConn, Goto, Return
<1>3. ASSUME NEW c \in Conn, StoreBlock(c)
      PROVE  Stage(c)'
  BY <1>1, <1>3 DEF StoreBlock, Goto, TypeOK, Stage, PastVerify, PieceAt,
     IsPieceComplete
<1>4. ASSUME NEW c \in Conn, VerifyComplete(c)
      PROVE  Stage(c)'
  BY <1>1, <1>4 DEF VerifyComplete, Goto, Return, TypeOK, Stage, PastVerify,
     PieceAt, VerifyPiece, shared
<1>5. ASSUME NEW c \in Conn, LoadBits(c) \/ StoreBits(c) \/ LockForWrite(c)
      PROVE  Stage(c)'
  <2>1. VerifyPiece(PieceAt(c))
    BY <1>1, <1>5 DEF LoadBits, StoreBits, LockForWrite, Stages, Stage, PastVerify
  <2>2. VerifyPiece(PieceAt(c))'
    BY <1>5, <2>1 DEF LoadBits, StoreBits, LockForWrite, VerifyPiece, PieceAt, shared
  <2>3. pc'[c] \in {"storeBits", "persist", "write"}
    BY <1>1, <1>5 DEF LoadBits, StoreBits, LockForWrite, Goto, TypeOK
  <2> QED
    BY <2>2, <2>3 DEF Stage
<1>6. ASSUME NEW c \in Conn, WritePieceToDisk(c)
      PROVE  Stage(c)'
  <2>1. VerifyPiece(PieceAt(c))
    BY <1>1, <1>6 DEF WritePieceToDisk, Stages, Stage, PastVerify
  <2>2. CASE Goto(c, "broadcast") /\ UNCHANGED job
    BY <1>1, <1>6, <2>1, <2>2 DEF WritePieceToDisk, Goto, TypeOK, Stage,
       VerifyPiece, PieceAt
  <2>3. CASE Return(c, "closed")
    BY <1>1, <2>3 DEF Return, Goto, TypeOK, Stage, PastVerify
  <2> QED
    BY <1>6, <2>2, <2>3 DEF WritePieceToDisk
<1>7. ASSUME NEW c \in Conn, BroadcastHave(c) \/ FinishPiece(c) \/ ReadAndMark(c)
      PROVE  Stage(c)'
  BY <1>1, <1>7 DEF BroadcastHave, FinishPiece, ReadAndMark, Goto, Return, TypeOK,
     Stage, PastVerify
<1>8. ASSUME NEW c \in Conn, CheckMarked(c)
      PROVE  Stage(c)'
  <2>1. pc[c] = "check"
    BY <1>8 DEF CheckMarked
  <2>2. CASE Return(c, "idle")
    BY <1>1, <2>2 DEF Return, Goto, TypeOK, Stage, PastVerify
  <2>3. CASE VerifyPiece(PieceAt(c)) /\ Goto(c, "broadcast") /\ UNCHANGED job
    BY <1>1, <1>8, <2>3 DEF CheckMarked, Goto, TypeOK, Stage, VerifyPiece, PieceAt,
       shared
  <2>4. CASE UNCHANGED <<job, pc>>
    BY <1>1, <2>1, <2>4 DEF Stage, PastVerify
  <2> QED
    BY <1>8, <2>2, <2>3, <2>4 DEF CheckMarked
<1>9. ASSUME NEW c \in Conn, Message(c)
      PROVE  Stage(c)'
  BY <1>1, <1>9, EnvironmentAssumption DEF Message, ReceivePiece, GetBlock, GetBlockPastEnd, CloseConn,
     Goto, TypeOK, Stage, PastVerify
<1>10. CASE UNCHANGED vars
  BY <1>10, StageOfOthers DEF vars, Stages
<1>11. ASSUME NEW c \in Conn, Handler(c) \/ Message(c)
       PROVE  Stages'
  <2>1. Stage(c)'
    BY <1>3, <1>4, <1>5, <1>6, <1>7, <1>8, <1>9, <1>11 DEF Handler
  <2>2. ASSUME NEW d \in Conn, d # c
        PROVE  Stage(d)'
    BY <1>2, <1>11, <2>2, StageOfOthers
  <2> QED
    BY <2>1, <2>2 DEF Stages
<1> QED
  BY <1>10, <1>11 DEF Next

LEMMA SafeStep ==
    ASSUME Safe, [Next]_vars
    PROVE  Safe'
<1>1. TypeOK'
  BY TypeOKStep DEF Safe
<1> QED
  BY <1>1, DataIsFlaggedStep, VouchedStep, StagesStep DEF Safe
--------------------------------------------------------------------------------
\* One completer per piece.

\* A goroutine completing a piece has all its blocks flagged, so no other can
\* store one more and complete it again.
LEMMA CompleterSeesAll ==
    ASSUME Safe, NEW c \in Conn, Completing(c)
    PROVE  IsPieceComplete(PieceAt(c))
BY DEF Safe, Stages, Stage, Completing, PastVerify, VerifyPiece, IsPieceComplete

\* Only StoreBlock makes a goroutine a completer; the others keep the piece.
LEMMA CompleterOrigin ==
    ASSUME Safe, [Next]_vars, NEW c \in Conn, Completing(c)',
           ~(StoreBlock(c) /\ job[c].block \notin flags)
    PROVE  Completing(c) /\ PieceAt(c)' = PieceAt(c)
<1>1. TypeOK
  BY DEF Safe
<1>2. ASSUME NEW d \in Conn, Handler(d) \/ Message(d), d # c
      PROVE  pc'[c] = pc[c] /\ job'[c] = job[c]
  BY <1>1, <1>2 DEF TypeOK, Handler, Message, StoreBlock, VerifyComplete, LoadBits,
     StoreBits, LockForWrite, WritePieceToDisk, BroadcastHave, FinishPiece,
     ReadAndMark, CheckMarked, ReceivePiece, GetBlock, GetBlockPastEnd, CloseConn, Goto, Return
<1>3. CASE Handler(c)
  BY <1>1, <1>3 DEF TypeOK, Handler, StoreBlock, VerifyComplete, LoadBits, StoreBits,
     LockForWrite, WritePieceToDisk, BroadcastHave, FinishPiece, ReadAndMark,
     CheckMarked, Goto, Return, Completing, PieceAt
<1>4. CASE Message(c)
  BY <1>1, <1>4 DEF TypeOK, Message, ReceivePiece, GetBlock, GetBlockPastEnd, CloseConn, Goto,
     Completing
<1>5. CASE pc'[c] = pc[c] /\ job'[c] = job[c]
  BY <1>5 DEF Completing, PieceAt
<1> QED
  BY <1>2, <1>3, <1>4, <1>5 DEF Next, vars

LEMMA UniqueCompleterStep ==
    ASSUME Safe, UniqueCompleter, [Next]_vars
    PROVE  UniqueCompleter'
<1> SUFFICES ASSUME NEW c \in Conn, NEW d \in Conn,
                    Completing(c)', Completing(d)', PieceAt(c)' = PieceAt(d)', c # d
             PROVE  FALSE
  BY DEF UniqueCompleter
<1> DEFINE Stores(e) == StoreBlock(e) /\ job[e].block \notin flags
<1>1. TypeOK
  BY DEF Safe
<1>2. ASSUME NEW e \in Conn, NEW f \in Conn, e # f, Stores(e),
             Completing(e)', Completing(f)', PieceAt(e)' = PieceAt(f)'
      PROVE  FALSE
  <2>1. job' = job /\ pc' = [pc EXCEPT ![e] = pc'[e]]
    BY <1>1, <1>2 DEF StoreBlock, Goto, TypeOK
  <2>2. Completing(f) /\ PieceAt(f) = PieceAt(e)
    BY <1>1, <1>2, <2>1 DEF Completing, PieceAt, TypeOK
  <2>3. IsPieceComplete(PieceAt(e))
    BY <2>2, CompleterSeesAll
  <2>4. job[e].block \in BlocksOf(PieceAt(e))
    BY <1>1, <1>2, PieceAtType DEF StoreBlock, BlocksOf, PieceAt
  <2> QED
    BY <1>2, <2>3, <2>4 DEF IsPieceComplete
<1>3. CASE Stores(c)
  BY <1>2, <1>3
<1>4. CASE Stores(d)
  BY <1>2, <1>4
<1>5. CASE ~Stores(c) /\ ~Stores(d)
  BY <1>5, CompleterOrigin DEF UniqueCompleter
<1> QED
  BY <1>3, <1>4, <1>5
--------------------------------------------------------------------------------
\* dm.Downloaded counts the blocks that have data.

LEMMA DownloadedCountsStep ==
    ASSUME Safe, DownloadedCounts, [Next]_vars
    PROVE  DownloadedCounts'
<1> DEFINE Stored == {b \in Block : data[b] # "none"}
<1>1. TypeOK /\ DataIsFlagged /\ Stages
  BY DEF Safe
<1>2. ASSUME NEW c \in Conn, StoreBlock(c)
      PROVE  DownloadedCounts'
  <2> DEFINE b == job[c].block
  <2>1. b \in Block /\ job[c].bytes \in {"good", "bad"}
    BY <1>1, <1>2, PieceAtType DEF StoreBlock, Stages, Stage
  <2>2. CASE b \in flags
    BY <1>2, <2>2 DEF StoreBlock, DownloadedCounts
  <2>3. CASE b \notin flags
    <3>1. data' = [data EXCEPT ![b] = job[c].bytes] /\ downloaded' = downloaded + 1
      BY <1>2, <2>3 DEF StoreBlock
    <3>2. b \notin Stored
      BY <1>1, <2>1, <2>3 DEF DataIsFlagged
    <3>3. Stored' = Stored \cup {b}
      BY <1>1, <2>1, <3>1 DEF TypeOK
    <3>4. IsFiniteSet(Stored)
      BY PieceAssumption, FS_Subset
    <3>5. Cardinality(Stored') = Cardinality(Stored) + 1
      BY <3>2, <3>3, <3>4, FS_AddElement
    <3> QED
      BY <3>1, <3>5 DEF DownloadedCounts
  <2> QED
    BY <2>2, <2>3
<1>3. ASSUME NEW c \in Conn, Handler(c), ~StoreBlock(c)
      PROVE  UNCHANGED <<data, downloaded>>
  BY <1>3 DEF Handler, VerifyComplete, LoadBits, StoreBits, LockForWrite,
     WritePieceToDisk, BroadcastHave, FinishPiece, ReadAndMark, CheckMarked, shared
<1>4. ASSUME NEW c \in Conn, Message(c)
      PROVE  UNCHANGED <<data, downloaded>>
  BY <1>4 DEF Message, ReceivePiece, GetBlock, GetBlockPastEnd, CloseConn, shared
<1>5. CASE UNCHANGED <<data, downloaded>>
  BY <1>5 DEF DownloadedCounts
<1> QED
  BY <1>2, <1>3, <1>4, <1>5 DEF Next, vars, shared
--------------------------------------------------------------------------------
\* The inductive invariant and what follows from it.

LEMMA IInvInit == Init => IInv
<1> SUFFICES ASSUME Init
             PROVE  IInv
  OBVIOUS
<1>1. Safe
  BY SafeInit
<1>2. UniqueCompleter
  BY DEF Init, UniqueCompleter, Completing
<1>3. {b \in Block : data[b] # "none"} = {}
  BY DEF Init
<1>4. DownloadedCounts
  BY <1>3, FS_EmptySet DEF Init, DownloadedCounts
<1> QED
  BY <1>1, <1>2, <1>4 DEF IInv

LEMMA IInvStep ==
    ASSUME IInv, [Next]_vars
    PROVE  IInv'
BY SafeStep, UniqueCompleterStep, DownloadedCountsStep DEF IInv

\* IInv holds in every reachable state.
THEOREM Invariance == Spec => []IInv
<1>1. Init => IInv
  BY IInvInit
<1>2. IInv /\ [Next]_vars => IInv'
  BY IInvStep
<1> QED
  BY <1>1, <1>2, PTL DEF Spec

\* A set bit stands for a piece that hashes right, although Bitfield.Set runs
\* unlocked and GetBlock flags blocks nobody received.
THEOREM VerifiedBeforeUse == Spec => []BitfieldVerified
<1>1. IInv => BitfieldVerified
  BY DEF IInv, Safe, Vouched, BitfieldVerified, VerifyPiece, Hashed
<1> QED
  BY <1>1, Invariance, PTL

\* WritePieceToDisk writes, and BroadcastHave announces, pieces that hash right
\* only, although OnBlock lets go of piece.Mu between VerifyPiece and the write.
THEOREM VerifiedOnDisk == Spec => []DiskVerified
<1>1. IInv => DiskVerified
  BY DEF IInv, Safe, Vouched, DiskVerified, VerifyPiece, Hashed
<1> QED
  BY <1>1, Invariance, PTL

\* However many connections deliver a piece, one OnBlock call completes it.
THEOREM OneCompleter == Spec => []UniqueCompleter
<1>1. IInv => UniqueCompleter
  BY DEF IInv
<1> QED
  BY <1>1, Invariance, PTL

\* dm.Downloaded counts every block once.
THEOREM CountsOnce == Spec => []DownloadedCounts
<1>1. IInv => DownloadedCounts
  BY DEF IInv
<1> QED
  BY <1>1, Invariance, PTL

\* A piece that failed its hash stays failed and never gets its bit.
THEOREM FailedForever == Spec => WedgedForever
<1>1. ASSUME IInv, IInv', [Next]_vars, NEW p \in Piece, Wedged(p)
      PROVE  Wedged(p)' /\ p \notin bitfield'
  <2>1. Grows
    BY <1>1, StepGrows DEF IInv, Safe
  <2>2. IsPieceComplete(p) /\ ~Hashed(p)
    BY <1>1 DEF Wedged
  <2>3. IsPieceComplete(p)' /\ ~Hashed(p)'
    BY <2>1, <2>2 DEF Grows, IsPieceComplete, Hashed, BlocksOf
  <2>4. p \in bitfield' => Hashed(p)'
    BY <1>1 DEF IInv, Safe, Vouched, VerifyPiece, Hashed
  <2> QED
    BY <2>3, <2>4 DEF Wedged
<1>2. IInv /\ IInv' /\ [Next]_vars
        => [\A p \in Piece : Wedged(p) => Wedged(p)' /\ p \notin bitfield']_vars
  BY <1>1
<1> QED
  BY <1>2, Invariance, PTL DEF Spec, WedgedForever
--------------------------------------------------------------------------------
\* Every step is a step of the ledger, or leaves it alone.

LEMMA StepImplements ==
    ASSUME Safe, [Next]_vars
    PROVE  [Ledger!Next]_Ledger!vars
<1> USE DEF Ledger!vars
<1>1. TypeOK /\ DataIsFlagged /\ Stages
  BY DEF Safe
<1>3. ASSUME NEW c \in Conn, StoreBlock(c)
      PROVE  [Ledger!Next]_Ledger!vars
  <2> DEFINE b == job[c].block
  <2>1. CASE b \in flags
    BY <1>3, <2>1 DEF StoreBlock
  <2>2. CASE b \notin flags
    <3>1. b \in Block /\ job[c].bytes \in {"good", "bad"}
      BY <1>1, <1>3, PieceAtType DEF StoreBlock, Stages, Stage
    <3>2. data[b] = "none"
      BY <1>1, <2>2, <3>1 DEF DataIsFlagged
    <3>3. Ledger!Receive(b)
      BY <1>3, <2>2, <3>1, <3>2 DEF StoreBlock, Ledger!Receive
    <3> QED
      BY <3>1, <3>3 DEF Ledger!Next
  <2> QED
    BY <2>1, <2>2
<1>4. ASSUME NEW c \in Conn, WritePieceToDisk(c)
      PROVE  [Ledger!Next]_Ledger!vars
  <2>1. PieceAt(c) \in Piece /\ VerifyPiece(PieceAt(c))
    BY <1>1, <1>4, PieceAtType DEF WritePieceToDisk, Stages, Stage, PastVerify
  <2>2. Ledger!Verified(PieceAt(c))
    BY <2>1 DEF VerifyPiece, Ledger!Verified, BlocksOf
  <2>3. CASE disk' = disk \cup {PieceAt(c)}
    <3>1. Ledger!Persist(PieceAt(c))
      BY <1>4, <2>2, <2>3 DEF WritePieceToDisk, Ledger!Persist
    <3> QED
      BY <2>1, <3>1 DEF Ledger!Next
  <2>4. CASE disk' = disk
    BY <1>4, <2>4 DEF WritePieceToDisk
  <2> QED
    BY <1>4, <2>3, <2>4 DEF WritePieceToDisk
<1>5. ASSUME NEW c \in Conn, BroadcastHave(c)
      PROVE  [Ledger!Next]_Ledger!vars
  <2>1. PieceAt(c) \in Piece /\ VerifyPiece(PieceAt(c))
    BY <1>1, <1>5, PieceAtType DEF BroadcastHave, Stages, Stage, PastVerify
  <2>2. Ledger!Announce(PieceAt(c))
    BY <1>5, <2>1 DEF BroadcastHave, Ledger!Announce, VerifyPiece, Ledger!Verified, BlocksOf
  <2> QED
    BY <2>1, <2>2 DEF Ledger!Next
<1>6. ASSUME NEW c \in Conn, FinishPiece(c)
      PROVE  [Ledger!Next]_Ledger!vars
  <2>1. PieceAt(c) \in Piece
    BY <1>1, <1>6, PieceAtType DEF FinishPiece
  <2>2. CASE VerifyPiece(PieceAt(c))
    <3>1. Ledger!Announce(PieceAt(c))
      BY <1>6, <2>2 DEF FinishPiece, Ledger!Announce, VerifyPiece, Ledger!Verified,
         BlocksOf
    <3> QED
      BY <2>1, <3>1 DEF Ledger!Next
  <2>3. CASE ~VerifyPiece(PieceAt(c))
    BY <1>6, <2>3 DEF FinishPiece
  <2> QED
    BY <2>2, <2>3
<1>7. ASSUME NEW c \in Conn,
             \/ VerifyComplete(c) \/ LoadBits(c) \/ StoreBits(c) \/ LockForWrite(c)
             \/ ReadAndMark(c) \/ CheckMarked(c) \/ Message(c)
      PROVE  [Ledger!Next]_Ledger!vars
  BY <1>7 DEF VerifyComplete, LoadBits, StoreBits, LockForWrite, ReadAndMark,
     CheckMarked, Message, ReceivePiece, GetBlock, GetBlockPastEnd, CloseConn, shared
<1>8. CASE UNCHANGED vars
  BY <1>8 DEF vars, shared
<1> QED
  BY <1>3, <1>4, <1>5, <1>6, <1>7, <1>8 DEF Next, Handler

\* Memory, disk and announcements implement the ledger: a block is received once
\* and never replaced, a piece is written or announced only once it is verified.
THEOREM Implementation == Spec => ImplementsLedger
<1>1. Init => Ledger!Init
  BY DEF Init, Ledger!Init
<1>2. IInv /\ [Next]_vars => [Ledger!Next]_Ledger!vars
  BY StepImplements DEF IInv
<1> QED
  BY <1>1, <1>2, Invariance, PTL DEF Spec, ImplementsLedger, Ledger!Spec
================================================================================
