------------------------------ MODULE PieceLayout ------------------------------
(***************************************************************************)
(* Where the bytes of a torrent are: how NewDownloadManager and              *)
(* requestNextBlock cut pieces into blocks, where WritePieceToDisk puts a     *)
(* piece, and how the four readers of the code (ReadPiece and GetBlock of     *)
(* lib/download/manager.go and of lib/upload/manager.go) find bytes again     *)
(* across the files of a torrent.  Each pass of a reader's loop over the      *)
(* files is a step.  A byte is known by its offset in the torrent; Hole is a  *)
(* zero byte nobody wrote, Junk one that is no byte of the torrent.           *)
(***************************************************************************)
EXTENDS Integers, Sequences, SequencesExt

CONSTANTS
    BlockSize,    \* downloader.BlockSize
    Torrents,     \* the metainfo.Info values considered
    Missing       \* a file that is not there

ASSUME BlockSizeAssumption == BlockSize \in Nat \ {0}

\* What is not there has no bytes.
ASSUME MissingAssumption == Missing \notin Seq(Int)

\* The offsets at which files of these sizes begin, and the one at which they end.
Begins(sizes) ==
    LET begin[k \in 1 .. Len(sizes) + 1] == IF k = 1 THEN 0 ELSE begin[k - 1] + sizes[k - 1]
    IN  begin

\* files is empty for a torrent of one file.
ASSUME TorrentsAssumption ==
    \A t \in Torrents :
        /\ {t.total, t.pieceLength} \subseteq Nat \ {0}
        /\ t.files \in Seq(Nat)
        /\ t.files # <<>> => Begins(t.files)[Len(t.files) + 1] = t.total

Hole == -1
Junk == -2

VARIABLES
    torrent,   \* the metainfo.Info
    disk,      \* the files below DownloadDir: Missing or the bytes they hold
    written,   \* pieces WritePieceToDisk has written
    read       \* the locals of the reader that runs, or the result of the last

vars == <<torrent, disk, written, read>>
--------------------------------------------------------------------------------
(* Pieces and blocks.                                                         *)

pieceLength == torrent.pieceLength
CountPieces == (torrent.total + pieceLength - 1) \div pieceLength
Piece == 0 .. CountPieces - 1

\* TotalBlocks of a piece: as many as it takes, the last one perhaps short.
TotalBlocks(i) ==
    LET remainingData == torrent.total - i * pieceLength
        pieceSize == IF remainingData < pieceLength THEN remainingData ELSE pieceLength
    IN  pieceSize \div BlockSize + (IF pieceSize % BlockSize # 0 THEN 1 ELSE 0)

GetPieceLength(i) ==
    IF i = CountPieces - 1 THEN torrent.total - i * pieceLength ELSE pieceLength

\* What CalculateNumberOfBlocks says instead: rounded up in the last piece only.
CalculateNumberOfBlocks(i) ==
    IF i < CountPieces - 1 THEN pieceLength \div BlockSize
    ELSE LET remaining == torrent.total - pieceLength * (CountPieces - 1)
         IN  (remaining + BlockSize - 1) \div BlockSize

\* Without the second half of the adjustment.
RequestLengthWhole(i, j) == IF GetPieceLength(i) < BlockSize THEN GetPieceLength(i) ELSE BlockSize

\* The length requestNextBlock asks for block j of piece i.
RequestLength(i, j) ==
    LET offset == j * BlockSize
        length == IF offset + BlockSize > GetPieceLength(i)
                  THEN GetPieceLength(i) - offset ELSE BlockSize
    IN  IF GetPieceLength(i) < length THEN GetPieceLength(i) ELSE length

\* The length GetAllRemainingBlocks gives it: every piece taken for a full one.
RemainingLength(i, j) ==
    IF j * BlockSize + BlockSize > pieceLength THEN pieceLength - j * BlockSize ELSE BlockSize

\* The end of what a request may ask for, in both GetBlocks.
PieceBound(i) ==
    IF i = CountPieces - 1 THEN torrent.total - i * pieceLength ELSE pieceLength

\* The n bytes of the torrent from offset a on.
Bytes(a, n) == [k \in 1 .. n |-> a + k - 1]

\* completeData: the blocks as they were asked for, one after the other.
CompleteData(i) ==
    FlattenSeq([j \in 1 .. TotalBlocks(i) |->
                    Bytes(i * pieceLength + (j - 1) * BlockSize, RequestLength(i, j - 1))])
--------------------------------------------------------------------------------
(* Files.                                                                     *)

OneFile == torrent.files = <<>>

\* The sizes the torrent gives its files.
Declared == IF OneFile THEN <<torrent.total>> ELSE torrent.files

\* The offset at which file k begins.
Begin(k) == Begins(Declared)[k]

\* What file.ReadAt puts into a buffer of n bytes from offset a on.
ReadAt(file, a, n) ==
    [k \in 1 .. (IF a >= Len(file) THEN 0 ELSE IF a + n > Len(file) THEN Len(file) - a ELSE n)
        |-> file[a + k]]

\* What file.WriteAt makes of a file: a gap before the data becomes a hole.
WriteAt(file, a, data) ==
    LET old == IF file = Missing THEN <<>> ELSE file
        end == IF a + Len(data) > Len(old) THEN a + Len(data) ELSE Len(old)
    IN  [k \in 1 .. end |-> CASE k > a /\ k <= a + Len(data) -> data[k - a]
                              [] k <= a /\ k > Len(old) -> Hole
                              [] OTHER -> old[k]]

\* Files of a torrent of several come from elsewhere: whole, cut short by a
\* byte, a byte too long, or not there.
FilesFound ==
    [k \in DOMAIN torrent.files |->
        {Missing} \cup {[p \in 1 .. n |-> IF p <= torrent.files[k] THEN Begin(k) + p - 1 ELSE Junk] :
                            n \in {torrent.files[k] - 1, torrent.files[k], torrent.files[k] + 1} \cap Nat}]

NoRead == [by |-> "nobody", pc |-> "idle", start |-> 0, want |-> 0,
           file |-> 1, current |-> 0, got |-> <<>>]

Init ==
    /\ torrent \in Torrents
    /\ IF OneFile THEN disk = <<Missing>>
       ELSE disk \in {d \in [DOMAIN torrent.files -> UNION {FilesFound[k] : k \in DOMAIN torrent.files}] :
                        \A k \in DOMAIN d : d[k] \in FilesFound[k]}
    /\ written = {}
    /\ read = NoRead

\* At a multiple of the piece's own length.
WritePieceByItsLength(i) ==
    /\ OneFile
    /\ i \notin written
    /\ read.pc # "loop"
    /\ written' = written \cup {i}
    /\ disk' = [disk EXCEPT ![1] = WriteAt(@, i * GetPieceLength(i), CompleteData(i))]
    /\ read' = NoRead
    /\ UNCHANGED torrent

\* A torrent of several files is refused with an error and writes nothing.
WritePieceToDisk(i) ==
    /\ OneFile
    /\ i \notin written
    /\ read.pc # "loop"
    /\ written' = written \cup {i}
    /\ disk' = [disk EXCEPT ![1] = WriteAt(@, i * pieceLength, CompleteData(i))]
    /\ read' = NoRead
    /\ UNCHANGED torrent

Readers == {"download.ReadPiece", "upload.ReadPiece", "download.GetBlock", "upload.GetBlock"}

Refuse == read' = [NoRead EXCEPT !.pc = "error"]

StartRead(by, start, want) ==
    read' = [NoRead EXCEPT !.by = by, !.pc = "loop", !.start = start, !.want = want]

\* ReadPiece of either manager: the actual length of the last piece.
ReadPiece(by, i) ==
    /\ by \in {"download.ReadPiece", "upload.ReadPiece"}
    /\ read.pc # "loop"
    /\ IF i >= CountPieces THEN Refuse
       ELSE StartRead(by, i * pieceLength, PieceBound(i))
    /\ UNCHANGED <<torrent, disk, written>>

\* GetBlock of either manager; the flags of the download's are DownloadManager's.
GetBlock(by, i, offset, length) ==
    /\ by \in {"download.GetBlock", "upload.GetBlock"}
    /\ read.pc # "loop"
    /\ IF i >= CountPieces \/ offset + length > PieceBound(i) THEN Refuse
       ELSE StartRead(by, i * pieceLength + offset, length)
    /\ UNCHANGED <<torrent, disk, written>>
--------------------------------------------------------------------------------
(* The passes of the readers' loops.                                          *)

Loop(by) == read.pc = "loop" /\ read.by = by

HaveRead == Len(read.got)

\* A buffer of n bytes keeps its zeros where nothing was read.
Padded(data, n) == data \o [k \in 1 .. n - Len(data) |-> Hole]

Finish(data) == read' = [read EXCEPT !.pc = "ok", !.got = data]
Fail == read' = [read EXCEPT !.pc = "error"]

\* The loop goes on with the next file.
NextFile(data) ==
    read' = [read EXCEPT !.file = @ + 1, !.got = @ \o data,
                         !.current = @ + torrent.files[read.file]]

\* A torrent of one file: ReadPiece takes what there is and leaves the rest zero,
\* GetBlock wants all of it.
ReadOneFile ==
    /\ read.pc = "loop"
    /\ OneFile
    /\ IF disk[1] = Missing THEN Fail
       ELSE LET data == ReadAt(disk[1], read.start, read.want)
            IN  IF read.by \in {"download.ReadPiece", "upload.ReadPiece"}
                THEN Finish(Padded(data, read.want))
                ELSE IF Len(data) = read.want THEN Finish(data) ELSE Fail
    /\ UNCHANGED <<torrent, disk, written>>

\* After the last file, or when the buffer is full.
LoopEnds == read.file > Len(torrent.files) \/ HaveRead >= read.want

EndReadPiece ==
    /\ read.pc = "loop"
    /\ ~OneFile
    /\ read.by \in {"download.ReadPiece", "upload.ReadPiece"}
    /\ LoopEnds
    /\ IF HaveRead < read.want THEN Fail ELSE Finish(read.got)
    /\ UNCHANGED <<torrent, disk, written>>

\* The start within the file not cut off at zero.
DownloadReadsFileUnclamped ==
    /\ Loop("download.ReadPiece")
    /\ ~OneFile
    /\ ~LoopEnds
    /\ LET k == read.file
           within == read.start - read.current
           pieceStart == IF within < 0 THEN -within ELSE within
       IN  IF read.current + torrent.files[k] <= read.start THEN NextFile(<<>>)
           ELSE IF disk[k] = Missing THEN Fail
           ELSE NextFile(ReadAt(disk[k], pieceStart, read.want - HaveRead))
    /\ UNCHANGED <<torrent, disk, written>>

\* The download's loop: the piece starts before the end of this file.  toRead
\* is computed and not used: the buffer is filled from whatever the file holds.
DownloadReadsFile ==
    /\ Loop("download.ReadPiece")
    /\ ~OneFile
    /\ ~LoopEnds
    /\ LET k == read.file
           within == read.start - read.current
           pieceStart == IF within < 0 THEN 0 ELSE within
       IN  IF read.current + torrent.files[k] <= read.start THEN NextFile(<<>>)
           ELSE IF disk[k] = Missing THEN Fail
           ELSE NextFile(ReadAt(disk[k], pieceStart, read.want - HaveRead))
    /\ UNCHANGED <<torrent, disk, written>>

\* As much as is still missing is sought in one file.
UploadReadsFileUncapped ==
    /\ Loop("upload.ReadPiece")
    /\ ~OneFile
    /\ ~LoopEnds
    /\ LET k == read.file
           fileStart == read.start + HaveRead - read.current
           readLength == read.want - HaveRead
       IN  IF torrent.files[k] <= fileStart THEN NextFile(<<>>)
           ELSE IF disk[k] = Missing \/ fileStart < 0 THEN Fail
           ELSE LET data == ReadAt(disk[k], fileStart, readLength)
                IN  IF Len(data) \in {0, readLength} THEN NextFile(data) ELSE Fail
    /\ UNCHANGED <<torrent, disk, written>>

\* The upload's loop: the offset sought moves on with what was read, and a file
\* gives no more than the torrent says it has; io.ReadFull tolerates nothing or all.
UploadReadsFile ==
    /\ Loop("upload.ReadPiece")
    /\ ~OneFile
    /\ ~LoopEnds
    /\ LET k == read.file
           fileStart == read.start + HaveRead - read.current
           fileRemaining == torrent.files[k] - fileStart
           remaining == read.want - HaveRead
           readLength == IF remaining > fileRemaining THEN fileRemaining ELSE remaining
       IN  IF fileRemaining <= 0 THEN NextFile(<<>>)
           ELSE IF disk[k] = Missing \/ fileStart < 0 THEN Fail
           ELSE LET data == ReadAt(disk[k], fileStart, readLength)
                IN  IF Len(data) \in {0, readLength} THEN NextFile(data) ELSE Fail
    /\ UNCHANGED <<torrent, disk, written>>

\* The download's GetBlock reads from the one file that holds the block's start,
\* so a block that goes on in the next file is an error.
DownloadFindsFile ==
    /\ Loop("download.GetBlock")
    /\ ~OneFile
    /\ LET k == read.file
       IN  IF k > Len(torrent.files) THEN Fail
           ELSE IF read.current + torrent.files[k] <= read.start THEN NextFile(<<>>)
           ELSE IF disk[k] = Missing THEN Fail
           ELSE LET data == ReadAt(disk[k], read.start - read.current, read.want)
                IN  IF Len(data) = read.want THEN Finish(data) ELSE Fail
    /\ UNCHANGED <<torrent, disk, written>>

\* The upload's GetBlock has no code for several files: it returns the zeros.
UploadReturnsZeros ==
    /\ Loop("upload.GetBlock")
    /\ ~OneFile
    /\ Finish(Padded(<<>>, read.want))
    /\ UNCHANGED <<torrent, disk, written>>

\* Requests at block boundaries and next to them, one byte too long among them.
Offsets == {0, 1} \cup {j * BlockSize : j \in 1 .. pieceLength \div BlockSize}
Lengths == 1 .. BlockSize + 1

Next ==
    \/ \E i \in Piece : WritePieceToDisk(i)
    \/ \E by \in Readers, i \in 0 .. CountPieces : ReadPiece(by, i)
    \/ \E by \in Readers, i \in 0 .. CountPieces, offset \in Offsets, length \in Lengths :
            GetBlock(by, i, offset, length)
    \/ ReadOneFile
    \/ EndReadPiece
    \/ DownloadReadsFile
    \/ UploadReadsFile
    \/ DownloadFindsFile
    \/ UploadReturnsZeros

Spec == Init /\ [][Next]_vars
--------------------------------------------------------------------------------
(* Properties.                                                                *)

\* The requests of requestNextBlock cover every piece without gap or overlap,
\* GetBlock accepts each, and the blocks of GetAllRemainingBlocks are the same
\* except where they run past the end of the torrent's last piece.
BlocksTile ==
    \A i \in Piece :
        /\ CompleteData(i) = Bytes(i * pieceLength, GetPieceLength(i))
        /\ \A j \in 0 .. TotalBlocks(i) - 1 :
            /\ RequestLength(i, j) > 0
            /\ j * BlockSize + RequestLength(i, j) <= PieceBound(i)
            /\ \/ RemainingLength(i, j) = RequestLength(i, j)
               \/ /\ i = CountPieces - 1
                  /\ j = TotalBlocks(i) - 1
                  /\ j * BlockSize + RemainingLength(i, j) > PieceBound(i)
        /\ CalculateNumberOfBlocks(i) <= TotalBlocks(i)
        /\ CalculateNumberOfBlocks(i) < TotalBlocks(i)
             => i < CountPieces - 1 /\ pieceLength % BlockSize # 0

\* The pieces written so far are at their place in the file, between holes, and
\* all of them together are the torrent.
DiskRight ==
    OneFile /\ written # {} =>
        /\ Len(disk[1]) <= torrent.total
        /\ \A k \in DOMAIN disk[1] :
            disk[1][k] = (IF (k - 1) \div pieceLength \in written THEN k - 1 ELSE Hole)
        /\ written = Piece => Len(disk[1]) = torrent.total

\* How the files of a torrent of several were found.
NoFile(P(_)) == \A k \in DOMAIN Declared : disk[k] # Missing => ~P(k)
Longer(k) == Len(disk[k]) > Declared[k]
Odd(k) == Len(disk[k]) # Declared[k]

Sought == Bytes(read.start, read.want)

\* What is there, and read with whole files or from a written piece.
There ==
    IF OneFile THEN read.start \div pieceLength \in written
    ELSE \A k \in DOMAIN disk : disk[k] # Missing /\ ~Odd(k)

AcrossFiles ==
    \E k \in 2 .. Len(Declared) : read.start < Begin(k) /\ Begin(k) < read.start + read.want

\* What the readers return is what was asked for, wherever it lies: in one file,
\* the bytes or (not yet written) holes; in several, the upload's ReadPiece never
\* returns a wrong byte whatever the files hold, the download's only when no file
\* has a wrong size, its GetBlock only when none is too long.  And what is there is
\* found: no reader that accepted its arguments fails or returns holes for it, but
\* for the download's GetBlock across two files and the upload's, which returns
\* nothing else from several files.
ReadsAreRight ==
    /\ read.pc = "ok" =>
        /\ Len(read.got) = read.want
        /\ OneFile => \A k \in DOMAIN read.got : read.got[k] \in {Sought[k], Hole}
        /\ ~OneFile => CASE read.by = "upload.ReadPiece" -> read.got = Sought
                         [] read.by = "download.ReadPiece" -> NoFile(Odd) => read.got = Sought
                         [] read.by = "download.GetBlock" -> NoFile(Longer) => read.got = Sought
                         [] OTHER -> \A k \in DOMAIN read.got : read.got[k] = Hole
    /\ read.by # "nobody" /\ There =>
        /\ read.pc = "error" => read.by = "download.GetBlock" /\ AcrossFiles
        /\ read.pc = "ok" /\ (OneFile \/ read.by # "upload.GetBlock") => read.got = Sought
================================================================================
