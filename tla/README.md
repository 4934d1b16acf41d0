# EepTorrent in TLA+

EepTorrent is a BitTorrent client for the I2P network, written in Go. This
directory models the parts of it that run concurrently, checks them with TLC on
small instances, and proves their safety properties and refinements for every size with
TLAPS. Paths below are relative to `src/`.

## 1. The system

| Component | State it keeps | Operations |
|---|---|---|
| Download manager (`lib/download/manager.go`) | per piece: flags, block data, `piece.Mu`; `dm.Bitfield`, `dm.Downloaded`, `dm.Peers`, `dm.Mu`; the file | `OnBlock`, `VerifyPiece`, `WritePieceToDisk`, `BroadcastHave`, `GetBlock`, `IsFinished`, `NeedPiecesFrom` |
| Message handling (`lib/peer/message_handler.go`, `peer_state.go`) | per connection: `PendingRequests`, `RequestedBlocks`, `PeerChoked`, `BitField` | `handleMessage`, `requestNextBlock`, `HandleSeedingPeer` |
| Peer connection (`lib/peer/connection.go`) | the goroutines of one connection, its `net.Conn`, the channels `connCh`, `errCh`, `done` | `RetryConnect`, `ConnectToPeer`, `PerformHandshake`, `HandlePeerConnection`, `StartPeerListener` |
| Peer manager (`lib/peer/manager.go`) | `pm.Peers`, `pm.peerStats`, `pm.optimisticPeer`, `pm.Mu` | `runChokingAlgorithm`, `HandleSeeding`, `AddPeer`, `RemovePeer`, the `OnPeer...` reports |
| Upload manager (`lib/upload/manager.go`) | `um.Peers`, `um.Uploaded`, `um.Bitfield` | `AddPeer`, `RemovePeer`, `GetBlock` |
| Tracker client (`lib/tracker/tracker.go`) | none between calls | `GetAllPeers` and a dial per tracker |
| SAM session (`lib/i2p/sam.go`) | three globals | `InitSAM`, `CloseSAM` |
| GUI (`lib/gui/gui.go`) | `torrentList` with its lock, `selectedTorrent`, `uiUpdateChan`, one `TorrentItem` per torrent | `addTorrent`, the Remove button, selection, closing; tickers |
| Utilities, commands, mocks, `lib/download/handler.go`, `stats.go` | nothing that others use | see section 7 |

How they interact:

- The GUI starts, for a torrent, one goroutine that polls progress, one that runs
  `StartPeerListener`, and one that asks the trackers and then runs one
  `RetryConnect` per peer. The first, the third and the connections watch the torrent's
  context, which the Remove button cancels. The listener has no context, nor have the choking goroutines
  of the torrent's two peer managers, whose `Shutdown` is never called: these run on.
- `RetryConnect` calls `ConnectToPeer`, which leaves the dial to a goroutine of
  its own and gets the connection over a buffered channel. `HandlePeerConnection`
  registers the connection with both managers and starts two goroutines, the
  reader (`ReadMsg`, then `handleMessage`) and a ticker (`HandleSeeding`).
- The readers of all connections call `OnBlock` and `GetBlock` of the one
  `DownloadManager`. Locks are fine grained: `dm.Mu` for lookups, `piece.Mu` for a
  store and again for a write, none for the bitfield, the hash or the counters.
- A goroutine of the `PeerManager` runs the choking rounds; readers report to it.
- The listener has an `UploadManager` and a `PeerManager` of its own and reads the
  file that the download writes; the two sides have no lock in common.

What is hard about it: the many short critical sections of `OnBlock`, with
decisions taken between them; handlers that go on while their peer is being
removed; chokes that cross with requests and answers; timeouts that race with
late successes; the non-blocking `done` signal; and the absence of any retry once
something has failed. `PROJECT.json` lists these under "hazards", each at the line
where it bites.

What makes each component correct:

- Download manager: bits, disk and announcements only for hashed pieces; one
  completer of a piece; exact counts; what is received whole and right gets to disk.
- Message handling: no block requested twice or from who lacks it; a bounded
  pipeline that neither overflows nor runs dry.
- Peer connection: listed exactly while handled; nothing outlives its owner;
  every goroutine that watches the torrent's context ends when it is removed.
- Peer manager: no round meets a peer without statistics; slots are respected.
- Upload: lists of open connections, exact counts, verified pieces only; whoever is
  served is not choked.
- Layout of the files: requests tile the pieces, and every reader finds again what was written.
- Tracker client: every tracker is asked once, no connection outlives its use, and one
  outcome is reported.
- GUI: the event goroutine gets out of every callback; the list is what was added and not removed, and
  the selection is in it; the progress and the peers goroutine of a removed torrent end.

## 2. Modules

| Module | Models |
|---|---|
| `PieceLedger` | abstract: what the download promises of blocks, disk and announcements, with no goroutine or lock |
| `DownloadManager` | `OnBlock` and `GetBlock` of any number of reader goroutines, one step per critical section |
| `PeerRequests` | one connection: `handleMessage`, `requestNextBlock`, `PeerState`, the peer, and the two directions of the stream |
| `PieceLayout` | lengths and offsets of pieces, blocks and files; `WritePieceToDisk` and the four readers of files |
| `PeerConnection` | the life of one connection with its dial, reader and ticker goroutines |
| `TrackerSearch` | `GetAllPeers` with the dial goroutine of every tracker |
| `TorrentPeers` | the peers goroutine of a torrent: `TrackerSearch`, then `PeerConnection` |
| `PeersGoroutine` | abstract: what the window relies on of that goroutine |
| `PeerManager` | the choking rounds, the reports of the readers, shutting down |
| `UploadManager` | the listener's connections, each in `HandleSeedingPeer`, over a file being written |
| `Seeder` | the listener as it runs: `UploadManager` with the `PeerManager` it makes |
| `Gui` | the event goroutine, the processor of `uiUpdateChan`, and the two goroutines of each torrent |
| `...Proofs` | the theorems about the module of that name; section 6 (`SeederProofs` also has those about `UploadManager`, `TorrentPeersProofs` those about `TrackerSearch`) |
| `MC...` | the small values TLC is given |

**DownloadManager.** `pc[c]` is where reader `c` is; the head of the module lists
the places with their lines. A section under one mutex that takes no other is one
step, since nobody else can see its middle. `dm.Mu` and `piece.Mu` are variables
because they are held across steps: `piece.Mu` across the file I/O of
`WritePieceToDisk`, `dm.Mu` across the whole of `GetBlock`. `dm.Bitfield.Set` holds no
lock and is a read-modify-write of a byte, hence two steps. `VerifyPiece` also
reads without a lock, but is one step: flags and data only grow (proved as
`StepGrows`), so a slow read returns what a read at some moment in between
returns. Bytes are "good" or "bad" by whether the piece's hash would match with
them. A panic is `process = "panicked"`, after which nothing runs: of a completion by flagging that does not
verify, and of a Request past the end of its piece (`GetBlockPastEnd`).

**PieceLedger** is what a user relies on. `DownloadManager` implements it with
`content <- data`: the flags, which do not always mean that data came, are absent
from it, as are the bits.

**PeerRequests** uses `OnBlock` as `PieceLedger` states it. The reader's handler for
one message is a step, and each pass of `requestNextBlock`'s loop is one, because
other connections store blocks between the passes (`OtherReceives`). The scan for the
next block is `FirstEligible`. The peer answers in order; `answersChoked` says whether this
one answers what it was asked before it choked us (EepTorrent's own two handlers do; most
clients do not). A Request that cannot be sent leaves its mark, the loop goes on, and the error ends the reader
with the loop (`RequestFails`, `reader = "failing"`). Interested goes out before the reader starts (`connection.go:160`), so the peer
knows of it throughout. `unscanned` is a ghost: the pieces heard of by Have since the loop last ended.

**PieceLayout.** A byte is its offset in the torrent, so that "the right byte in the right place"
is an equation; `Hole` is a zero byte nobody wrote and `Junk` a byte that is none of the torrent's.
`torrent` ranges over a set of `metainfo.Info` values that is a constant. Only torrents of one file can be
written; the files of the others come from elsewhere, as they do for a seeder, and may be missing or of
the wrong size. Each pass of a reader's loop over the files is a step, and `read` holds its locals.

**PeerConnection** has one variable for the goroutine of `RetryConnect` (`main`), one for
the reader and one for the ticker. A return of `ConnectToPeer` or
`HandlePeerConnection` includes its deferred calls (`Leave`, the closing in
`PerformHandshake`). The select of `ConnectToPeer` may take the context although the
connection is ready, as Go's select picks any ready case. `SignalDone` is the
non-blocking send: it is received only by a goroutine already in its select.

**TrackerSearch** and **TorrentPeers.** The dial to a tracker does not know the context either and lives
on when it was given up, also after the search. An answer is any set of peers, or none that can be used.
`TorrentPeers` follows one of the `RetryConnect`s in full, because they share nothing but the torrent's
context and the managers; of the others it counts those that have not returned. **PeersGoroutine** is the
interface to the window, with nothing in it but the trackers asked, whether any gave peers, and what
is reported: `TorrentPeers` implements it and `Gui` drives it.

**PeerManager.** A round holds `pm.Mu` but reads `pc.PeerChoked`, which readers write
without it; so its three loops are three steps. Scores depend on the clock and on rates,
so a sort may yield any order (`FirstOf`). `unchoked` is a ghost: which peers last got
Unchoke from us. Two operations that hold `pm.Mu` throughout exclude each other (`Free`). `Shutdown` ends the
rounds and nothing else.

**UploadManager.** `pc[c]` is where the goroutine of connection `c` is; `StartWrite` and
`EndWrite` are the other side's writes. `got`, `sent` are ghosts of what was sent.

**Seeder.** Each step of `UploadManager` that also calls the peer manager is conjoined with that step of
`PeerManager`; the rest leaves the latter alone. `HandleSeedingPeer` enters and deletes `pm.Peers` itself, without
`AddPeer` and `RemovePeer`, so what the peer manager keeps of a peer outlives the connection, and
the rounds go on with it.

**Gui.** A send on the unbuffered `uiUpdateChan` is a place its goroutine waits at, and a
`Receive...` action of the processor. `torrentListLock` is held across steps only by the event
goroutine, in `addTorrent` and Remove (`LockHeld`). The closure
of `addTorrent` takes no lock: it appends in two steps (`LoadList`, `StoreList`), then selects the row that is last by then
(`ChooseRow`), and the callback of the selection takes the lock (`OnSelected`). Remove loads the list (`RemoveTorrent`; `kept` is what it
makes of it) and stores the shorter one (`StoreShorter`); it deletes in place (`MoveUp`), in an array the closure may just have loaded. The widget
decides by its own binding and selected row whether it calls back at all; these are left out, and both outcomes are steps. `raced` is a ghost: Remove and
the closure have both had a list loaded. A torn slice header (pointer of one store, length of another) is outside the model. The search of
`GetAllPeers` is a count of trackers asked and whether any gave peers, and the connections end
when they like, or when the torrent is removed: that is `PeersGoroutine`. The listener goroutine is not in the model.

How they compose, always by `INSTANCE`:

- `PieceLedger` is what `DownloadManager` is shown to implement (`ImplementsLedger`) and what `PeerRequests` relies on.
- `TorrentPeers` is made of `TrackerSearch` and `PeerConnection` and implements `PeersGoroutine`
  (`ImplementsPeersGoroutine`); `Gui` uses the same interface (`PeersAsPromised`) and relies on
  `CancelEndsAll` for the end of every connection of a removed torrent.
- `Seeder` is made of `UploadManager` and `PeerManager`.
- `PeerManager` relies on `PeerConnection` for the order of calls of one connection (`AddPeer`, reports,
  `RemovePeer`, and reports after that only on cancellation); `UploadManager` takes the file from
  `DownloadManager`. Section 8 has that composition.

## 3. Runs

### What holds

| Run | Instance | Shows |
|---|---|---|
| `safety` | 3 connections, a piece of two blocks and one of one, good and bad data, Requests, failing disk | the first five lines of section 4, and that `PieceLedger` is implemented |
| `progress` | 2 connections, same pieces, disk works, no Requests | `ReceivedReachesDisk`, `HandlersReturn`, both of `OnBlock` only |
| `pipeline` | 2 pieces of 2 blocks, limit 2, any starting bitfield, Haves, two chokes, failing sends, other connections | requests are exact and never doubled, the pipeline does not idle, and the download ends |
| `lifecycle` | 2 trackers, 2 peers, 3 attempts, dials that outlive their context | who is listed, open and alive, that it all ends, and that `PeersGoroutine` is implemented |
| `layout` | blocks of 2 bytes; 11 torrents, see `MCPieceLayout` | requests, writes and reads meet |
| `books` | 3 peers, 1 regular slot, 2 seeding slots, the download finishes, a shutdown | nobody without statistics or interest gets into a round |
| `serving` | 2 connections, 1 piece, 1 regular slot, 2 blocks sent to each | lists and counts of the seeding side, and its rounds |
| `window` | 2 torrents, 1 tracker | the list is true until both writers have it loaded, one way to hang, two goroutines of a removed torrent end |

Why these bounds are enough to be interesting. *safety*: three readers are needed for a
duplicate to arrive while two others complete a piece, and two pieces of one bitfield byte
for a stale byte to be stored back; Requests cover both blocks of the larger piece, so that
`GetBlock` can complete a piece by flagging. *pipeline*: with four blocks and a limit of two
the pipeline fills, drains and crosses a piece boundary; two chokes let late answers of the first
fall into the second. *lifecycle*: a first attempt, one with
predecessors and successors, and the last; a tracker whose dial is given up while another is asked.
*layout*: blocks, pieces and files that end at each other's ends and inside each other, an empty file, a piece
shorter than a block, a last piece shorter than a block; requests at the boundaries and next to them. *books*: with one slot and three peers there are
winners, losers and an optimistic one. *serving*: two goroutines race on one counter, and one connection can be gone while the
only slot is still the gone one's. *window*: one torrent is added or removed while the
other's closures run; one tracker gives the search a before and an after. Bounds
that the code does not have: `MaxChokes` and `MaxSent`, and the sizes. Symmetry is used only
in runs without liveness.

`ByteBits` is 8 in every run, as in the code; the proofs hold for every value.

### What does not hold

These runs state what a comment of the source says, and TLC finds it violated.

| Run | Comment | What happens |
|---|---|---|
| `lost_bit` | `manager.go:340` "Update bitfield to indicate we have the piece" | two readers complete pieces of one byte; the later store removes the earlier bit, for good |
| `self_deadlock` | `manager.go:1013` "Broadcast 'Have' message to peers" | `GetBlock` calls `BroadcastHave`, which locks the `dm.Mu` it holds |
| `slots` | `peer/manager.go:14` "Maximum number of peers to unchoke normally" | `PeerChoked` is what the peer does to us; those unchoked earlier stay unchoked |
| `serves_unverified` | `upload/manager.go:178` "VerifyPiece verifies the integrity of a piece before serving it to peers." | nobody calls it; a piece not yet written is served as zeros |

`lost_bit` and `BitfieldVerified` belong together: a stale byte may take bits away, and the
invariant says it can never add a wrong one. 

### Other divergences

Seen while modelling; the models behave this way, but no run is spent on what a look at the
lines shows.

- `IsFinished` may be true before, or without, the last pieces being on disk: the bit is set
  (`download/manager.go:341`) before the write, and stays when that fails. Line 225 says
  "IsFinished checks if the download is complete".
- `GetBlock` flags blocks that were never received (l.1002); line 44 says "true if block is
  received". It refuses the blocks that *were* received (l.919) although line 896 says it
  "retrieves a specific block of data from the downloaded files", and the refusal closes the connection. It indexes
  `piece.Blocks` with the offset (l.919) before it checks the offset (l.932), so a Request past the end of a piece panics.
- `VerifyPiece` "Assumes that the caller already holds piece.Mu.Lock()" (l.731); no caller does.
- `PendingRequests` goes below zero when answers follow a choke; `message_handler.go:178` says
  "Safely decrement". The pipeline limit then admits more than five requests.
- A choke resets the count and leaves `RequestedBlocks` set (l.99). That is why no block is ever in
  flight twice (`NeverAskedTwice`), and why a peer that drops requests when it chokes is not asked for them again
  on this connection, although line 103 says, on Unchoke, "Start requesting pieces".
- A Have from a peer that sent no bitfield is lost (l.81, `Set` on a nil bitfield), and a Have
  never requests (l.79), so a connection whose pipeline has run empty stays idle;
  line 254 says "requestNextBlock requests the next available block from the peer". `NeverIdles` says that a Have is the only
  way to be idle with something to ask for.
- A Have goes out, and the bit is set, as soon as the hash is right (`message_handler.go:197`), which may be before the
  completing goroutine has written the piece.
- `HandleSeedingPeer` compares a piece index with the length of a bitfield in bytes
  (l.461, "Update peer's bitfield").
- The ticker goroutine of a connection ends only with the torrent (`connection.go:218`), whatever
  line 141, "Create a done channel for cleanup", intends.
- `connection.go:230` says "Wait for either context cancellation or connection completion", but the send of l.172
  is dropped unless the receiver is already in its select: after a reader that ends before that, the peer stays in both lists
  until the torrent is removed. `EndsWithReader` says that this is the only way.
- A dial that succeeds after its context is done leaves an open connection in `connCh`, which nobody reads or closes
  (`connection.go:97`, `tracker.go:106`). `OpenIsHeld` and `TrackerOpenIsHeld` say that no other connection is lost.
- On a cancellation `RemovePeer` may run while the reader is in a handler, whose report makes the peer's statistics anew; they
  stay.
- A read deadline in the middle of a message is "Just a timeout, continue reading"
  (`connection.go:192`); the next read starts inside that message. The model has it as one
  of the errors a later read may return.
- The listener's `pm.peerStats`, and with it `isInterested`, only grows (`message_handler.go:390` empties `pm.Peers`
  alone): its rounds give slots to closed connections and write to them. No peer suffers, because `HandleSeedingPeer` unchokes
  everybody and `PeerChoked`, which alone lets a round choke a peer, is never set there (`ServedStayUnchoked`).
- `OnPeerNotInterested` does not clear `stats.isInterested` (`peer/manager.go:336`), from
  which a round makes its "list of interested peers" (l.124). A peer that has unchoked us gets a
  "Bonus" (l.78) but, by l.154, is never unchoked.
- `toRead` is computed and not used (`download/manager.go:867`), so that a file of the wrong size shifts the rest of the
  piece; the upload's `ReadPiece` gets this right.
- `GetBlock` of the download manager fails for a block that lies in two files ("not supported", l.965), that of the
  upload manager returns zeros for every torrent of several files (`upload/manager.go:167`, "[Implement code here]"), and
  `WritePieceToDisk` refuses such a torrent (l.427).
- `GetAllRemainingBlocks` takes the last piece for a full one (l.597), so its last request goes past the end.
  `CalculateNumberOfBlocks` rounds down in all other pieces (l.1044). `BlocksTile` says these are the only differences.
- After a completion by flagging whose piece does not verify, `GetBlock` panics (l.1011), in a reader's goroutine.
- `CloseSAM` during a running torrent leaves `GlobalSAM` nil if the new session cannot be made, and the next lookup
  dereferences it; if it can, listeners stay on the old session, where `Accept` fails in a loop (`connection.go:476`). Reopening the SAM
  tab shows "Disconnected" (`gui.go:1082`) whatever the state.
- `addTorrent` and Remove send on `uiUpdateChan` with `torrentListLock` held. If the processor is then in the
  closure of an earlier `addTorrent`, it waits for that lock in `OnSelected`, and the window is dead (`Wedged`);
  `gui.go:336` says "Refresh the UI on the main thread". `HangsOnlyWedged` says that there is no other way to hang.
- The closure of `addTorrent` appends to `torrentList` (`gui.go:635`) without the lock that l.633 and 642 take and release around
  the send. If Remove has the list loaded at the same time, one of the two changes is lost, in a window that goes on working: with [A] in the list, the closure loads it, Remove stores the
  empty list, the closure stores [A, B] - the removed A is listed again, and if Remove's `Set` (l.333) comes last, `Select` finds
  no such row in the binding and returns without the lock. Or Remove stores last, and B, whose goroutines run, is in no list. `ListIsTrue` says that
  this is the only way (`raced`).
- `gui.go:319` says "Cancel the torrent's context to stop all associated goroutines": the listener goroutine (l.677) and the choking goroutines
  of both peer managers (`peer/manager.go:59`) do not know the context and run on.
- The ticker's goroutine ends only when the torrent is removed, and its last closure does nothing for a removed torrent: the
  notifications of `gui.go:655` and `668` are never shown. `Status` goes back to "Downloading" a second after
  a finished torrent was set to "Seeding" (721 after 775).
- Closing the window closes `uiUpdateChan` (297) while goroutines still send, which panics.

## 4. Properties

Beside a type invariant per module:

- `BitfieldVerified`, `DiskVerified`: only hashed pieces get a bit, are written, or are announced.
- `UniqueCompleter`: two readers never verify or write the same piece.
- `DownloadedCounts`: `dm.Downloaded` counts each block once.
- `WedgedForever`: a piece that failed its hash stays failed. This is what the code does, and
  it is the reason why a torrent cannot recover from one bad block.
- `ImplementsLedger`: the refinement.
- `ReceivedReachesDisk`, `HandlersReturn`: progress of `OnBlock` (that `GetBlock` may never return is what `self_deadlock` shows).
- `PendingExact`, `NeverAskedTwice`, `AskedForWhatPeerHas`, `NeverIdles`, `Downloads`: requests.
- `BlocksTile`, `DiskRight`, `ReadsAreRight`: bytes are requested once, put in their place and found there.
- `ListedWhileHandled`, `ReaderEndsFirst`, `OpenIsHeld`, `ConnectedOnce`, `CancelEndsAll`,
  `AttemptsEnd`, `EndsWithReader`: connections.
- `TrackerOpenIsHeld`, `ImplementsPeersGoroutine`, `PeersAsPromised`: trackers, and what the window is told.
- `StatsNeverNil`, `UnchokesOnlyInterested`: rounds.
- `ListedAreOpen`, `UploadedCounts`, `ServedStayUnchoked`: serving.
- `ListIsTrue`, `HangsOnlyWedged`, `RemovedEnds`: the window.

Each has at least one mutant of a mapped definition (a helper kept next to it, such as
`StoreBlockTwice`) that violates it under the same configuration.

## 5. Fairness

- `DownloadManager`: weak fairness of each goroutine's handler. Go's scheduler runs what can
  run, and `sync.Mutex` hands over to the longest waiter in starvation mode. Nothing is assumed
  of peers: no message needs to arrive. Requests are left out of `progress` because
  `self_deadlock` shows what they do.
- `PeerRequests`: the reader runs; a peer that stays connected answers what reaches it and does not
  keep us choked for ever, since it was told Interested at the start. The last two are assumptions about peers, and `Downloads` allows the
  connection to end instead, as it does when a Request cannot be sent.
- `TorrentPeers`: goroutines run; a tracker has 15 s and each read of its answer 5 s; a peer's lookup and dial have a
  timeout of 30 s, the handshake one of 15 s, reads one of 1 s, so their steps come. The lookup of a tracker has no timeout, and
  the SAM bridge is assumed to answer it. The `RetryConnect`s that are only counted end when they are cancelled, as
  `CancelEndsAll` says of the one that is modelled. Neither cancellation nor the end of a tracker's dial is forced.
  `CancelEndsAll` thus assumes that the handler of a message and `RemovePeer` return, which the deadlock of `self_deadlock` can prevent.
- `Gui`: goroutines run, and a send that waits is received once the processor is free for good (the channel
  serves its senders in order). Strong fairness for the end of the context against the ticker, since Go's select draws
  among the ready cases. Nothing is assumed of the user.
- `PeerManager`, `UploadManager`, `Seeder` and `PieceLayout` have safety properties only.

## 6. Proofs

Every invariant that a run checks is proved to hold for every value of the constants, and so are five of the
action properties and refinements. Each component has a module `...Proofs` that extends it; no theorem
rests on anything but the named assumptions of the modules:

| Assumption | Says |
|---|---|
| `NothingAssumption`, `PieceAssumption`, `EnvironmentAssumption` of `DownloadManager` | the two "nothing" values are no values; finitely many blocks, every piece has one; the environment's constants have their types |
| `SizeAssumption` of `PeerRequests` | there are pieces and blocks, the limit is positive, chokes are a number |
| `BlockSizeAssumption`, `MissingAssumption`, `TorrentsAssumption` of `PieceLayout` | lengths are positive; a missing file is not a file; the files of a torrent add up to its length |
| `RetryAssumption` of `PeerConnection`, `PeersAssumption` of `TorrentPeers` | there are attempts, trackers and room for a connection; an answer has finitely many peers |
| `SlotAssumption` of `PeerManager`, `SizeAssumption` of `UploadManager` | no peer is nobody, peers and connections are finitely many, slots and sizes are positive |
| `GuiAssumption` of `Gui` | no torrent is none, and there is a tracker |

| Module | Theorem | States |
|---|---|---|
| `DownloadManagerProofs` | `TypeCorrect`, `Invariance` | `TypeOK`, `IInv` |
| | `VerifiedBeforeUse`, `VerifiedOnDisk` | `BitfieldVerified`, `DiskVerified` |
| | `OneCompleter`, `CountsOnce` | `UniqueCompleter`, `DownloadedCounts` |
| | `FailedForever`, `Implementation` | `WedgedForever`, `ImplementsLedger` |
| `PeerRequestsProofs` | `TypeCorrect`, `Invariance` | `TypeOK`, `IInv` |
| | `OnlyWhatPeerHas`, `AskedOnce` | `AskedForWhatPeerHas`, `NeverAskedTwice` |
| | `PendingIsExact`, `PipelineNeverIdles` | `PendingExact`, `NeverIdles` |
| `PieceLayoutProofs` | `Invariance` | `IInv` |
| | `RequestsCoverPieces`, `PiecesInPlace`, `ReadersAreRight` | `BlocksTile`, `DiskRight`, `ReadsAreRight` |
| `PeerConnectionProofs` | `Invariance` | `IInv`, of a connection by itself |
| `TorrentPeersProofs` | `PeersTypeCorrect`, `PeersInvariance` | `PeersTypeOK`, `PeersInv` |
| | `ListedExactly`, `ReaderFirst`, `NeverReconnects` | `ListedWhileHandled`, `ReaderEndsFirst`, `ConnectedOnce` |
| | `PeerConnectionsHeld`, `TrackerConnectionsHeld` | `OpenIsHeld`, `TrackerOpenIsHeld` |
| | `PeersImplementation` | `ImplementsPeersGoroutine` |
| `PeerManagerProofs` | `TypeCorrect`, `Invariance` | `TypeOK`, `IInv` |
| | `NeverNil`, `OnlyInterested` | `StatsNeverNil`, `UnchokesOnlyInterested` |
| `SeederProofs` | `SeederTypeCorrect`, `SeederInvariance` | `SeederTypeOK`, `SeederInv` |
| | `ListedConnectionsOpen`, `CountsAgree`, `NeverChokedWhileServed` | `ListedAreOpen`, `UploadedCounts`, `ServedStayUnchoked` |
| `GuiProofs` | `TypeCorrect`, `Invariance` | `TypeOK`, `IInv` |
| | `ListKept`, `WindowImplementation` | `ListIsTrue`, `PeersAsPromised` |

In each module one lemma says that the initial states satisfy the inductive invariant and one, with a step for every action,
that the actions keep it. Few of the properties are inductive by themselves. What each invariant adds, and why:

**DownloadManager.** A goroutine that is about to set a bit could, as far as `BitfieldVerified` knows, be about to set the bit
of a bad piece. `IInv` adds

1. `DataIsFlagged`: a block with data is flagged, so that the duplicate test protects data;
2. `Stages`: a reader at "verify" works on a complete piece, and one past it on a verified piece;
3. `Vouched`: also the byte a reader has loaded, and will store back, holds only bits of
   verified pieces.

`Stages` has to survive the steps of the other readers. It does because of `StepGrows`: no step
clears a flag or changes the data of a flagged block, hence (`VerifiedIsStable`) what
`VerifyPiece` once found is never undone, with or without a lock. `UniqueCompleter` follows
because only the step that stores the last missing block enters "verify", and no other reader
can be there while a block is missing. `DownloadedCounts` uses finiteness of `Block`.
`Implementation` maps each step: a store of a new block is `Receive`, the write is `Persist`
(the piece is verified by `Stages`), `BroadcastHave` and `FinishPiece` are `Announce` or stutter, the
rest stutters.

**PeerRequests.** The properties speak of sets and counts, the actions of heads and tails of two streams, so `IInv` says what is
at every position: `HeardIsTrue` (what the peer announces it has), `InFlightIsMarked` (a request or an answer is of a marked
block), `InFlightOnce` (no block at two positions), `NotChokedYet` (before the first choke, a peer that has not unchoked us was
asked nothing), `Counted`. `NeverAskedTwice` holds across chokes because a mark is taken away by the answer only. `PipelineNeverIdles` has an induction of its own, beside `IInv`: what could make
a block eligible is a Have, which is remembered in `unscanned`, or an answer, after which the loop runs again; a block that another connection
brings can only take eligible ones away (`LessToAsk`).

**PieceLayout.** First the arithmetic, for every block size and torrent (`PiecesFollow`, `BlocksFollow`, `OffsetInPiece`,
`RequestsTile`): pieces follow each other up to the torrent's end, blocks up to the piece's. `CompleteDataIsPiece` says that the blocks, one after the other, are the piece. `Placed` is where
everything written is, `AsFound` what the files of others hold. `AtFile` is the loop invariant of the readers: at
file `k` the offset is where the file begins, and what was put together is a prefix of what is sought, for the download's
`ReadPiece` only while no file has a wrong size. The recursive functions (`Begins`, and `FlattenSeq` of the community modules)
are not known to exist until that is proved: `Recursion` does so once, and induction is by the least number at which something fails (`LeastNumber`, `UpTo`).

**PeerConnection, TorrentPeers.** `IInv` says, from where `RetryConnect` is, whether there can be a reader
(`ReaderAfterGreeting`), that a wait is followed by an attempt (`MoreToTry`), that the done signal is the last of a reader (`DoneMeansEnded`), who may have
statistics (`StatsWhileHandled`), and that a handler which returned without a cancellation heard from its reader (`ReturnedMeansEnded`).
`ConnectionSteps` shows that every step of `TorrentPeers` is one of `PeerConnection` or leaves it alone, which carries `IInv` over; `SearchInv` is the search's
own part. `PeersImplementation` needs `ResultIsTrue`: "cancelled" is returned only when the torrent was removed, and "found" when there are peers.

**PeerManager.** `StatsNeverNil` is inductive. `UnchokesOnlyInterested` needs `OnlyAdded`, since a peer could otherwise have been unchoked before it
was added, and `FlagIsRecorded`, since `HandleSeeding` goes by another flag than the rounds.

**Seeder.** Seen from `UploadManager`, a step of `Seeder` is one of its steps or none; so lists and counts are proved of that module
(`ServingInv`). `ListsFollow` says from `pc` which lists a connection is in, `RoomToSend` that the bound of the model leaves room for a block in hand.
The blocks sent are numbered pairs, so that a sum over connections is a cardinality. `ServedStayUnchoked` comes from `PeerChoked = Conn`, which makes every
round's choking a no-operation.

**Gui.** `ListIsTrue` does not carry itself, because both writers store a list they loaded earlier. `ClosureGood` says that what the closure has loaded is
still the list and that its torrent was not removed, `RemoveGood` that what Remove will store is the list without the selected torrent, which is removed and
listed. That needs `ListGood` (each torrent once, so that deleting its first place deletes it: `Deletion`), `SelectionListed`, and `RemovedStarted`, since only a torrent
that was started can be listed. All this is claimed until `raced`; `TypeOK` and `StartedOnce` hold after it as well.

Only model-checked: liveness (`ReceivedReachesDisk`, `HandlersReturn`, `Downloads`,
`CancelEndsAll`, `AttemptsEnd`, `EndsWithReader`, `HangsOnlyWedged`, `RemovedEnds`), since neither fairness nor ENABLED is in
the prover's reach. The proofs are of the specifications without their fairness, and hold with it.
The four runs of section 3 that end in a violation are counterexamples and have nothing to prove.

## 7. What is not modelled

- `GetNextBlock`, `GetPiece`, `FinalizeDownload`, `reserveBlock` and their like, the sending of
  the endgame's requests, `reRequestPendingBlocks`, `HandlePieceRequests`, `Serve`, the upload manager's `Shutdown`
  and `BroadcastHave`, `checkPostmanTrackerResponse`, the `DownloadHandler` and the
  statistics: no code outside tests calls them. (`GetAllRemainingBlocks`, `CalculateNumberOfBlocks` and
  `PeerManager.Shutdown`, of which that is true as well, are modelled, since their arithmetic or their lock is
  shared with what runs.)
- The values of bytes and hashes: data is good or bad, a byte is its offset. Wire formats, bencode and SAM are in
  libraries that are not part of the repository (go-i2p-bt, sam3), modelled from their use where a
  mapped definition says "external".
- Scores and rates of the choking rounds: any order.
- The listener goroutine as it outlives its torrent, and `TorrentItem.Status`: nothing that is modelled reads them. (What the listener does is `Seeder`.)
- `RequestPending`, which nothing sets to true.
- The SAM session: three globals that are set and closed. What a session then does is sam3's, and the failures it
  causes are failures of lookups and dials in `TrackerSearch` and `PeerConnection`. The SAM tab, the chart, layout and drawing of the
  GUI have no state that others read. Utilities, commands, mocks and the benchmark have no state of interest.

## 8. Plan

In order:

1. `TorrentNode`: `DownloadManager` and `UploadManager` over one file, with the file variables of the latter driven
   by the former, shown to implement `UploadManager`'s view of the file.
2. Proofs of the same composition: that the file of `UploadManager` is one that `DownloadManager` writes, from `Stages` and `DiskVerified`.
