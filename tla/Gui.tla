---------------------------------- MODULE Gui ----------------------------------
(***************************************************************************)
(* The goroutines of the window (lib/gui/gui.go): the window's event          *)
(* goroutine, on which every button and list callback runs; the processor      *)
(* that runs the closures sent on the unbuffered uiUpdateChan; and, for each    *)
(* torrent, the goroutine with the progress ticker and the one that asks the    *)
(* trackers (lib/tracker/tracker.go) and waits for the connections.             *)
(*                                                                           *)
(* torrentListLock is held across steps only by the event goroutine, while it   *)
(* waits in addTorrent or Remove for the processor (LockHeld) and between the   *)
(* load and the store of the list in Remove: the closure that appends to the    *)
(* list takes no lock, and loads and stores it in between.  Sections under      *)
(* torrent.mu are part of the step they are in.  What the widget shows (the      *)
(* binding's list and the row it has selected) is left out: wherever it decides, *)
(* both outcomes are steps.  The listener of addTorrent (l.677) has no context   *)
(* and shares no state with these goroutines: it is not here, and runs on.       *)
(***************************************************************************)
EXTENDS Naturals, Sequences, SequencesExt

CONSTANTS
    Torrent,     \* the torrent files the user may add, each once
    NoTorrent,   \* nil
    NumTrackers  \* len(trackerFuncs): 7 in the code

ASSUME GuiAssumption ==
    /\ NoTorrent \notin Torrent
    /\ NumTrackers \in Nat \ {0}

VARIABLES
    process,    \* "running"; "closing" once the channel is closed; "ended" or "panicked"
    events,     \* the event goroutine: "idle", or what it waits to send
    adding,     \* the torrent of the addTorrent it is in
    processor,  \* "receive", or where the closure of addTorrent has got to
    copy,       \* the list that closure has loaded, and its torrent
    row,        \* the row it selects, from 1; 0 when it has not come to that
    kept,       \* what Remove has made of the list it loaded, until it stores it
    torrentList,
    selectedTorrent,
    removed,    \* the torrents whose removed flag is set and whose context is cancelled
    ticker,     \* each torrent's progress goroutine
    peers,      \* each torrent's peers goroutine
    asked,      \* how many trackers GetAllPeers has asked
    found,      \* the torrents for which it got peers
    logs,       \* updateLogsContent: "sleep", or "send" with logFileMux held
    raced       \* (history) Remove and the closure have both had a list loaded

lists == <<kept, torrentList, selectedTorrent, removed, raced>>
ui == <<processor, copy, row>>
search == <<asked, found>>
vars == <<process, events, adding, ui, lists, ticker, peers, search, logs>>

Init ==
    /\ process = "running"
    /\ events = "idle"
    /\ adding = NoTorrent
    /\ processor = "receive"
    /\ copy = [list |-> <<>>, torrent |-> NoTorrent]
    /\ row = 0
    /\ kept = <<>>
    /\ torrentList = <<>>
    /\ selectedTorrent = NoTorrent
    /\ removed = {}
    /\ ticker = [t \in Torrent |-> "none"]
    /\ peers = [t \in Torrent |-> "none"]
    /\ asked = [t \in Torrent |-> 0]
    /\ found = {}
    /\ logs = "sleep"
    /\ raced = FALSE

\* The lock taken at the top of addTorrent, so that errors are sent inside it.
LockHeldToo == events \in {"add", "delete", "remove", "error"}

\* torrentListLock is held: addTorrent and Remove send inside it.
LockHeld == events \in {"add", "delete", "remove"}
--------------------------------------------------------------------------------
\* The event goroutine.

\* addTorrent cannot load, parse or place the torrent: the error is sent.
FailToAdd ==
    /\ process = "running"
    /\ events = "idle"
    /\ events' = "error"
    /\ UNCHANGED <<process, adding, ui, lists, ticker, peers, search, logs>>

\* addTorrent takes the lock and comes to the send of the closure.
AddTorrent(t) ==
    /\ process = "running"
    /\ events = "idle"
    /\ ticker[t] = "none"
    /\ events' = "add"
    /\ adding' = t
    /\ UNCHANGED <<process, ui, lists, ticker, peers, search, logs>>

\* An array whose element i is deleted in place: those after it move up by one, and
\* the last one is still there.
MoveUp(list, i) ==
    [j \in DOMAIN list |-> IF i <= j /\ j < Len(list) THEN list[j + 1] ELSE list[j]]

\* append(list[:i], list[i+1:]...), i the first place of torrent t.
FirstAt(list, t) == CHOOSE i \in DOMAIN list :
    list[i] = t /\ \A j \in DOMAIN list : list[j] = t => i <= j
Without(list, t) == SubSeq(MoveUp(list, FirstAt(list, t)), 1, Len(list) - 1)

\* The Remove button, lock taken: flag, context, and the list is loaded and what stays
\* of it worked out.  With nothing selected, or not in the list, there is only a send.
RemoveTorrent ==
    /\ process = "running"
    /\ events = "idle"
    /\ removed' = removed \cup ({selectedTorrent} \ {NoTorrent})
    /\ IF selectedTorrent \in ToSet(torrentList)
         THEN /\ kept' = Without(torrentList, selectedTorrent)
              /\ events' = "delete"
              /\ raced' = (raced \/ processor = "store")
              /\ UNCHANGED selectedTorrent
         ELSE /\ events' = "remove"
              /\ selectedTorrent' = NoTorrent
              /\ UNCHANGED <<kept, raced>>
    /\ UNCHANGED <<process, adding, ui, torrentList, ticker, peers, search, logs>>

\* A store after which the removed torrent stays selected.
StoreShorterSelected ==
    /\ process = "running"
    /\ events = "delete"
    /\ torrentList' = kept
    /\ kept' = <<>>
    /\ events' = "remove"
    /\ UNCHANGED <<process, adding, ui, selectedTorrent, removed, raced, ticker, peers,
                   search, logs>>

\* Remove stores its list and goes on to send with the lock held.  The elements were
\* moved in the array, which a list the closure has loaded shares if the closure has not
\* copied it to a larger one before.
StoreShorter ==
    /\ process = "running"
    /\ events = "delete"
    /\ torrentList' = kept
    /\ kept' = <<>>
    /\ \/ UNCHANGED copy
       \/ /\ processor = "store"
          /\ copy' = [copy EXCEPT !.list = MoveUp(@, FirstAt(@, selectedTorrent))]
    /\ selectedTorrent' = NoTorrent
    /\ events' = "remove"
    /\ UNCHANGED <<process, adding, processor, row, removed, raced, ticker, peers, search,
                   logs>>

\* A click: torrentListView.OnSelected on this goroutine.  The widget may show one row
\* too many, whose click selects nothing.
Click(i) ==
    /\ process = "running"
    /\ events = "idle"
    /\ selectedTorrent' = IF i \in DOMAIN torrentList THEN torrentList[i] ELSE NoTorrent
    /\ UNCHANGED <<process, events, adding, ui, kept, torrentList, removed, raced, ticker,
                   peers, search, logs>>

\* SetOnClosed: logFileMux is taken and released, the channel is closed.
CloseWindow ==
    /\ process = "running"
    /\ events = "idle"
    /\ logs = "sleep"
    /\ process' = "closing"
    /\ UNCHANGED <<events, adding, ui, lists, ticker, peers, search, logs>>
--------------------------------------------------------------------------------
\* The processor takes the closure of a goroutine that waits at its send.

Receives == process = "running" /\ processor = "receive"

\* The closure of addTorrent is handed over: the event goroutine unlocks and starts
\* the torrent's goroutines, while the processor is about to read the list.
ReceiveAdd ==
    /\ Receives
    /\ events = "add"
    /\ processor' = "load"
    /\ copy' = [copy EXCEPT !.torrent = adding]
    /\ events' = "idle"
    /\ adding' = NoTorrent
    /\ ticker' = [ticker EXCEPT ![adding] = "wait"]
    /\ peers' = [peers EXCEPT ![adding] = "trackers"]
    /\ UNCHANGED <<process, row, lists, search, logs>>

\* An append to torrentList without a lock: load ...
LoadList ==
    /\ processor = "load"
    /\ copy' = [copy EXCEPT !.list = torrentList]
    /\ raced' = (raced \/ events = "delete")
    /\ processor' = "store"
    /\ UNCHANGED <<process, events, adding, row, kept, torrentList, selectedTorrent, removed,
                   ticker, peers, search, logs>>

\* ... and store.
StoreList ==
    /\ processor = "store"
    /\ torrentList' = Append(copy.list, copy.torrent)
    /\ copy' = [list |-> <<>>, torrent |-> NoTorrent]
    /\ processor' = "choose"
    /\ UNCHANGED <<process, events, adding, row, kept, selectedTorrent, removed, raced,
                   ticker, peers, search, logs>>

\* torrentListView.Select with the last row the list has by now.  The widget calls
\* OnSelected unless there is no such row, it is selected already, or the binding has
\* fewer.
ChooseRow ==
    /\ processor = "choose"
    /\ \/ processor' = "receive" /\ UNCHANGED row
       \/ torrentList # <<>> /\ processor' = "select" /\ row' = Len(torrentList)
    /\ UNCHANGED <<process, events, adding, copy, lists, ticker, peers, search, logs>>

\* OnSelected takes torrentListLock; its row may be past the end of the list by now.
OnSelected ==
    /\ processor = "select"
    /\ ~LockHeld
    /\ selectedTorrent' = IF row \in DOMAIN torrentList THEN torrentList[row] ELSE NoTorrent
    /\ processor' = "receive"
    /\ row' = 0
    /\ UNCHANGED <<process, events, adding, copy, kept, torrentList, removed, raced, ticker,
                   peers, search, logs>>

\* The closures of Remove, of an error and of updateLogsContent touch widgets only.
ReceiveNotice ==
    /\ Receives
    /\ events \in {"remove", "error"}
    /\ events' = "idle"
    /\ UNCHANGED <<process, adding, ui, lists, ticker, peers, search, logs>>

ReceiveLogs ==
    /\ Receives
    /\ logs = "send"
    /\ logs' = "sleep"
    /\ UNCHANGED <<process, events, adding, ui, lists, ticker, peers, search>>

\* The ticker's, when "break" leaves the select and not the loop.
ReceiveTickerLooping(t) ==
    /\ Receives
    /\ ticker[t] \in {"tick", "leave"}
    /\ ticker' = [ticker EXCEPT ![t] = "wait"]
    /\ UNCHANGED <<process, events, adding, ui, lists, peers, search, logs>>

\* Those of the ticker goroutine refresh, or notify when the torrent is still there.
ReceiveTicker(t) ==
    /\ Receives
    /\ ticker[t] \in {"tick", "leave"}
    /\ ticker' = [ticker EXCEPT ![t] = IF @ = "tick" THEN "wait" ELSE "ended"]
    /\ UNCHANGED <<process, events, adding, ui, lists, peers, search, logs>>

\* Those of the peers goroutine show an error, or what became of the download.
ReceivePeers(t) ==
    /\ Receives
    /\ peers[t] \in {"error", "done"}
    /\ peers' = [peers EXCEPT ![t] = "ended"]
    /\ UNCHANGED <<process, events, adding, ui, lists, ticker, search, logs>>

\* The channel is closed and the processor's loop ends: so does the program.
EndProcessor ==
    /\ processor = "receive"
    /\ process = "closing"
    /\ process' = "ended"
    /\ UNCHANGED <<events, adding, ui, lists, ticker, peers, search, logs>>
--------------------------------------------------------------------------------
\* The goroutines of a torrent, and updateLogsContent.

\* A second: the numbers are set, then the refresh is sent.
Tick(t) ==
    /\ ticker[t] = "wait"
    /\ ticker' = [ticker EXCEPT ![t] = "tick"]
    /\ UNCHANGED <<process, events, adding, ui, lists, peers, search, logs>>

\* The context is done: the deferred function sends.
StopTicker(t) ==
    /\ ticker[t] = "wait"
    /\ t \in removed
    /\ ticker' = [ticker EXCEPT ![t] = "leave"]
    /\ UNCHANGED <<process, events, adding, ui, lists, peers, search, logs>>

\* GetAllPeers returns, and with it goes what it knew.
Forget(t) ==
    /\ asked' = [asked EXCEPT ![t] = 0]
    /\ found' = found \ {t}

\* A loop with one tracker too many.
AskTrackerOnceMore(t) ==
    /\ peers[t] = "trackers"
    /\ asked[t] <= NumTrackers
    /\ asked' = [asked EXCEPT ![t] = @ + 1]
    /\ found' \in {found, found \cup {t}}
    /\ UNCHANGED <<process, events, adding, ui, lists, ticker, peers, logs>>

\* GetAllPeers: the context is looked at before each tracker.
AskTracker(t) ==
    /\ peers[t] = "trackers"
    /\ asked[t] < NumTrackers
    /\ IF t \in removed
         THEN /\ peers' = [peers EXCEPT ![t] = "ended"]
              /\ Forget(t)
         ELSE /\ asked' = [asked EXCEPT ![t] = @ + 1]
              /\ found' \in {found, found \cup {t}}
              /\ UNCHANGED peers
    /\ UNCHANGED <<process, events, adding, ui, lists, ticker, logs>>

\* A search that returns an empty list without an error.
GetAllPeersEmpty(t) ==
    /\ peers[t] = "trackers"
    /\ asked[t] = NumTrackers
    /\ peers' = [peers EXCEPT ![t] = "connect"]
    /\ Forget(t)
    /\ UNCHANGED <<process, events, adding, ui, lists, ticker, logs>>

\* It returns what it found, or an error.
GetAllPeers(t) ==
    /\ peers[t] = "trackers"
    /\ asked[t] = NumTrackers
    /\ peers' = [peers EXCEPT ![t] = IF t \in found THEN "connect" ELSE "error"]
    /\ Forget(t)
    /\ UNCHANGED <<process, events, adding, ui, lists, ticker, logs>>

\* wg.Wait: every RetryConnect has returned (PeerConnection).
ConnectionsEnd(t) ==
    /\ peers[t] = "connect"
    /\ peers' = [peers EXCEPT ![t] = "done"]
    /\ UNCHANGED <<process, events, adding, ui, lists, ticker, search, logs>>

\* There are new log lines: logFileMux is held through the send.
UpdateLogs ==
    /\ logs = "sleep"
    /\ logs' = "send"
    /\ UNCHANGED <<process, events, adding, ui, lists, ticker, peers, search>>

\* A send on the closed channel, also one that already waited, panics.
SendOnClosed ==
    /\ process = "closing"
    /\ \/ logs = "send"
       \/ \E t \in Torrent : ticker[t] \in {"tick", "leave"} \/ peers[t] \in {"error", "done"}
    /\ process' = "panicked"
    /\ UNCHANGED <<events, adding, ui, lists, ticker, peers, search, logs>>

Processor ==
    \/ ReceiveAdd
    \/ LoadList
    \/ StoreList
    \/ ChooseRow
    \/ OnSelected
    \/ ReceiveNotice
    \/ ReceiveLogs
    \/ \E t \in Torrent : ReceiveTicker(t) \/ ReceivePeers(t)
    \/ EndProcessor

Events ==
    \/ FailToAdd
    \/ \E t \in Torrent : AddTorrent(t)
    \/ RemoveTorrent
    \/ StoreShorter
    \/ \E i \in 1 .. Len(torrentList) + 1 : Click(i)
    \/ CloseWindow

Goroutine(t) ==
    \/ Tick(t)
    \/ StopTicker(t)
    \/ AskTracker(t)
    \/ GetAllPeers(t)
    \/ ConnectionsEnd(t)

Next ==
    /\ process \in {"running", "closing"}
    /\ \/ Processor
       \/ Events
       \/ \E t \in Torrent : Goroutine(t)
       \/ UpdateLogs
       \/ SendOnClosed

Spec == Init /\ [][Next]_vars

\* Goroutines are scheduled; those that wait to send on one channel are served in
\* their order, and select draws among the cases that are ready, hence strong
\* fairness for the context against the ticker.  Trackers answer within 15 s,
\* connections end when their context does (PeerConnection); the user need do
\* nothing.
Fairness ==
    /\ WF_vars(LoadList \/ StoreList \/ ChooseRow \/ OnSelected)
    /\ WF_vars(StoreShorter)
    /\ WF_vars(ReceiveAdd \/ ReceiveNotice)
    /\ \A t \in Torrent :
          /\ WF_vars(ReceiveTicker(t))
          /\ WF_vars(ReceivePeers(t))
          /\ SF_vars(StopTicker(t))
          /\ WF_vars(AskTracker(t) \/ GetAllPeers(t))
          /\ WF_vars(t \in removed /\ ConnectionsEnd(t))

FairSpec == Spec /\ Fairness
--------------------------------------------------------------------------------
\* Every variable stays in its range.
TypeOK ==
    /\ process \in {"running", "closing", "ended", "panicked"}
    /\ events \in {"idle", "add", "delete", "remove", "error"}
    /\ adding \in Torrent \cup {NoTorrent}
    /\ processor \in {"receive", "load", "store", "choose", "select"}
    /\ copy \in [list : Seq(Torrent), torrent : Torrent \cup {NoTorrent}]
    /\ row \in Nat
    /\ kept \in Seq(Torrent) /\ torrentList \in Seq(Torrent)
    /\ selectedTorrent \in Torrent \cup {NoTorrent}
    /\ removed \subseteq Torrent /\ found \subseteq Torrent
    /\ ticker \in [Torrent -> {"none", "wait", "tick", "leave", "ended"}]
    /\ peers \in [Torrent -> {"none", "trackers", "error", "connect", "done", "ended"}]
    /\ asked \in [Torrent -> 0 .. NumTrackers]
    /\ logs \in {"sleep", "send"} /\ raced \in BOOLEAN

\* The event goroutine waits, lock in hand, for the processor, which waits for
\* the lock: the window is dead.
Wedged == events \in {"add", "remove"} /\ processor = "select"

\* The torrents whose closure has run as far as the store of the list, and those whose
\* removal has.
Added == {t \in Torrent : ticker[t] # "none"} \ {copy.torrent}
Deleted == IF events = "delete" THEN removed \ {selectedTorrent} ELSE removed

\* The list is what was added and not removed, each torrent once, and the selection is in
\* it, so that Remove always cancels a listed torrent - although addTorrent's closure
\* appends without the lock.  There is one exception, which the code does not exclude:
\* Remove and the closure both have a list loaded, and the later store wins.
ListIsTrue ==
    \/ raced
    \/ /\ ToSet(torrentList) = Added \ Deleted
       /\ IsInjective(torrentList)
       /\ selectedTorrent # NoTorrent => selectedTorrent \in ToSet(torrentList)

\* The event goroutine hangs in no other way than that one: every other send of
\* addTorrent and Remove is received.
HangsOnlyWedged ==
    [](events # "idle" => <>(events = "idle" \/ Wedged \/ process # "running"))

\* Of a removed torrent the progress goroutine and the peers goroutine, which watch its
\* context, end, unless the window is dead or closed.  (Its listener does not: it has no
\* context.)
RemovedEnds ==
    \A t \in Torrent :
        t \in removed ~> \/ ticker[t] = "ended" /\ peers[t] = "ended"
                         \/ Wedged \/ process # "running"

P(t) == INSTANCE PeersGoroutine WITH
    cancelled <- t \in removed, peers <- peers[t], asked <- asked[t], found <- t \in found

\* The peers goroutine of every torrent behaves, seen from the window, as
\* TorrentPeers shows the real one to behave: one question per tracker, silence
\* after a cancelled search, one report at the end of everything else.
PeersAsPromised ==
    /\ \A t \in Torrent : P(t)!Init
    /\ [][\A t \in Torrent : P(t)!Next \/ UNCHANGED P(t)!vars]_vars
================================================================================
