----------------------------- MODULE TorrentPeers ------------------------------
(***************************************************************************)
(* The peers goroutine of a torrent (addTorrent in lib/gui/gui.go): the search  *)
(* of TrackerSearch, then RetryConnect for each peer found, at most              *)
(* maxConnections of them, and the wait for all.  PeerConnection is the          *)
(* RetryConnect of one of those peers; of the others, which go through the same, *)
(* only their number is kept.                                                  *)
(***************************************************************************)
EXTENDS PeerConnection

CONSTANTS
    NumTrackers,
    Peer,
    maxConnections    \* from the settings, at least 1

ASSUME PeersAssumption ==
    /\ NumTrackers \in Nat \ {0}
    /\ maxConnections \in Nat \ {0}
    /\ IsFiniteSet(Peer)

VARIABLES
    phase,       \* where the peers goroutine is
    others,      \* RetryConnects that have not returned, beside PeerConnection's
    search, tracker, expired, trackerDialing, trackerDialed, trackerOpen,
    allPeers     \* all as in TrackerSearch

searchVars == <<search, tracker, expired, trackerDialing, trackerDialed, trackerOpen, allPeers>>
connVars == <<main, attempt, dial, open, listed, stats, reader, ticker>>
allVars == <<vars, searchVars, phase, others>>

T == INSTANCE TrackerSearch WITH
        dialing <- trackerDialing, dialed <- trackerDialed, open <- trackerOpen

PeersInit ==
    /\ Init
    /\ T!Init
    /\ phase = "trackers"
    /\ others = 0
--------------------------------------------------------------------------------
SearchStep ==
    /\ phase = "trackers"
    /\ T!GetAllPeers
    /\ UNCHANGED <<connVars, phase, others>>

SearchExpires == T!Expire /\ UNCHANGED <<connVars, phase, others>>

\* A dial that was given up lives on after the search.
TrackerDialReturns(k) == T!DialReturns(k) /\ UNCHANGED <<connVars, phase, others>>

\* The peers to connect to: no peer twice, no more than the limit.
NumConnections ==
    IF Cardinality(allPeers) < maxConnections THEN Cardinality(allPeers) ELSE maxConnections

\* Every error is reported.
SearchReturnsReporting ==
    /\ phase = "trackers"
    /\ search \in T!Results
    /\ phase' = IF search = "found" THEN "connect" ELSE "error"
    /\ others' = IF search = "found" THEN NumConnections - 1 ELSE 0
    /\ UNCHANGED <<vars, searchVars>>

\* GetAllPeers has returned: context.Canceled is not reported, another error is;
\* or the RetryConnects are started.
SearchReturns ==
    /\ phase = "trackers"
    /\ \/ search = "cancelled" /\ phase' = "ended" /\ UNCHANGED others
       \/ search = "nothing" /\ phase' = "error" /\ UNCHANGED others
       \/ search = "found" /\ phase' = "connect" /\ others' = NumConnections - 1
    /\ UNCHANGED <<vars, searchVars>>

\* Connecting begins when the search has ended.
Connect == phase = "connect" /\ Main /\ UNCHANGED <<searchVars, phase, others>>

ReaderRuns == Reader /\ UNCHANGED <<searchVars, phase, others>>

PeerDialReturns(a) == DialReturns(a) /\ UNCHANGED <<searchVars, phase, others>>

TickerStops == StopTicker /\ UNCHANGED <<searchVars, phase, others>>

OtherReturns ==
    /\ others > 0
    /\ others' = others - 1
    /\ UNCHANGED <<vars, searchVars, phase>>

\* wg.Wait.
ConnectionsEnd ==
    /\ phase = "connect"
    /\ main = "returned"
    /\ others = 0
    /\ phase' = "done"
    /\ UNCHANGED <<vars, searchVars, others>>

\* The processor of uiUpdateChan has taken the closure.
Report ==
    /\ phase \in {"error", "done"}
    /\ phase' = "ended"
    /\ UNCHANGED <<vars, searchVars, others>>

RemoveTorrent == Cancel /\ UNCHANGED <<searchVars, phase, others>>

PeersNext ==
    \/ SearchStep
    \/ SearchExpires
    \/ \E k \in T!Tracker : TrackerDialReturns(k)
    \/ SearchReturns
    \/ Connect
    \/ ReaderRuns
    \/ \E a \in Attempt : PeerDialReturns(a)
    \/ TickerStops
    \/ OtherReturns
    \/ ConnectionsEnd
    \/ Report
    \/ RemoveTorrent

PeersSpec == PeersInit /\ [][PeersNext]_allVars

\* Goroutines are scheduled, and every wait has a timeout: 15 s for a tracker and
\* 5 s for each read, 30 s for a peer's lookup and dial, 15 s for the handshake, the
\* delay, a second for ReadMsg.  The SAM bridge answers the lookup of a tracker,
\* which has none.  The other RetryConnects end when they are cancelled, as
\* CancelEndsAll says of this one.  Neither cancellation nor the end of a tracker's
\* dial is forced.
PeersFairness ==
    /\ WF_allVars(SearchStep)
    /\ WF_allVars(SearchExpires)
    /\ WF_allVars(SearchReturns)
    /\ WF_allVars(Connect)
    /\ WF_allVars(ReaderRuns)
    /\ WF_allVars(TickerStops)
    /\ \A a \in Attempt : WF_allVars(PeerDialReturns(a))
    /\ WF_allVars(cancelled /\ OtherReturns)
    /\ WF_allVars(ConnectionsEnd)

PeersFairSpec == PeersSpec /\ PeersFairness
--------------------------------------------------------------------------------
\* Every variable stays in its range.
PeersTypeOK ==
    /\ TypeOK
    /\ T!TypeOK
    /\ phase \in {"trackers", "error", "connect", "done", "ended"}
    /\ others \in 0 .. maxConnections - 1

\* A connection to a tracker is open only while the search is getting its answer,
\* unless it came out of a dial that had been given up.
TrackerOpenIsHeld == T!OpenIsHeld

\* Removing the torrent ends the search, the connection, its reader and its ticker,
\* from whatever point they have got to.
CancelEndsAll ==
    cancelled ~> /\ phase \in {"error", "done", "ended"}
                 /\ main \in {"retry", "returned"}
                 /\ reader \in {"none", "ended"}
                 /\ ticker \in {"none", "ended"}

\* Looking for peers and connecting come to an end: nobody is found, or the peer is
\* reached, or given up.
AttemptsEnd == <>(phase \in {"error", "ended"} \/ main \in {"select", "returned"})

\* A reader that is still there when HandlePeerConnection has come to its select is
\* not missed when it ends: the peer leaves the lists.
EndsWithReader ==
    [](main = "select" /\ reader # "ended" => [](reader = "ended" => <>(main = "returned")))

\* The peers goroutine is what Gui takes it for.
Promised == INSTANCE PeersGoroutine WITH
    peers <- phase,
    asked <- IF phase = "trackers" THEN T!Asked ELSE 0,
    found <- phase = "trackers" /\ allPeers # {}

ImplementsPeersGoroutine == Promised!Implemented
================================================================================
