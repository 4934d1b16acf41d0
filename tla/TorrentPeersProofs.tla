-------------------------- MODULE TorrentPeersProofs ---------------------------
(***************************************************************************)
(* The peers goroutine for every number of trackers, peers, connections and    *)
(* attempts.  Each step of TorrentPeers is one of PeerConnection or leaves it    *)
(* alone, so the invariant of the connection carries over; the search has one     *)
(* of its own; and with both every step is shown to be one of PeersGoroutine.     *)
(***************************************************************************)
EXTENDS TorrentPeers, PeerConnectionProofs, FiniteSetTheorems

\* What GetAllPeers returns says what it got, and why it stopped.
ResultIsTrue ==
    /\ search = "cancelled" => cancelled
    /\ search = "nothing" => allPeers = {}
    /\ search = "found" => allPeers # {}

\* The part of the invariant that is about the search.
SearchInv == T!TypeOK /\ ResultIsTrue /\ TrackerOpenIsHeld

\* The part that is about the goroutine itself.
GoroutineInv ==
    /\ phase \in {"trackers", "error", "connect", "done", "ended"}
    /\ others \in 0 .. maxConnections - 1

PeersInv == IInv /\ SearchInv /\ GoroutineInv
--------------------------------------------------------------------------------
\* Of the connection, a step of the peers goroutine is a step or nothing.
LEMMA ConnectionSteps ==
    ASSUME [PeersNext]_allVars
    PROVE  [Next]_vars
BY DEF PeersNext, allVars, vars, connVars, dial, Next, SearchStep, SearchExpires,
       TrackerDialReturns, SearchReturns, Connect, ReaderRuns, PeerDialReturns, TickerStops,
       OtherReturns, ConnectionsEnd, Report, RemoveTorrent,
       T!GetAllPeers, T!Ask, T!Lookup, T!Dialed, T!Request, T!Read, T!Parse, T!Pause,
       T!Expire, T!DialReturns

\* Of the search too, except that the torrent may be removed at any moment.
LEMMA SearchSteps ==
    ASSUME [PeersNext]_allVars
    PROVE  \/ T!Next
           \/ UNCHANGED searchVars /\ cancelled' \in {cancelled, TRUE}
<1>1. CASE SearchStep \/ SearchExpires \/ \E k \in T!Tracker : TrackerDialReturns(k)
  BY <1>1 DEF SearchStep, SearchExpires, TrackerDialReturns, T!Next
<1>2. CASE \/ SearchReturns
           \/ OtherReturns
           \/ ConnectionsEnd
           \/ Report
           \/ UNCHANGED allVars
  BY <1>2 DEF SearchReturns, OtherReturns, ConnectionsEnd, Report, allVars, vars
<1>3. CASE \/ Connect
           \/ ReaderRuns
           \/ \E a \in Attempt : PeerDialReturns(a)
           \/ TickerStops
  BY <1>3 DEF Connect, ReaderRuns, PeerDialReturns, TickerStops, Main, Reader, TryAttempt,
     Delay, Lookup, Connected, PerformHandshake, Register, Greet, StartTicker, EndConnection,
     ReaderLoop, ReadMsg, HandleMessage, ReaderCloses, SignalDone, DialReturns, StopTicker
<1>4. CASE RemoveTorrent
  BY <1>4 DEF RemoveTorrent, Cancel
<1> QED
  BY <1>1, <1>2, <1>3, <1>4 DEF PeersNext
--------------------------------------------------------------------------------
(* The search.                                                                *)

LEMMA SearchInit ==
    ASSUME PeersInit
    PROVE  SearchInv
<1>1. tracker \in T!Tracker
  BY PeersAssumption DEF PeersAssumption, PeersInit, T!Init, T!Tracker
<1>2. T!TypeOK
  BY <1>1 DEF PeersInit, T!Init, T!TypeOK
<1> QED
  BY <1>2 DEF PeersInit, T!Init, SearchInv, ResultIsTrue, TrackerOpenIsHeld, T!OpenIsHeld

\* One step per action of GetAllPeers.
LEMMA SearchInvStep ==
    ASSUME SearchInv, [PeersNext]_allVars
    PROVE  SearchInv'
<1> USE PeersAssumption
    DEF PeersAssumption, SearchInv, T!TypeOK, T!Tracker, T!Results, ResultIsTrue,
        TrackerOpenIsHeld, T!OpenIsHeld, T!dial
<1>1. CASE T!Ask
  BY <1>1 DEF T!Ask
<1>2. CASE T!Lookup
  BY <1>2 DEF T!Lookup
<1>3. CASE T!Dialed
  BY <1>3 DEF T!Dialed
<1>4. CASE T!Request
  BY <1>4 DEF T!Request, T!Return
<1>5. CASE T!Read
  BY <1>5 DEF T!Read, T!Return
<1>6. CASE T!Parse
  BY <1>6 DEF T!Parse, T!Return
<1>7. CASE T!Pause
  BY <1>7 DEF T!Pause
<1>8. ASSUME NEW k \in T!Tracker, T!DialReturns(k)
      PROVE  SearchInv'
  BY <1>8 DEF T!DialReturns
<1>9. CASE T!Expire
  BY <1>9 DEF T!Expire
<1>10. CASE UNCHANGED searchVars /\ cancelled' \in {cancelled, TRUE}
  BY <1>10 DEF searchVars
<1> QED
  BY <1>1, <1>2, <1>3, <1>4, <1>5, <1>6, <1>7, <1>8, <1>9, <1>10, SearchSteps
     DEF T!Next, T!GetAllPeers
--------------------------------------------------------------------------------
(* The goroutine.                                                             *)

\* When the search found somebody there is at least one connection to make.
LEMMA NumConnectionsType ==
    ASSUME SearchInv, search = "found"
    PROVE  NumConnections \in 1 .. maxConnections
<1>1. IsFiniteSet(allPeers) /\ allPeers # {}
  BY PeersAssumption, FS_Subset DEF PeersAssumption, SearchInv, T!TypeOK, ResultIsTrue
<1>2. Cardinality(allPeers) \in Nat \ {0}
  BY <1>1, FS_CardinalityType, FS_EmptySet
<1> QED
  BY <1>2, PeersAssumption DEF PeersAssumption, NumConnections

LEMMA GoroutineInvStep ==
    ASSUME SearchInv, GoroutineInv, [PeersNext]_allVars
    PROVE  GoroutineInv'
<1> USE PeersAssumption DEF PeersAssumption, GoroutineInv
<1>1. CASE SearchReturns
  BY <1>1, NumConnectionsType DEF SearchReturns
<1>2. CASE OtherReturns
  BY <1>2 DEF OtherReturns
<1>3. CASE ConnectionsEnd \/ Report
  BY <1>3 DEF ConnectionsEnd, Report
<1>4. CASE UNCHANGED <<phase, others>>
  BY <1>4
<1> QED
  BY <1>1, <1>2, <1>3, <1>4
     DEF PeersNext, SearchStep, SearchExpires, TrackerDialReturns, Connect, ReaderRuns,
         PeerDialReturns, TickerStops, RemoveTorrent, allVars

\* The peers goroutine keeps to the invariants of its parts.
THEOREM PeersInvariance == PeersSpec => []PeersInv
<1>1. PeersInit => PeersInv
  BY IInvInit, SearchInit, PeersAssumption DEF PeersAssumption, PeersInit, PeersInv, GoroutineInv
<1>2. PeersInv /\ [PeersNext]_allVars => PeersInv'
  BY ConnectionSteps, IInvStep, SearchInvStep, GoroutineInvStep DEF PeersInv
<1> QED
  BY <1>1, <1>2, PTL DEF PeersSpec
--------------------------------------------------------------------------------
(* What the runs check of the peers goroutine.                                 *)

\* Every variable stays in its range.
THEOREM PeersTypeCorrect == PeersSpec => []PeersTypeOK
<1>1. PeersInv => PeersTypeOK
  BY DEF PeersInv, IInv, SearchInv, GoroutineInv, PeersTypeOK
<1> QED
  BY <1>1, PeersInvariance, PTL

\* The peer is in the lists of both managers exactly while it is handled.
THEOREM ListedExactly == PeersSpec => []ListedWhileHandled
<1>1. PeersInv => ListedWhileHandled
  BY DEF PeersInv, IInv
<1> QED
  BY <1>1, PeersInvariance, PTL

\* Unless the torrent was removed, a reader and its statistics end first.
THEOREM ReaderFirst == PeersSpec => []ReaderEndsFirst
<1>1. PeersInv => ReaderEndsFirst
  BY IInvSuffices DEF PeersInv
<1> QED
  BY <1>1, PeersInvariance, PTL

\* No connection to a peer is lost that somebody was given.
THEOREM PeerConnectionsHeld == PeersSpec => []OpenIsHeld
<1>1. PeersInv => OpenIsHeld
  BY DEF PeersInv, IInv
<1> QED
  BY <1>1, PeersInvariance, PTL

\* Nor one to a tracker.
THEOREM TrackerConnectionsHeld == PeersSpec => []TrackerOpenIsHeld
<1>1. PeersInv => TrackerOpenIsHeld
  BY DEF PeersInv, SearchInv
<1> QED
  BY <1>1, PeersInvariance, PTL

\* A connection that was up is never made again.
THEOREM NeverReconnects == PeersSpec => ConnectedOnce
<1>1. PeersInv /\ [PeersNext]_allVars => [reader # "none" => attempt' = attempt]_vars
  BY ConnectionSteps, ConnectedOnceStep DEF PeersInv
<1> QED
  BY <1>1, PeersInvariance, PTL DEF PeersSpec, ConnectedOnce
--------------------------------------------------------------------------------
(* TorrentPeers implements PeersGoroutine.                                     *)

\* The refinement mapping: how many trackers are done with, and whether any gave
\* peers, while the search lasts.
askedNow == IF phase = "trackers" THEN T!Asked ELSE 0
foundNow == phase = "trackers" /\ allPeers # {}

LEMMA PromisedInit ==
    ASSUME PeersInit
    PROVE  Promised!Init
<1>1. askedNow = 0
  BY DEF PeersInit, T!Init, T!Asked, askedNow
<1>2. foundNow = FALSE
  BY DEF PeersInit, T!Init, foundNow
<1> QED
  BY <1>1, <1>2 DEF PeersInit, Init, Promised!Init, askedNow, foundNow

\* While a tracker is being asked nothing is seen of it; when it is done with, the
\* count goes up, and with an answer peers may be found.
LEMMA SearchImplements ==
    ASSUME PeersInv, SearchStep
    PROVE  Promised!Ask \/ UNCHANGED Promised!vars
<1> USE DEF PeersInv, SearchInv, T!TypeOK, T!Tracker, T!Results
<1>1. phase = "trackers" /\ phase' = "trackers" /\ cancelled' = cancelled
  BY DEF SearchStep, T!GetAllPeers, T!Ask, T!Lookup, T!Dialed, T!Request, T!Read, T!Parse,
     T!Pause
<1>2. allPeers \subseteq allPeers'
  BY DEF SearchStep, T!GetAllPeers, T!Ask, T!Lookup, T!Dialed, T!Request, T!Read, T!Parse,
     T!Pause
<1>3. foundNow' \in {foundNow, TRUE}
  BY <1>1, <1>2 DEF foundNow
<1>4. \/ askedNow' = askedNow /\ allPeers' = allPeers
      \/ askedNow < NumTrackers /\ askedNow' = askedNow + 1
  <2>1. \/ T!Asked' = T!Asked /\ allPeers' = allPeers
        \/ T!Asked < NumTrackers /\ T!Asked' = T!Asked + 1
    <3> USE PeersAssumption DEF PeersAssumption, T!Asked
    <3>1. CASE T!Ask
      BY <3>1 DEF T!Ask
    <3>2. CASE T!Lookup
      BY <3>2 DEF T!Lookup
    <3>3. CASE T!Dialed
      BY <3>3 DEF T!Dialed
    <3>4. CASE T!Request
      BY <3>4 DEF T!Request, T!Return
    <3>5. CASE T!Read
      BY <3>5 DEF T!Read, T!Return
    <3>6. CASE T!Parse
      BY <3>6 DEF T!Parse, T!Return
    <3>7. CASE T!Pause
      BY <3>7 DEF T!Pause
    <3> QED
      BY <3>1, <3>2, <3>3, <3>4, <3>5, <3>6, <3>7 DEF SearchStep, T!GetAllPeers
  <2> QED
    BY <1>1, <2>1 DEF askedNow
<1>5. CASE askedNow' = askedNow /\ allPeers' = allPeers
  <2>1. foundNow' = foundNow
    BY <1>1, <1>5 DEF foundNow
  <2> QED
    BY <1>1, <1>5, <2>1 DEF Promised!vars, askedNow, foundNow
<1>6. CASE askedNow < NumTrackers /\ askedNow' = askedNow + 1
  BY <1>1, <1>3, <1>6 DEF Promised!Ask, askedNow, foundNow
<1> QED
  BY <1>4, <1>5, <1>6

\* The end of the search, and what it says.
LEMMA SearchReturnsImplements ==
    ASSUME PeersInv, SearchReturns
    PROVE  Promised!GiveUp \/ Promised!SearchEnds
<1> USE PeersAssumption
    DEF PeersAssumption, PeersInv, SearchInv, T!TypeOK, T!Tracker, T!Results, ResultIsTrue
<1>1. phase = "trackers" /\ phase' \in {"ended", "error", "connect"}
      /\ cancelled' = cancelled
  BY DEF SearchReturns, vars
<1>2. askedNow' = 0 /\ foundNow' = FALSE
  BY <1>1 DEF askedNow, foundNow
<1>3. CASE search = "cancelled"
  <2>1. askedNow < NumTrackers
    BY <1>1, <1>3 DEF askedNow, T!Asked
  <2>2. cancelled /\ phase' = "ended"
    BY <1>3 DEF SearchReturns
  <2> QED
    BY <1>1, <1>2, <2>1, <2>2 DEF Promised!GiveUp, Promised!Go, askedNow, foundNow
<1>4. CASE search \in {"nothing", "found"}
  <2>1. askedNow = NumTrackers
    BY <1>1, <1>4 DEF askedNow, T!Asked
  <2>2. phase' = IF foundNow THEN "connect" ELSE "error"
    BY <1>1, <1>4 DEF SearchReturns, foundNow
  <2> QED
    BY <1>1, <1>2, <2>1, <2>2 DEF Promised!SearchEnds, Promised!Go, askedNow, foundNow
<1> QED
  BY <1>3, <1>4 DEF SearchReturns

\* Each step of the peers goroutine is a step of PeersGoroutine or none.
LEMMA PromisedStep ==
    ASSUME PeersInv, [PeersNext]_allVars
    PROVE  [Promised!Next]_(Promised!vars)
<1>1. CASE SearchStep
  BY <1>1, SearchImplements DEF Promised!Next
<1>2. CASE SearchReturns
  BY <1>2, SearchReturnsImplements DEF Promised!Next
<1>3. CASE ConnectionsEnd
  BY <1>3
     DEF ConnectionsEnd, vars, Promised!Next, Promised!ConnectionsEnd, Promised!Go
<1>4. CASE Report
  BY <1>4 DEF Report, vars, Promised!Next, Promised!Report, Promised!Go
<1>5. CASE RemoveTorrent
  BY <1>5 DEF RemoveTorrent, Cancel, searchVars, T!Asked, Promised!Next, Promised!Cancel
<1>6. CASE UNCHANGED <<cancelled, phase, search, tracker, allPeers>>
  BY <1>6 DEF Promised!vars, T!Asked
<1>7. ASSUME SearchExpires \/ (\E k \in T!Tracker : TrackerDialReturns(k)) \/ OtherReturns
             \/ UNCHANGED allVars
      PROVE  UNCHANGED <<cancelled, phase, search, tracker, allPeers>>
  BY <1>7 DEF SearchExpires, TrackerDialReturns, OtherReturns, T!Expire, T!DialReturns,
     allVars, vars, searchVars
<1>8. ASSUME Connect \/ ReaderRuns \/ (\E a \in Attempt : PeerDialReturns(a)) \/ TickerStops
      PROVE  UNCHANGED <<cancelled, phase, search, tracker, allPeers>>
  BY <1>8 DEF Connect, ReaderRuns, PeerDialReturns, TickerStops, searchVars, Main, Reader,
     TryAttempt, Delay, Lookup, Connected, PerformHandshake, Register, Greet, StartTicker,
     EndConnection, ReaderLoop, ReadMsg, HandleMessage, ReaderCloses, SignalDone,
     DialReturns, StopTicker
<1> QED
  BY <1>1, <1>2, <1>3, <1>4, <1>5, <1>6, <1>7, <1>8 DEF PeersNext

\* The peers goroutine is what the window takes it for: it asks each tracker once,
\* ends silently only when the torrent is removed, and has one thing to report.
THEOREM PeersImplementation == PeersSpec => ImplementsPeersGoroutine
<1>1. PeersInit => Promised!Init
  BY PromisedInit
<1>2. PeersInv /\ [PeersNext]_allVars => [Promised!Next]_(Promised!vars)
  BY PromisedStep
<1> QED
  BY <1>1, <1>2, PeersInvariance, PTL
     DEF PeersSpec, ImplementsPeersGoroutine, Promised!Implemented
================================================================================
