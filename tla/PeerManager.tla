------------------------------ MODULE PeerManager ------------------------------
(***************************************************************************)
(* Choking and unchoking (lib/peer/manager.go) for the connections of one     *)
(* download: the ticker goroutine runChokingAlgorithm, which holds pm.Mu over  *)
(* a whole round, the reader goroutines of the connections, and the tickers    *)
(* that call HandleSeeding once the download is finished.                      *)
(*                                                                           *)
(* pc.PeerChoked is written by a reader without pm.Mu (message_handler.go,     *)
(* l.96 and l.110), so also in the middle of a round; the three parts of a     *)
(* round, which read it once per peer each, are therefore three steps.         *)
(* Scores and rates are floating-point numbers that depend on the clock: a      *)
(* sort may produce any order.                                                  *)
(***************************************************************************)
EXTENDS Naturals, FiniteSets, FiniteSetsExt

CONSTANTS
    Peer,              \* the connections (*pp.PeerConn)
    NoPeer,            \* nil
    maxUnchoked,       \* 4 in the code
    maxSeedingUnchoked,\* 8 in the code
    MayFinish          \* whether the download may get finished

ASSUME SlotAssumption ==
    /\ NoPeer \notin Peer
    /\ IsFiniteSet(Peer)
    /\ maxUnchoked \in Nat \ {0}
    /\ maxSeedingUnchoked \in Nat \ {0}
    /\ MayFinish \in BOOLEAN

optimisticSlots == 1

VARIABLES
    phase,          \* "idle", the part of a round that is next (pm.Mu held), "shutdown"
    conn,           \* each connection: "new", "up", or "left" (RemovePeer called)
    Peers,          \* the keys of pm.Peers
    stats,          \* the keys of pm.peerStats
    isInterested,   \* the peers whose stats.isInterested is true
    PeerInterested, \* the peers whose pc.PeerInterested is true
    PeerChoked,     \* the peers whose pc.PeerChoked is true
    optimistic,     \* pm.optimisticPeer
    finished,       \* dm.IsFinished
    unchoked        \* the peers whose last word from us was Unchoke

books == <<Peers, stats, isInterested, PeerInterested, optimistic>>
vars == <<phase, conn, books, PeerChoked, finished, unchoked>>

Init ==
    /\ phase = "idle"
    /\ conn = [p \in Peer |-> "new"]
    /\ Peers = {}
    /\ stats = {}
    /\ isInterested = {}
    /\ PeerInterested = {}
    /\ PeerChoked = Peer
    /\ optimistic = NoPeer
    /\ finished = FALSE
    /\ unchoked = {}
--------------------------------------------------------------------------------
\* A round of runChokingAlgorithm.

\* The peers that the first n of some order of the set may be.
FirstOf(set, n) == kSubset(IF Cardinality(set) < n THEN Cardinality(set) ELSE n, set)

\* What a loop sends: Unchoke to the first ones that PeerChoked, Choke to the
\* other ones that do not.
Send(first, rest) ==
    unchoked' = (unchoked \cup (first \cap PeerChoked)) \ (rest \ PeerChoked)

\* Regular slots, over the peers whose stats say they are interested.  The
\* optimistic peer takes no slot; when it sorts after the last slot it is treated
\* as the others there.
RegularSlots ==
    /\ phase = "idle"
    /\ \E first \in FirstOf(isInterested \ {optimistic}, maxUnchoked) :
          LET others == isInterested \ first
              rest == IF Cardinality(first) < maxUnchoked THEN {} ELSE others
          IN  \/ Send(first, rest)
              \/ Send(first, rest \ {optimistic})
    /\ phase' = "optimistic"
    /\ UNCHANGED <<conn, books, PeerChoked, finished>>

\* A draw that forgets to ask whether there is a candidate.
OptimisticSlotUnchecked ==
    /\ phase = "optimistic"
    /\ \E p \in Peer \cup {NoPeer} :
          /\ p = NoPeer <=> (isInterested \cap PeerChoked) \ {optimistic} = {}
          /\ optimistic' = p
          /\ unchoked' = unchoked \cup {p}
    /\ phase' = "seeding"
    /\ UNCHANGED <<conn, Peers, stats, isInterested, PeerInterested, PeerChoked,
                   finished>>

\* When the interval is over and there is a candidate, the optimistic peer is
\* choked and another is drawn.
OptimisticSlot ==
    /\ phase = "optimistic"
    /\ \/ UNCHANGED <<optimistic, unchoked>>
       \/ \E p \in (isInterested \cap PeerChoked) \ {optimistic} :
             /\ optimistic' = p
             /\ unchoked' = (unchoked \ ({optimistic} \ PeerChoked)) \cup {p}
    /\ phase' = "seeding"
    /\ UNCHANGED <<conn, Peers, stats, isInterested, PeerInterested, PeerChoked,
                   finished>>

\* handleSeedingMode, when the download is finished; pm.Mu is released.
SeedingSlots ==
    /\ phase = "seeding"
    /\ IF finished
         THEN \E first \in FirstOf(isInterested, maxSeedingUnchoked) :
                 Send(first, isInterested \ first)
         ELSE UNCHANGED unchoked
    /\ phase' = "idle"
    /\ UNCHANGED <<conn, books, PeerChoked, finished>>
--------------------------------------------------------------------------------
\* What the connections call, each under pm.Mu: between two rounds, or after the
\* goroutine of the rounds was shut down.

Free == phase \in {"idle", "shutdown"}

AddPeer(p) ==
    /\ Free
    /\ conn[p] = "new"
    /\ conn' = [conn EXCEPT ![p] = "up"]
    /\ Peers' = Peers \cup {p}
    /\ stats' = stats \cup {p}
    /\ UNCHANGED <<phase, isInterested, PeerInterested, optimistic, PeerChoked, finished,
                   unchoked>>

\* A removal that keeps the optimistic peer.
RemovePeerOnly(p) ==
    /\ Free
    /\ conn[p] = "up"
    /\ conn' = [conn EXCEPT ![p] = "left"]
    /\ Peers' = Peers \ {p}
    /\ stats' = stats \ {p}
    /\ isInterested' = isInterested \ {p}
    /\ UNCHANGED <<phase, PeerInterested, optimistic, PeerChoked, finished, unchoked>>

\* The stats go, and the interest they record with them.
RemovePeer(p) ==
    /\ Free
    /\ conn[p] = "up"
    /\ conn' = [conn EXCEPT ![p] = "left"]
    /\ Peers' = Peers \ {p}
    /\ stats' = stats \ {p}
    /\ isInterested' = isInterested \ {p}
    /\ optimistic' = IF optimistic = p THEN NoPeer ELSE optimistic
    /\ UNCHANGED <<phase, PeerInterested, PeerChoked, finished, unchoked>>

\* An Interested that sets only the flag of the connection.
OnPeerInterestedUnrecorded(p) ==
    /\ Free
    /\ conn[p] # "new"
    /\ stats' = stats \cup {p}
    /\ PeerInterested' = PeerInterested \cup {p}
    /\ unchoked' = IF finished /\ p \in PeerChoked THEN unchoked \cup {p} ELSE unchoked
    /\ UNCHANGED <<phase, conn, Peers, isInterested, optimistic, PeerChoked, finished>>

\* A reader handles Interested; it may be past RemovePeer when the torrent is
\* cancelled, and then makes new stats for the peer.
OnPeerInterested(p) ==
    /\ Free
    /\ conn[p] # "new"
    /\ stats' = stats \cup {p}
    /\ isInterested' = isInterested \cup {p}
    /\ PeerInterested' = PeerInterested \cup {p}
    /\ unchoked' = IF finished /\ p \in PeerChoked THEN unchoked \cup {p} ELSE unchoked
    /\ UNCHANGED <<phase, conn, Peers, optimistic, PeerChoked, finished>>

\* stats.isInterested stays as it is; an unknown peer is ignored.
OnPeerNotInterested(p) ==
    /\ Free
    /\ conn[p] # "new"
    /\ IF p \in Peers
         THEN /\ PeerInterested' = PeerInterested \ {p}
              /\ unchoked' = unchoked \ ({p} \ PeerChoked)
         ELSE UNCHANGED <<PeerInterested, unchoked>>
    /\ UNCHANGED <<phase, conn, Peers, stats, isInterested, optimistic, PeerChoked,
                   finished>>

\* A reader handles a block: stats are made when there are none.
UpdatePeerStats(p) ==
    /\ Free
    /\ conn[p] # "new"
    /\ stats' = stats \cup {p}
    /\ UNCHANGED <<phase, conn, Peers, isInterested, PeerInterested, optimistic,
                   PeerChoked, finished, unchoked>>

\* A reader handles Choke or Unchoke: pc.PeerChoked, with or without pm.Mu free.
\* What OnPeerChoke and OnPeerUnchoke keep under pm.Mu counts for scores only.
PeerChokesUs(p) ==
    /\ conn[p] # "new"
    /\ PeerChoked' = PeerChoked \cup {p}
    /\ UNCHANGED <<phase, conn, books, finished, unchoked>>

PeerUnchokesUs(p) ==
    /\ conn[p] # "new"
    /\ PeerChoked' = PeerChoked \ {p}
    /\ UNCHANGED <<phase, conn, books, finished, unchoked>>

\* HandleSeeding, from a connection's ticker once the download is finished; its
\* sort reads the stats of every peer it lists.
HandleSeeding ==
    LET peerList == Peers \cap PeerInterested
    IN  /\ Free
        /\ finished
        /\ \E first \in FirstOf(peerList, maxSeedingUnchoked) :
              Send(first, peerList \ first)
        /\ UNCHANGED <<phase, conn, books, PeerChoked, finished>>

\* The last piece gets its bit.
Finish ==
    /\ MayFinish
    /\ ~finished
    /\ finished' = TRUE
    /\ UNCHANGED <<phase, conn, books, PeerChoked, unchoked>>

\* Shutdown: the goroutine sees it between two rounds, and none follows.
Shutdown ==
    /\ phase = "idle"
    /\ phase' = "shutdown"
    /\ UNCHANGED <<conn, books, PeerChoked, finished, unchoked>>

Round == RegularSlots \/ OptimisticSlot \/ SeedingSlots

Next ==
    \/ Round
    \/ \E p \in Peer :
          \/ AddPeer(p)
          \/ RemovePeer(p)
          \/ OnPeerInterested(p)
          \/ OnPeerNotInterested(p)
          \/ UpdatePeerStats(p)
          \/ PeerChokesUs(p)
          \/ PeerUnchokesUs(p)
    \/ HandleSeeding
    \/ Shutdown
    \/ Finish

Spec == Init /\ [][Next]_vars
--------------------------------------------------------------------------------
\* Every variable stays in its range.
TypeOK ==
    /\ phase \in {"idle", "optimistic", "seeding", "shutdown"}
    /\ conn \in [Peer -> {"new", "up", "left"}]
    /\ {Peers, stats, isInterested, PeerInterested, PeerChoked, unchoked}
          \subseteq SUBSET Peer
    /\ optimistic \in Peer \cup {NoPeer}
    /\ finished \in BOOLEAN

\* The sorts of HandleSeeding and handleSeedingMode, and the rounds, dereference
\* pm.peerStats[peer]: whoever they may list has stats, also when a reader that
\* outlived RemovePeer still reports.
StatsNeverNil == Peers \cup isInterested \cup ({optimistic} \ {NoPeer}) \subseteq stats

\* A connected peer is unchoked only after it said Interested at least once,
\* whichever of the four places that unchoke got to it.
UnchokesOnlyInterested == unchoked \cap Peers \subseteq isInterested
--------------------------------------------------------------------------------
\* What the source says and the code does not do.

\* manager.go l.14 and l.15: "Maximum number of peers to unchoke normally" and
\* "Number of optimistic unchoke slots".
SlotsRespected ==
    ~finished => Cardinality(unchoked \cap Peers) <= maxUnchoked + optimisticSlots
================================================================================
