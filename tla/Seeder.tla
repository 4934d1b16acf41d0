--------------------------------- MODULE Seeder ---------------------------------
(***************************************************************************)
(* StartPeerListener as it runs: the connections of UploadManager over the     *)
(* PeerManager the listener makes for them with NewPeerManager(nil).  There is  *)
(* no download behind it, so no round gets to the seeding slots, but its ticker  *)
(* goroutine runs all the same, over books that HandleSeedingPeer keeps only in  *)
(* part: a peer enters pm.Peers without AddPeer and leaves it without            *)
(* RemovePeer, so the statistics, the interest and the optimistic slot of a       *)
(* connection outlive it, and later rounds hand slots to what is closed.          *)
(***************************************************************************)
EXTENDS UploadManager

CONSTANTS
    NoPeer,         \* nil
    maxUnchoked     \* 4 in the code

VARIABLES
    phase,          \* the part of a round that is next; pm.Mu is held unless "idle"
    isInterested,   \* the peers whose stats.isInterested is true
    PeerInterested, \* the peers whose pc.PeerInterested is true
    PeerChoked,     \* the peers whose pc.PeerChoked is true
    optimistic,     \* pm.optimisticPeer
    unchoked        \* the peers whose last word from us was Unchoke

slots == <<phase, isInterested, PeerInterested, PeerChoked, optimistic, unchoked>>

\* NewPeerManager(nil): the listener's peer manager has no download.
downloadManagers == {}

pm == INSTANCE PeerManager WITH
    Peer <- Conn,
    maxSeedingUnchoked <- 8,
    MayFinish <- FALSE,
    conn <- [c \in Conn |-> IF pc[c] = "new" THEN "new" ELSE "up"],
    Peers <- pmPeers,
    stats <- peerStats,
    finished <- downloadManagers # {}

SeederInit == Init /\ pm!Init
--------------------------------------------------------------------------------
\* The steps of a connection that leave the peer manager alone.
OwnStep(c) ==
    /\ \/ Accept(c)
       \/ ReadFails(c)
       \/ \E b \in Block : GetBlock(c, b)
       \/ SendPiece(c)
       \/ CountUpload(c)
       \/ \E p \in Piece : HandleHave(c, p)
       \/ \E bits \in {{}, Piece} : HandleBitField(c, bits)
       \/ RemovePeer(c)
       \/ CloseConn(c)
    /\ UNCHANGED slots

\* pm.Peers is written under pm.Mu, at the beginning and at the end.
List(c) ==
    /\ pm!Free
    /\ Register(c) \/ Unregister(c)
    /\ UNCHANGED slots

\* The handler unchokes whoever it serves, outside any round.
GreetUnchoking(c) ==
    /\ Greet(c)
    /\ unchoked' = IF pc'[c] = "read" THEN unchoked \cup {c} ELSE unchoked
    /\ UNCHANGED <<phase, isInterested, PeerInterested, PeerChoked, optimistic>>

Interested(c) == OnPeerInterested(c) /\ pm!OnPeerInterested(c)

NotInterested(c) ==
    /\ pc[c] = "read"
    /\ UNCHANGED vars
    /\ pm!OnPeerNotInterested(c)

Upload(c) == UpdatePeerStats(c) /\ pm!UpdatePeerStats(c)

\* A handler that followed the peer's Unchoke, as handleMessage does.
IgnoreUnlessUnchoke(c) ==
    /\ pc[c] = "read"
    /\ UNCHANGED vars
    /\ pm!PeerUnchokesUs(c)

\* Choke, Unchoke and all other messages are only logged.
Ignore(c) ==
    /\ pc[c] = "read"
    /\ UNCHANGED <<vars, slots>>

\* runChokingAlgorithm.
Round == UNCHANGED vars /\ pm!Round

Download ==
    /\ \E p \in Piece : StartWrite(p) \/ EndWrite(p)
    /\ UNCHANGED slots

SeederNext ==
    \/ Download
    \/ Round
    \/ \E c \in Conn :
          \/ OwnStep(c)
          \/ List(c)
          \/ GreetUnchoking(c)
          \/ Interested(c)
          \/ NotInterested(c)
          \/ Upload(c)
          \/ Ignore(c)

SeederSpec == SeederInit /\ [][SeederNext]_<<vars, slots>>
--------------------------------------------------------------------------------
\* Both parts stay in their ranges, and the rounds find statistics for whoever
\* they list, although only Interested and an upload make any.
SeederTypeOK ==
    /\ TypeOK
    /\ phase \in {"idle", "optimistic", "seeding"}
    /\ {isInterested, PeerInterested, PeerChoked, unchoked} \subseteq SUBSET Conn
    /\ isInterested \cup ({optimistic} \ {NoPeer}) \subseteq peerStats

\* A peer that is served was told so and never told otherwise: however many of
\* its slots a round gives to closed connections, and whatever the peer says of
\* its interest, no Choke reaches a connection whose requests are answered.
ServedStayUnchoked ==
    \A c \in Conn : pc[c] \in {"read", "send", "count", "stats"} => c \in unchoked
================================================================================
