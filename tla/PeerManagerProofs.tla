--------------------------- MODULE PeerManagerProofs ---------------------------
(***************************************************************************)
(* PeerManager for every set of connections and every number of slots, and    *)
(* whatever order the sorts of a round yield.                                  *)
(*                                                                           *)
(* StatsNeverNil is inductive.  UnchokesOnlyInterested is not: a peer that is  *)
(* added could have been unchoked before, and HandleSeeding unchokes by         *)
(* pc.PeerInterested, another flag than the one the property is about.  IInv      *)
(* adds that nothing is known of a connection before AddPeer, and that of a       *)
(* listed peer the two flags cannot differ in the wrong direction.              *)
(***************************************************************************)
EXTENDS PeerManager, TLAPS

\* Nobody is interested, or was unchoked, before it was added.
OnlyAdded == \A p \in isInterested \cup PeerInterested \cup unchoked : conn[p] # "new"

\* What the connection's flag says of a listed peer, its statistics say too.
FlagIsRecorded == PeerInterested \cap Peers \subseteq isInterested

IInv ==
    /\ TypeOK
    /\ StatsNeverNil
    /\ UnchokesOnlyInterested
    /\ OnlyAdded
    /\ FlagIsRecorded
--------------------------------------------------------------------------------
\* Whatever order a sort yields, the first ones are some of those sorted.
LEMMA FirstOfSubset ==
    ASSUME NEW set, NEW n, NEW first \in FirstOf(set, n)
    PROVE  first \subseteq set
BY DEF FirstOf, kSubset

\* A loop unchokes some of the first ones and nobody else.
LEMMA SendUnchokes ==
    ASSUME NEW first, NEW rest, Send(first, rest)
    PROVE  unchoked' \subseteq unchoked \cup first
BY DEF Send

LEMMA IInvInit == Init => IInv
<1> SUFFICES ASSUME Init
             PROVE  IInv
  OBVIOUS
<1>1. TypeOK
  BY DEF Init, TypeOK
<1> QED
  BY <1>1
     DEF Init, IInv, StatsNeverNil, UnchokesOnlyInterested, OnlyAdded, FlagIsRecorded

\* The part of IInv that speaks of what we sent follows when only interested peers
\* were unchoked and the rest stays as it is.
LEMMA OnlyUnchokes ==
    ASSUME IInv, UNCHANGED <<conn, Peers, stats, isInterested, PeerInterested, finished>>,
           phase' \in {"idle", "optimistic", "seeding", "shutdown"},
           PeerChoked' \subseteq Peer,
           optimistic' \in {optimistic} \cup isInterested,
           unchoked' \subseteq unchoked \cup isInterested
    PROVE  IInv'
BY DEF IInv, TypeOK, StatsNeverNil, UnchokesOnlyInterested, OnlyAdded, FlagIsRecorded

\* One step per action.
LEMMA IInvStep ==
    ASSUME IInv, [Next]_vars
    PROVE  IInv'
<1> USE DEF IInv, TypeOK, StatsNeverNil, UnchokesOnlyInterested, OnlyAdded, FlagIsRecorded
<1>1. CASE RegularSlots
  <2>1. unchoked' \subseteq unchoked \cup isInterested
    BY <1>1, FirstOfSubset, SendUnchokes DEF RegularSlots
  <2> QED
    BY <1>1, <2>1, OnlyUnchokes DEF RegularSlots, books
<1>2. CASE OptimisticSlot
  BY <1>2, OnlyUnchokes DEF OptimisticSlot
<1>3. CASE SeedingSlots
  <2>1. unchoked' \subseteq unchoked \cup isInterested
    BY <1>3, FirstOfSubset, SendUnchokes DEF SeedingSlots
  <2> QED
    BY <1>3, <2>1, OnlyUnchokes DEF SeedingSlots, books
<1>4. ASSUME NEW p \in Peer, AddPeer(p)
      PROVE  IInv'
  BY <1>4 DEF AddPeer
<1>5. ASSUME NEW p \in Peer, RemovePeer(p)
      PROVE  IInv'
  BY <1>5 DEF RemovePeer
<1>6. ASSUME NEW p \in Peer, OnPeerInterested(p)
      PROVE  IInv'
  BY <1>6 DEF OnPeerInterested
<1>7. ASSUME NEW p \in Peer, OnPeerNotInterested(p)
      PROVE  IInv'
  BY <1>7 DEF OnPeerNotInterested
<1>8. ASSUME NEW p \in Peer, UpdatePeerStats(p)
      PROVE  IInv'
  BY <1>8 DEF UpdatePeerStats
<1>9. ASSUME NEW p \in Peer, PeerChokesUs(p) \/ PeerUnchokesUs(p)
      PROVE  IInv'
  BY <1>9, OnlyUnchokes DEF PeerChokesUs, PeerUnchokesUs, books
<1>10. CASE HandleSeeding
  \* The candidates are listed peers that said so, hence FlagIsRecorded.
  <2>1. unchoked' \subseteq unchoked \cup isInterested
    BY <1>10, FirstOfSubset, SendUnchokes DEF HandleSeeding
  <2> QED
    BY <1>10, <2>1, OnlyUnchokes DEF HandleSeeding, books
<1>11. CASE Shutdown
  BY <1>11, OnlyUnchokes DEF Shutdown, books
<1>12. CASE Finish
  BY <1>12 DEF Finish, books
<1>13. CASE UNCHANGED vars
  BY <1>13, OnlyUnchokes DEF vars, books
<1> QED
  BY <1>1, <1>2, <1>3, <1>4, <1>5, <1>6, <1>7, <1>8, <1>9, <1>10, <1>11, <1>12, <1>13
     DEF Next, Round

\* The books of the peer manager keep to IInv.
THEOREM Invariance == Spec => []IInv
<1>1. Init => IInv
  BY IInvInit
<1>2. IInv /\ [Next]_vars => IInv'
  BY IInvStep
<1> QED
  BY <1>1, <1>2, PTL DEF Spec

\* Every variable stays in its range.
THEOREM TypeCorrect == Spec => []TypeOK
<1>1. IInv => TypeOK
  BY DEF IInv
<1> QED
  BY <1>1, Invariance, PTL

\* No round and no HandleSeeding dereferences statistics that are not there.
THEOREM NeverNil == Spec => []StatsNeverNil
<1>1. IInv => StatsNeverNil
  BY DEF IInv
<1> QED
  BY <1>1, Invariance, PTL

\* No connected peer is unchoked that never said Interested.
THEOREM OnlyInterested == Spec => []UnchokesOnlyInterested
<1>1. IInv => UnchokesOnlyInterested
  BY DEF IInv
<1> QED
  BY <1>1, Invariance, PTL
================================================================================
