-------------------------- MODULE PeerRequestsProofs ---------------------------
(***************************************************************************)
(* The connection for every torrent, pipeline limit and number of chokes.  The  *)
(* three properties speak of what is in flight in two streams; the invariant     *)
(* below says of every position of the streams what is there: a request or an     *)
(* answer is of a marked block of the peer's, no block is at two positions,        *)
(* what the peer announces it has, and before its first choke a choking peer was    *)
(* asked nothing.                                                              *)
(***************************************************************************)
EXTENDS PeerRequests, FiniteSetTheorems, SequenceTheorems, TLAPS

\* The positions of the answers among the messages on their way to us.
Answers == {k \in DOMAIN toUs : toUs[k].type = "piece"}

\* What is announced is true, and we believe no more.
HeardIsTrue ==
    /\ BitField \subseteq peerHas
    /\ \A k \in DOMAIN toUs : /\ toUs[k].type = "bitfield" => toUs[k].arg \subseteq peerHas
                              /\ toUs[k].type = "have" => toUs[k].arg \in peerHas

\* What is in flight is marked and the peer has its piece.
InFlightIsMarked ==
    /\ \A i \in DOMAIN toPeer : toPeer[i] \in requested /\ toPeer[i][1] \in peerHas
    /\ \A k \in Answers : toUs[k].arg \in requested /\ toUs[k].arg[1] \in peerHas

\* No block is in flight at two places.
InFlightOnce ==
    /\ \A i, j \in DOMAIN toPeer : toPeer[i] = toPeer[j] => i = j
    /\ \A k, l \in Answers : toUs[k].arg = toUs[l].arg => k = l
    /\ \A i \in DOMAIN toPeer, k \in Answers : toPeer[i] # toUs[k].arg

\* Until the first choke none is on its way, and a peer that has not unchoked us yet
\* has been asked nothing.
NotChokedYet ==
    chokes = 0 =>
        /\ \A k \in DOMAIN toUs : toUs[k].type # "choke"
        /\ peerChoking =>
              /\ PeerChoked
              /\ reader \notin {"requesting", "failing"}
              /\ toPeer = <<>>
              /\ \A k \in DOMAIN toUs : toUs[k].type # "unchoke"

\* PendingExact by the blocks in flight, which each are there once.
Counted == chokes = 0 => pending = Cardinality(InFlight) /\ pending <= pipelineLimit

IInv ==
    /\ TypeOK
    /\ HeardIsTrue
    /\ InFlightIsMarked
    /\ InFlightOnce
    /\ NotChokedYet
    /\ Counted
--------------------------------------------------------------------------------
(* The block the scan finds.                                                  *)

\* A set of natural numbers that is not empty has a least element.
LEMMA LeastNumber ==
    ASSUME NEW T \in SUBSET Nat, T # {}
    PROVE  \E n \in T : \A m \in T : n <= m
<1> DEFINE less == {ss \in Nat \X Nat : ss[1] < ss[2]}
<1>1. IsWellFoundedOn(less, Nat)
  BY NatLessThanWellFounded, Zenon DEF OpToRel
<1>2. PICK n \in T : \A m \in T : <<m, n>> \notin less
  <2> HIDE DEF less
  <2> QED
    BY <1>1, WFMin
<1>3. \A m \in T : ~(m < n)
  <2> SUFFICES ASSUME NEW m \in T, m < n
               PROVE  FALSE
    OBVIOUS
  <2>1. <<m, n>> \in less
    OBVIOUS
  <2> QED
    BY <1>2, <2>1
<1> QED
  BY <1>3

\* The scan finds an eligible block when there is one.
LEMMA FirstEligibleExists ==
    ASSUME Eligible # {}
    PROVE  FirstEligible \in Eligible
<1> DEFINE firsts == {b[1] : b \in Eligible}
<1>1. Eligible \subseteq Nat \X Nat
  BY SizeAssumption DEF Eligible, Block, Piece
<1>2. PICK p \in firsts : \A q \in firsts : p <= q
  <2>1. firsts \in SUBSET Nat /\ firsts # {}
    BY <1>1
  <2> HIDE DEF firsts
  <2> QED
    BY <2>1, LeastNumber
<1> DEFINE seconds == {b[2] : b \in {e \in Eligible : e[1] = p}}
<1>3. PICK j \in seconds : \A k \in seconds : j <= k
  <2>1. seconds \in SUBSET Nat /\ seconds # {}
    BY <1>1
  <2> HIDE DEF firsts, seconds
  <2> QED
    BY <2>1, LeastNumber
<1>4. PICK b \in Eligible : b[1] = p /\ b[2] = j
  BY <1>3
<1>5. \A e \in Eligible : Before(b, e)
  BY <1>1, <1>2, <1>3, <1>4 DEF Before
<1> QED
  BY <1>5 DEF FirstEligible
--------------------------------------------------------------------------------
(* The two streams.                                                           *)

\* What is left of a sequence whose head was taken.
LEMMA Taken ==
    ASSUME NEW S, NEW s \in Seq(S), s # <<>>
    PROVE  /\ Tail(s) \in Seq(S)
           /\ 1 \in DOMAIN s /\ s[1] \in S /\ Head(s) = s[1]
           /\ \A k \in DOMAIN Tail(s) :
                 k \in Nat \ {0} /\ k + 1 \in DOMAIN s /\ Tail(s)[k] = s[k + 1]
           /\ \A k \in DOMAIN s :
                 k \in Nat /\ (k # 1 => k - 1 \in DOMAIN Tail(s) /\ Tail(s)[k - 1] = s[k])
<1>1. /\ Len(s) \in Nat \ {0} /\ DOMAIN s = 1 .. Len(s)
      /\ Tail(s) \in Seq(S) /\ Len(Tail(s)) = Len(s) - 1
      /\ \A i \in 1 .. Len(Tail(s)) : Tail(s)[i] = s[i + 1]
  BY HeadTailProperties, LenProperties, EmptySeq
<1>2. DOMAIN Tail(s) = 1 .. Len(s) - 1
  BY <1>1, LenProperties
<1>3. s[1] \in S /\ Head(s) = s[1]
  BY <1>1, ElementOfSeq
<1> QED
  BY <1>1, <1>2, <1>3

\* A sequence to which something was put.
LEMMA Put ==
    ASSUME NEW S, NEW s \in Seq(S), NEW e \in S
    PROVE  /\ Append(s, e) \in Seq(S)
           /\ DOMAIN Append(s, e) = DOMAIN s \cup {Len(s) + 1}
           /\ Len(s) + 1 \notin DOMAIN s
           /\ Append(s, e)[Len(s) + 1] = e
           /\ \A k \in DOMAIN s : Append(s, e)[k] = s[k]
<1>1. /\ Len(s) \in Nat /\ DOMAIN s = 1 .. Len(s)
      /\ Append(s, e) \in Seq(S) /\ Len(Append(s, e)) = Len(s) + 1
      /\ \A i \in 1 .. Len(s) : Append(s, e)[i] = s[i]
      /\ Append(s, e)[Len(s) + 1] = e
  BY AppendProperties, LenProperties
<1>2. DOMAIN Append(s, e) = 1 .. Len(s) + 1
  BY <1>1, LenProperties
<1> QED
  BY <1>1, <1>2

LEMMA Messages ==
    /\ \A m \in Message :
          /\ m.type \in {"bitfield", "have", "piece", "choke", "unchoke"}
          /\ m.type = "bitfield" => m.arg \subseteq Piece
          /\ m.type = "have" => m.arg \in Piece
          /\ m.type = "piece" => m.arg \in Block
    /\ \A bits \in SUBSET Piece : Msg("bitfield", bits) \in Message
    /\ \A p \in Piece : Msg("have", p) \in Message
    /\ \A b \in Block : Msg("piece", b) \in Message
    /\ \A type \in {"choke", "unchoke"} : Msg(type, {}) \in Message
BY DEF Message, Msg

LEMMA InFlightFinite ==
    ASSUME TypeOK
    PROVE  /\ InFlight \subseteq Block
           /\ IsFiniteSet(InFlight) /\ Cardinality(InFlight) \in Nat
<1>1. IsFiniteSet(Block)
  <2>1. IsFiniteSet(0 .. NumPieces - 1) /\ IsFiniteSet(0 .. BlocksPerPiece - 1)
    BY SizeAssumption, FS_Interval
  <2> QED
    BY <2>1, FS_Product DEF Block, Piece
<1>2. InFlight \subseteq Block
  <2>1. \A i \in DOMAIN toPeer : toPeer[i] \in Block
    BY ElementOfSeq, LenProperties DEF TypeOK
  <2>2. \A i \in DOMAIN toUs : toUs[i] \in Message
    BY ElementOfSeq, LenProperties DEF TypeOK
  <2> QED
    BY <2>1, <2>2, Messages DEF InFlight
<1> QED
  BY <1>1, <1>2, FS_Subset, FS_CardinalityType

\* The message the reader takes, and where the others are then.
LEMMA TakenMessage ==
    ASSUME TypeOK, NEW type, Receives(type)
    PROVE  /\ toUs' \in Seq(Message)
           /\ 1 \in DOMAIN toUs /\ toUs[1] \in Message /\ Head(toUs) = toUs[1]
           /\ toUs[1].type = type
           /\ \A k \in DOMAIN toUs' :
                 k \in Nat \ {0} /\ k + 1 \in DOMAIN toUs /\ toUs'[k] = toUs[k + 1]
           /\ \A k \in DOMAIN toUs :
                 k \in Nat /\ (k # 1 => k - 1 \in DOMAIN toUs' /\ toUs'[k - 1] = toUs[k])
BY Taken DEF TypeOK, Receives

\* A message that answers nothing leaves what is in flight as it is.
LEMMA TakesNoAnswer ==
    ASSUME IInv, NEW type, Receives(type), type # "piece",
           UNCHANGED <<requested, toPeer, peerHas>>
    PROVE  InFlight' = InFlight /\ InFlightIsMarked' /\ InFlightOnce'
<1>1. TypeOK /\ InFlightIsMarked /\ InFlightOnce
  BY DEF IInv
<1>2. \A k \in Answers' : k + 1 \in Answers /\ toUs'[k] = toUs[k + 1] /\ k \in Nat
  BY <1>1, TakenMessage DEF Answers
<1>3. \A k \in Answers : k - 1 \in Answers' /\ toUs'[k - 1] = toUs[k]
  BY <1>1, TakenMessage DEF Answers
<1>4. InFlight' = InFlight
  <2>1. {toUs'[k].arg : k \in Answers'} = {toUs[k].arg : k \in Answers}
    BY <1>2, <1>3
  <2> QED
    BY <2>1 DEF InFlight, Answers
<1>5. InFlightIsMarked'
  BY <1>1, <1>2 DEF InFlightIsMarked
<1>6. InFlightOnce'
  BY <1>1, <1>2 DEF InFlightOnce
<1> QED
  BY <1>4, <1>5, <1>6

\* What the reader takes cannot make what it believes wrong, nor bring a choke.
LEMMA TakesTruth ==
    ASSUME IInv, NEW type, Receives(type), UNCHANGED <<chokes, peerChoking, peerHas>>
    PROVE  /\ \A k \in DOMAIN toUs' :
                 /\ toUs'[k].type = "bitfield" => toUs'[k].arg \subseteq peerHas'
                 /\ toUs'[k].type = "have" => toUs'[k].arg \in peerHas'
           /\ chokes = 0 =>
                 /\ type # "choke"
                 /\ \A k \in DOMAIN toUs' : toUs'[k].type # "choke"
                 /\ peerChoking => /\ type # "unchoke"
                                   /\ \A k \in DOMAIN toUs' : toUs'[k].type # "unchoke"
<1>1. TypeOK
  BY DEF IInv
<1> QED
  BY <1>1, TakenMessage DEF IInv, HeardIsTrue, NotChokedYet

\* So does what the peer puts after the others.
LEMMA PutMessage ==
    ASSUME TypeOK, NEW m \in Message, toUs' = Append(toUs, m)
    PROVE  /\ toUs' \in Seq(Message)
           /\ DOMAIN toUs' = DOMAIN toUs \cup {Len(toUs) + 1}
           /\ Len(toUs) + 1 \notin DOMAIN toUs
           /\ toUs'[Len(toUs) + 1] = m
           /\ \A k \in DOMAIN toUs : toUs'[k] = toUs[k]
BY Put DEF TypeOK

LEMMA PutsNoAnswer ==
    ASSUME IInv, NEW m \in Message, m.type # "piece", toUs' = Append(toUs, m),
           UNCHANGED <<requested, toPeer>>, peerHas \subseteq peerHas'
    PROVE  InFlight' = InFlight /\ InFlightIsMarked' /\ InFlightOnce'
<1>1. TypeOK /\ InFlightIsMarked /\ InFlightOnce
  BY DEF IInv
<1>2. Answers' = Answers /\ \A k \in Answers : toUs'[k] = toUs[k]
  BY <1>1, PutMessage DEF Answers
<1>3. InFlight' = InFlight
  <2>1. {toUs'[k].arg : k \in Answers'} = {toUs[k].arg : k \in Answers}
    BY <1>2
  <2> QED
    BY <2>1 DEF InFlight, Answers
<1>4. InFlightIsMarked'
  BY <1>1, <1>2 DEF InFlightIsMarked
<1>5. \A k \in Answers' : k \in Answers /\ toUs'[k] = toUs[k]
  BY <1>2
<1>6. InFlightOnce'
  <2>1. \A k, l \in Answers' : toUs'[k].arg = toUs'[l].arg => k = l
    BY <1>1, <1>5 DEF InFlightOnce
  <2>2. ASSUME NEW i \in DOMAIN toPeer', NEW k \in Answers'
        PROVE  toPeer'[i] # toUs'[k].arg
    <3>1. i \in DOMAIN toPeer /\ k \in Answers /\ toUs'[k] = toUs[k] /\ toPeer' = toPeer
      BY <1>5
    <3> QED
      BY <1>1, <3>1 DEF InFlightOnce
  <2>3. \A i, j \in DOMAIN toPeer' : toPeer'[i] = toPeer'[j] => i = j
    BY <1>1 DEF InFlightOnce
  <2> QED
    BY <2>1, <2>2, <2>3 DEF InFlightOnce
<1> QED
  BY <1>3, <1>4, <1>6
--------------------------------------------------------------------------------
(* The steps.                                                                 *)

LEMMA IInvInit == Init => IInv
<1> SUFFICES ASSUME Init
             PROVE  IInv
  OBVIOUS
<1>1. /\ <<>> \in Seq(Block) /\ <<>> \in Seq(Message) /\ DOMAIN <<>> = {}
  BY EmptySeq
<1>2. Msg("bitfield", peerHas) \in Message
  BY Messages DEF Init
<1>3. /\ toUs \in Seq(Message)
      /\ \A k \in DOMAIN toUs : toUs[k] = Msg("bitfield", peerHas)
  <2>1. CASE toUs = <<>>
    BY <1>1, <2>1
  <2>2. CASE toUs = <<Msg("bitfield", peerHas)>>
    BY <1>2, <2>2
  <2> QED
    BY <2>1, <2>2 DEF Init
<1>4. TypeOK
  <2>1. {PeerChoked, gotBitField, peerChoking, answersChoked} \subseteq BOOLEAN
    BY Zenon DEF Init
  <2> QED
    BY <1>1, <1>3, <2>1, SizeAssumption DEF Init, TypeOK
<1>5. Answers = {}
  BY <1>3 DEF Answers, Msg
<1>6. InFlight = {}
  BY <1>1, <1>5 DEF Init, InFlight, Answers
<1>7. HeardIsTrue /\ NotChokedYet
  BY <1>3 DEF Init, HeardIsTrue, NotChokedYet, Msg
<1>8. Counted
  BY <1>6, FS_EmptySet, SizeAssumption DEF Init, Counted
<1> QED
  BY <1>1, <1>4, <1>5, <1>7, <1>8 DEF Init, IInv, InFlightIsMarked, InFlightOnce

\* A Request: of a block that was not marked, hence in flight nowhere.
LEMMA RequestBlockStep ==
    ASSUME IInv, RequestBlock
    PROVE  IInv'
<1>1. TypeOK /\ HeardIsTrue /\ InFlightIsMarked /\ InFlightOnce
  BY DEF IInv
<1>2. /\ NextBlock \in Block /\ NextBlock \notin requested
      /\ NextBlock[1] \in peerHas
  BY <1>1, FirstEligibleExists DEF RequestBlock, NextBlock, Eligible, HeardIsTrue
<1>3. /\ reader \in {"requesting", "failing"} /\ pending < pipelineLimit
      /\ requested' = requested \cup {NextBlock}
      /\ pending' = pending + 1
      /\ toPeer' = Append(toPeer, NextBlock)
      /\ UNCHANGED <<reader, PeerChoked, gotBitField, BitField, received, unscanned,
                     peerHas, peerChoking, answersChoked, chokes, toUs>>
  BY DEF RequestBlock, MayAsk, theirs
<1> HIDE DEF NextBlock
<1>4. /\ toPeer' \in Seq(Block)
      /\ DOMAIN toPeer' = DOMAIN toPeer \cup {Len(toPeer) + 1}
      /\ Len(toPeer) + 1 \notin DOMAIN toPeer
      /\ toPeer'[Len(toPeer) + 1] = NextBlock
      /\ \A k \in DOMAIN toPeer : toPeer'[k] = toPeer[k]
  BY <1>1, <1>2, <1>3, Put DEF TypeOK
<1>5. TypeOK'
  BY <1>1, <1>2, <1>3, <1>4 DEF TypeOK
<1>6. Answers' = Answers
  BY <1>3 DEF Answers
<1>7. InFlightIsMarked'
  BY <1>1, <1>2, <1>3, <1>4, <1>6 DEF InFlightIsMarked
<1>8. \A i \in DOMAIN toPeer : toPeer[i] # NextBlock
  BY <1>1, <1>2 DEF InFlightIsMarked
<1>9. \A k \in Answers : toUs[k].arg # NextBlock
  BY <1>1, <1>2 DEF InFlightIsMarked
<1>10. InFlightOnce'
  BY <1>1, <1>3, <1>4, <1>6, <1>8, <1>9 DEF InFlightOnce
<1>11. InFlight' = InFlight \cup {NextBlock} /\ NextBlock \notin InFlight
  <2>1. {toPeer'[i] : i \in DOMAIN toPeer'} = {toPeer[i] : i \in DOMAIN toPeer} \cup {NextBlock}
    BY <1>4
  <2> QED
    BY <1>3, <1>8, <1>9, <2>1 DEF InFlight, Answers
<1>12. Cardinality(InFlight') = Cardinality(InFlight) + 1
  BY <1>1, <1>11, InFlightFinite, FS_AddElement
<1>13. Counted'
  BY <1>1, <1>3, <1>12, SizeAssumption DEF IInv, Counted, TypeOK
<1>14. HeardIsTrue' /\ NotChokedYet'
  BY <1>3 DEF IInv, HeardIsTrue, NotChokedYet
<1> QED
  BY <1>5, <1>7, <1>10, <1>13, <1>14 DEF IInv

\* A Request that is not sent: a mark more, and nothing else in flight.
LEMMA RequestFailsStep ==
    ASSUME IInv, RequestFails
    PROVE  IInv'
<1>1. TypeOK /\ HeardIsTrue /\ InFlightIsMarked /\ InFlightOnce
  BY DEF IInv
<1>2. NextBlock \in Block
  BY <1>1, FirstEligibleExists DEF RequestFails, NextBlock, Eligible
<1>3. /\ reader \in {"requesting", "failing"} /\ reader' = "failing"
      /\ requested' = requested \cup {NextBlock}
      /\ UNCHANGED <<PeerChoked, gotBitField, BitField, pending, received, unscanned,
                     peerHas, peerChoking, answersChoked, chokes, toPeer, toUs>>
  BY DEF RequestFails, theirs
<1> HIDE DEF NextBlock
<1>4. TypeOK'
  BY <1>1, <1>2, <1>3 DEF TypeOK
<1>5. Answers' = Answers /\ InFlight' = InFlight
  BY <1>3 DEF Answers, InFlight
<1>6. InFlightIsMarked' /\ InFlightOnce'
  BY <1>1, <1>3, <1>5 DEF InFlightIsMarked, InFlightOnce
<1>7. Counted'
  BY <1>3, <1>5 DEF IInv, Counted
<1>8. HeardIsTrue' /\ NotChokedYet'
  BY <1>3 DEF IInv, HeardIsTrue, NotChokedYet
<1> QED
  BY <1>4, <1>6, <1>7, <1>8 DEF IInv

\* An answer: of a block that is in flight nowhere else, so that its mark can go.
LEMMA HandlePieceStep ==
    ASSUME IInv, HandlePiece
    PROVE  IInv'
<1> DEFINE b == toUs[1].arg
<1>1. TypeOK /\ HeardIsTrue /\ InFlightIsMarked /\ InFlightOnce /\ Receives("piece")
  BY DEF IInv, HandlePiece
<1>2. /\ toUs' \in Seq(Message) /\ 1 \in Answers /\ toUs[1] \in Message /\ Head(toUs) = toUs[1]
      /\ \A k \in Answers' :
            k \in Nat \ {0} /\ k + 1 \in Answers /\ toUs'[k] = toUs[k + 1]
      /\ \A k \in Answers : k # 1 => k - 1 \in Answers' /\ toUs'[k - 1] = toUs[k]
  BY <1>1, TakenMessage DEF Answers
<1>3. b \in Block
  BY <1>2, Messages DEF Answers
<1>4. /\ pending' = pending - 1
      /\ received' = received \cup {b}
      /\ requested' = requested \ {b}
      /\ reader' = IF PeerChoked THEN "idle" ELSE "requesting"
      /\ UNCHANGED <<PeerChoked, gotBitField, BitField, unscanned, peerHas, peerChoking,
                     answersChoked, chokes, toPeer>>
  BY <1>2 DEF HandlePiece, RequestNext, theirs
<1>5. TypeOK'
  BY <1>1, <1>2, <1>3, <1>4 DEF TypeOK
<1>6. \A i \in DOMAIN toPeer : toPeer[i] # b
  BY <1>1, <1>2 DEF InFlightOnce
<1>7. \A k \in Answers' : toUs'[k].arg # b
  BY <1>1, <1>2 DEF InFlightOnce
<1>8. InFlightIsMarked'
  BY <1>1, <1>2, <1>4, <1>6, <1>7 DEF InFlightIsMarked
<1>9. InFlightOnce'
  <2>1. \A k, l \in Answers' : toUs'[k].arg = toUs'[l].arg => k = l
    <3> SUFFICES ASSUME NEW k \in Answers', NEW l \in Answers', toUs'[k].arg = toUs'[l].arg
                 PROVE  k = l
      OBVIOUS
    <3>1. k + 1 = l + 1
      BY <1>1, <1>2 DEF InFlightOnce
    <3> QED
      BY <1>2, <3>1
  <2>2. \A i \in DOMAIN toPeer, k \in Answers' : toPeer[i] # toUs'[k].arg
    BY <1>1, <1>2 DEF InFlightOnce
  <2> QED
    BY <1>1, <1>4, <2>1, <2>2 DEF InFlightOnce
<1>10. InFlight' = InFlight \ {b} /\ b \in InFlight
  <2>1. {toUs'[k].arg : k \in Answers'} = {toUs[k].arg : k \in Answers} \ {b}
    BY <1>2, <1>7
  <2>2. b \in {toUs[k].arg : k \in Answers}
    BY <1>2
  <2>3. InFlight = {toPeer[i] : i \in DOMAIN toPeer} \cup {toUs[k].arg : k \in Answers}
    BY DEF InFlight, Answers
  <2>4. InFlight' = {toPeer[i] : i \in DOMAIN toPeer} \cup {toUs'[k].arg : k \in Answers'}
    BY <1>4 DEF InFlight, Answers
  <2> QED
    BY <1>6, <2>1, <2>2, <2>3, <2>4
<1>11. Cardinality(InFlight') = Cardinality(InFlight) - 1
  BY <1>1, <1>10, InFlightFinite, FS_RemoveElement
<1>12. Counted'
  BY <1>1, <1>4, <1>11, InFlightFinite, SizeAssumption DEF IInv, Counted, TypeOK
<1>13. HeardIsTrue' /\ NotChokedYet'
  BY <1>1, <1>4, TakesTruth DEF IInv, HeardIsTrue, NotChokedYet
<1> QED
  BY <1>5, <1>8, <1>9, <1>12, <1>13 DEF IInv

\* The other messages.
LEMMA HandlerStep ==
    ASSUME IInv, HandleBitField \/ HandleHave \/ HandleChoke \/ HandleUnchoke
    PROVE  IInv'
<1> USE DEF theirs, RequestNext
<1>1. TypeOK
  BY DEF IInv
<1>2. CASE HandleBitField
  <2>1. Receives("bitfield") /\ toUs' \in Seq(Message) /\ Head(toUs) = toUs[1]
        /\ toUs[1].arg \subseteq Piece /\ toUs[1].arg \subseteq peerHas
    BY <1>1, <1>2, TakenMessage, Messages DEF HandleBitField, IInv, HeardIsTrue
  <2>2. TypeOK'
    BY <1>1, <1>2, <2>1 DEF HandleBitField, TypeOK
  <2>3. InFlight' = InFlight /\ InFlightIsMarked' /\ InFlightOnce'
    BY <1>2, <2>1, TakesNoAnswer DEF HandleBitField
  <2>4. HeardIsTrue' /\ NotChokedYet'
    BY <1>1, <1>2, <2>1, TakesTruth DEF HandleBitField, IInv, HeardIsTrue, NotChokedYet, TypeOK
  <2> QED
    BY <1>2, <2>2, <2>3, <2>4 DEF HandleBitField, IInv, Counted
<1>3. CASE HandleHave
  <2>1. Receives("have") /\ toUs' \in Seq(Message) /\ Head(toUs) = toUs[1]
        /\ toUs[1].arg \in Piece /\ toUs[1].arg \in peerHas
    BY <1>1, <1>3, TakenMessage, Messages DEF HandleHave, IInv, HeardIsTrue
  <2>2. TypeOK'
    BY <1>1, <1>3, <2>1 DEF HandleHave, TypeOK, NeedPiecesFrom, IsSet
  <2>3. InFlight' = InFlight /\ InFlightIsMarked' /\ InFlightOnce'
    BY <1>3, <2>1, TakesNoAnswer DEF HandleHave
  <2>4. HeardIsTrue' /\ NotChokedYet'
    BY <1>1, <1>3, <2>1, TakesTruth DEF HandleHave, IInv, HeardIsTrue, NotChokedYet
  <2> QED
    BY <1>3, <2>2, <2>3, <2>4 DEF HandleHave, IInv, Counted
<1>4. CASE HandleChoke
  <2>1. Receives("choke") /\ toUs' \in Seq(Message)
    BY <1>1, <1>4, TakenMessage DEF HandleChoke
  <2>2. TypeOK'
    BY <1>1, <1>4, <2>1 DEF HandleChoke, TypeOK
  <2>3. InFlight' = InFlight /\ InFlightIsMarked' /\ InFlightOnce'
    BY <1>4, <2>1, TakesNoAnswer DEF HandleChoke
  <2>4. HeardIsTrue' /\ NotChokedYet' /\ chokes # 0
    BY <1>4, <2>1, TakesTruth DEF HandleChoke, IInv, HeardIsTrue, NotChokedYet
  <2> QED
    BY <1>4, <2>2, <2>3, <2>4 DEF HandleChoke, IInv, Counted
<1>5. CASE HandleUnchoke
  <2>1. Receives("unchoke") /\ toUs' \in Seq(Message)
    BY <1>1, <1>5, TakenMessage DEF HandleUnchoke
  <2>2. TypeOK'
    BY <1>1, <1>5, <2>1 DEF HandleUnchoke, TypeOK
  <2>3. InFlight' = InFlight /\ InFlightIsMarked' /\ InFlightOnce'
    BY <1>5, <2>1, TakesNoAnswer DEF HandleUnchoke
  <2>4. HeardIsTrue' /\ NotChokedYet'
    BY <1>5, <2>1, TakesTruth DEF HandleUnchoke, IInv, HeardIsTrue, NotChokedYet
  <2> QED
    BY <1>5, <2>2, <2>3, <2>4 DEF HandleUnchoke, IInv, Counted
<1> QED
  BY <1>2, <1>3, <1>4, <1>5

\* A peer that answers moves a block from one stream to the other, unless it drops it.
LEMMA PeerAnswersStep ==
    ASSUME IInv, PeerAnswers
    PROVE  IInv'
<1> DEFINE b == toPeer[1]
<1>1. TypeOK /\ HeardIsTrue /\ InFlightIsMarked /\ InFlightOnce /\ NotChokedYet
  BY DEF IInv
<1>2. /\ toPeer' \in Seq(Block) /\ 1 \in DOMAIN toPeer /\ b \in Block /\ Head(toPeer) = b
      /\ \A i \in DOMAIN toPeer' :
            i \in Nat \ {0} /\ i + 1 \in DOMAIN toPeer /\ toPeer'[i] = toPeer[i + 1]
      /\ \A i \in DOMAIN toPeer : i # 1 => i - 1 \in DOMAIN toPeer' /\ toPeer'[i - 1] = toPeer[i]
  BY <1>1, Taken DEF PeerAnswers, TypeOK
<1>3. UNCHANGED <<reader, PeerChoked, gotBitField, BitField, pending, requested, received,
                  unscanned, peerHas, peerChoking, answersChoked, chokes>>
  BY DEF PeerAnswers, ours, theirs
<1>4. \A i \in DOMAIN toPeer' : toPeer'[i] # b
  BY <1>1, <1>2 DEF InFlightOnce
<1>5. \A i, j \in DOMAIN toPeer' : toPeer'[i] = toPeer'[j] => i = j
  <2> SUFFICES ASSUME NEW i \in DOMAIN toPeer', NEW j \in DOMAIN toPeer',
                      toPeer'[i] = toPeer'[j]
               PROVE  i = j
    OBVIOUS
  <2>1. i + 1 = j + 1
    BY <1>1, <1>2 DEF InFlightOnce
  <2> QED
    BY <1>2, <2>1
<1>6. CASE peerChoking /\ ~answersChoked
  <2>1. UNCHANGED toUs /\ chokes # 0
    BY <1>1, <1>6 DEF PeerAnswers, NotChokedYet
  <2>2. Answers' = Answers
    BY <2>1 DEF Answers
  <2>3. TypeOK'
    BY <1>1, <1>2, <1>3, <2>1 DEF TypeOK
  <2>4. InFlightIsMarked'
    BY <1>1, <1>2, <1>3, <2>1, <2>2 DEF InFlightIsMarked
  <2>5. \A i \in DOMAIN toPeer', k \in Answers : toPeer'[i] # toUs[k].arg
    BY <1>1, <1>2 DEF InFlightOnce
  <2>6. InFlightOnce'
    BY <1>1, <1>5, <2>1, <2>2, <2>5 DEF InFlightOnce
  <2> QED
    BY <1>1, <1>3, <2>1, <2>3, <2>4, <2>6 DEF IInv, HeardIsTrue, NotChokedYet, Counted
<1>7. CASE ~(peerChoking /\ ~answersChoked)
  <2> DEFINE n == Len(toUs) + 1
  <2>1. /\ toUs' \in Seq(Message)
        /\ DOMAIN toUs' = DOMAIN toUs \cup {n} /\ n \notin DOMAIN toUs
        /\ toUs'[n] = Msg("piece", b)
        /\ \A k \in DOMAIN toUs : toUs'[k] = toUs[k]
    BY <1>1, <1>2, <1>7, PutMessage, Messages DEF PeerAnswers
  <2> HIDE DEF n
  <2>2. toUs'[n].type = "piece" /\ toUs'[n].arg = b
    BY <2>1 DEF Msg
  <2>3. Answers' = Answers \cup {n} /\ n \notin Answers
    BY <2>1, <2>2 DEF Answers
  <2>4. \A k \in Answers : toUs'[k] = toUs[k] /\ toUs[k].arg # b
    BY <1>1, <1>2, <2>1 DEF Answers, InFlightOnce
  <2>5. TypeOK'
    BY <1>1, <1>2, <1>3, <2>1 DEF TypeOK
  <2>6. InFlightIsMarked'
    BY <1>1, <1>2, <1>3, <2>2, <2>3, <2>4 DEF InFlightIsMarked
  <2>7. InFlightOnce'
    <3>1. \A k, l \in Answers' : toUs'[k].arg = toUs'[l].arg => k = l
      BY <1>1, <2>2, <2>3, <2>4 DEF InFlightOnce
    <3>2. \A i \in DOMAIN toPeer', k \in Answers' : toPeer'[i] # toUs'[k].arg
      BY <1>1, <1>2, <1>4, <2>2, <2>3, <2>4 DEF InFlightOnce
    <3> QED
      BY <1>5, <3>1, <3>2 DEF InFlightOnce
  <2>8. InFlight' = InFlight
    <3>1. {toPeer[i] : i \in DOMAIN toPeer} = {toPeer'[i] : i \in DOMAIN toPeer'} \cup {b}
      BY <1>2
    <3>2. {toUs'[k].arg : k \in Answers'} = {toUs[k].arg : k \in Answers} \cup {b}
      BY <2>2, <2>3, <2>4
    <3>3. InFlight = {toPeer[i] : i \in DOMAIN toPeer} \cup {toUs[k].arg : k \in Answers}
      BY DEF InFlight, Answers
    <3>4. InFlight' = {toPeer'[i] : i \in DOMAIN toPeer'} \cup {toUs'[k].arg : k \in Answers'}
      BY DEF InFlight, Answers
    <3> QED
      BY <3>1, <3>2, <3>3, <3>4
  <2>9. Counted'
    BY <1>3, <2>8 DEF IInv, Counted
  <2>10. HeardIsTrue'
    BY <1>1, <1>3, <2>1, <2>2 DEF HeardIsTrue
  <2>11. NotChokedYet'
    <3>1. peerChoking => chokes # 0
      BY <1>1 DEF PeerAnswers, NotChokedYet
    <3> QED
      BY <1>1, <1>3, <2>1, <2>2, <3>1 DEF NotChokedYet
  <2> QED
    BY <2>5, <2>6, <2>7, <2>9, <2>10, <2>11 DEF IInv
<1> QED
  BY <1>6, <1>7

\* What else the peer may do.
LEMMA PeerStep ==
    ASSUME IInv, PeerUnchokes \/ PeerChokes \/ \E p \in Piece : PeerGainsPiece(p)
    PROVE  IInv'
<1> USE DEF ours
<1>1. TypeOK
  BY DEF IInv
<1>2. CASE PeerUnchokes
  <2> DEFINE m == Msg("unchoke", {})
  <2>1. m \in Message /\ m.type = "unchoke" /\ toUs' = Append(toUs, m)
    BY <1>2, Messages DEF PeerUnchokes, Msg
  <2> HIDE DEF m
  <2>2. InFlight' = InFlight /\ InFlightIsMarked' /\ InFlightOnce'
    BY <1>2, <2>1, PutsNoAnswer DEF PeerUnchokes
  <2>3. TypeOK'
    BY <1>1, <1>2, <2>1, PutMessage DEF PeerUnchokes, TypeOK
  <2>4. HeardIsTrue' /\ NotChokedYet'
    BY <1>1, <1>2, <2>1, PutMessage DEF PeerUnchokes, IInv, HeardIsTrue, NotChokedYet
  <2> QED
    BY <1>2, <2>2, <2>3, <2>4 DEF PeerUnchokes, IInv, Counted
<1>3. CASE PeerChokes
  <2> DEFINE m == Msg("choke", {})
  <2>1. m \in Message /\ m.type = "choke" /\ toUs' = Append(toUs, m)
    BY <1>3, Messages DEF PeerChokes, Msg
  <2> HIDE DEF m
  <2>2. InFlightIsMarked' /\ InFlightOnce'
    BY <1>3, <2>1, PutsNoAnswer DEF PeerChokes
  <2>3. TypeOK' /\ chokes' # 0
    BY <1>1, <1>3, <2>1, PutMessage, SizeAssumption DEF PeerChokes, TypeOK
  <2>4. HeardIsTrue'
    BY <1>1, <1>3, <2>1, PutMessage DEF PeerChokes, IInv, HeardIsTrue
  <2> QED
    BY <2>2, <2>3, <2>4 DEF IInv, NotChokedYet, Counted
<1>4. ASSUME NEW p \in Piece, PeerGainsPiece(p)
      PROVE  IInv'
  <2> DEFINE m == Msg("have", p)
  <2>1. m \in Message /\ m.type = "have" /\ m.arg = p /\ toUs' = Append(toUs, m)
    BY <1>4, Messages DEF PeerGainsPiece, Msg
  <2> HIDE DEF m
  <2>2. InFlight' = InFlight /\ InFlightIsMarked' /\ InFlightOnce'
    BY <1>4, <2>1, PutsNoAnswer DEF PeerGainsPiece
  <2>3. TypeOK'
    BY <1>1, <1>4, <2>1, PutMessage DEF PeerGainsPiece, TypeOK
  <2>4. HeardIsTrue' /\ NotChokedYet'
    BY <1>1, <1>4, <2>1, PutMessage DEF PeerGainsPiece, IInv, HeardIsTrue, NotChokedYet
  <2> QED
    BY <1>4, <2>2, <2>3, <2>4 DEF PeerGainsPiece, IInv, Counted
<1> QED
  BY <1>2, <1>3, <1>4

LEMMA IInvStep == IInv /\ [Next]_vars => IInv'
<1> SUFFICES ASSUME IInv, [Next]_vars
             PROVE  IInv'
  OBVIOUS
\* Steps that leave the streams and the marks alone.
<1>1. ASSUME UNCHANGED <<PeerChoked, BitField, pending, requested, theirs, toPeer, toUs>>,
             reader' \in {reader, "idle", "closed"},
             gotBitField' = gotBitField, unscanned' \subseteq Piece,
             received' \subseteq Block
      PROVE  IInv'
  <2>1. TypeOK'
    BY <1>1 DEF IInv, TypeOK, theirs
  <2>2. HeardIsTrue' /\ NotChokedYet'
    BY <1>1 DEF IInv, HeardIsTrue, NotChokedYet, theirs
  <2>3. InFlightIsMarked' /\ InFlightOnce'
    BY <1>1 DEF IInv, InFlightIsMarked, InFlightOnce, Answers, theirs
  <2>4. Counted'
    BY <1>1 DEF IInv, Counted, InFlight, theirs
  <2> QED
    BY <2>1, <2>2, <2>3, <2>4 DEF IInv
<1>2. CASE StopRequesting
  BY <1>1, <1>2 DEF StopRequesting, IInv, TypeOK
<1>3. CASE CloseConn
  BY <1>1, <1>3 DEF CloseConn, IInv, TypeOK
<1>4. ASSUME NEW b \in Block, OtherReceives(b)
      PROVE  IInv'
  BY <1>1, <1>4 DEF OtherReceives, IInv, TypeOK
<1>5. CASE UNCHANGED vars
  BY <1>1, <1>5 DEF vars, ours, IInv, TypeOK
<1> QED
  BY <1>2, <1>3, <1>4, <1>5, RequestBlockStep, RequestFailsStep, HandlePieceStep,
     HandlerStep, PeerAnswersStep, PeerStep DEF Next, Reader, Peer

LEMMA CountTo ==
    ASSUME NEW n \in Nat
    PROVE  IsFiniteSet(1 .. n) /\ Cardinality(1 .. n) = n
BY FS_Interval

\* What InFlightOnce is for: as many blocks are in flight as requests and answers.
LEMMA OnceIsCounted ==
    ASSUME IInv
    PROVE  Outstanding = Cardinality(InFlight)
<1> DEFINE asked == {toPeer[i] : i \in DOMAIN toPeer}
           answered == {toUs[k].arg : k \in Answers}
           ask == [i \in DOMAIN toPeer |-> toPeer[i]]
           answer == [k \in Answers |-> toUs[k].arg]
<1>1. TypeOK /\ InFlightOnce
  BY DEF IInv
<1>2. /\ Len(toPeer) \in Nat /\ DOMAIN toPeer = 1 .. Len(toPeer)
      /\ Len(toUs) \in Nat /\ DOMAIN toUs = 1 .. Len(toUs)
  BY <1>1, LenProperties DEF TypeOK
<1>3. IsFiniteSet(DOMAIN toPeer) /\ Cardinality(DOMAIN toPeer) = Len(toPeer)
  BY <1>2, CountTo
<1>4. IsFiniteSet(Answers)
  <2>1. IsFiniteSet(DOMAIN toUs)
    BY <1>2, FS_Interval
  <2> QED
    BY <2>1, FS_Subset DEF Answers
<1>5. IsFiniteSet(asked) /\ Cardinality(asked) = Len(toPeer)
  <2>1. ask \in Bijection(DOMAIN toPeer, asked)
    BY <1>1 DEF InFlightOnce, Bijection, Injection, Surjection, IsInjective
  <2> QED
    BY <1>3, <2>1, FS_Bijection DEF ExistsBijection
<1>6. IsFiniteSet(answered) /\ Cardinality(answered) = Cardinality(Answers)
  <2>1. answer \in Bijection(Answers, answered)
    BY <1>1 DEF InFlightOnce, Bijection, Injection, Surjection, IsInjective
  <2> QED
    BY <1>4, <2>1, FS_Bijection DEF ExistsBijection
<1>7. asked \cap answered = {}
  BY <1>1 DEF InFlightOnce
<1>8. InFlight = asked \cup answered
  BY DEF InFlight, Answers
<1>9. Cardinality(InFlight) = Cardinality(asked) + Cardinality(answered)
  <2> HIDE DEF asked, answered
  <2>1. Cardinality(asked \cup answered)
          = Cardinality(asked) + Cardinality(answered) - Cardinality(asked \cap answered)
    BY <1>5, <1>6, FS_Union
  <2>2. Cardinality(asked \cap answered) = 0
    BY <1>7, FS_EmptySet
  <2>3. Cardinality(asked) \in Nat /\ Cardinality(answered) \in Nat
    BY <1>5, <1>6, FS_CardinalityType
  <2> QED
    BY <1>8, <2>1, <2>2, <2>3
<1> QED
  BY <1>5, <1>6, <1>9 DEF Outstanding, Answers
--------------------------------------------------------------------------------
(* What is left to ask for while the reader waits.                            *)

\* What NeverIdles reads does not get more eligible by a step that scans nothing.
LEMMA LessToAsk ==
    ASSUME NeverIdles, received' \subseteq Block,
           UNCHANGED <<PeerChoked, BitField, pending, requested, unscanned>>,
           reader' = "idle" => reader = "idle",
           received \subseteq received'
    PROVE  NeverIdles'
<1> SUFFICES ASSUME reader' = "idle", ~PeerChoked', MayAsk', NEW b \in Eligible'
             PROVE  b[1] \in unscanned'
  BY DEF NeverIdles
<1>1. b \in Eligible
  BY DEF Eligible
<1>2. received # Block /\ MayAsk
  BY DEF MayAsk, IsFinished
<1> QED
  BY <1>1, <1>2 DEF NeverIdles

LEMMA NeverIdlesStep == TypeOK /\ TypeOK' /\ NeverIdles /\ [Next]_vars => NeverIdles'
<1> SUFFICES ASSUME TypeOK, TypeOK', NeverIdles, [Next]_vars
             PROVE  NeverIdles'
  OBVIOUS
<1>1. CASE RequestBlock \/ RequestFails
  BY <1>1 DEF RequestBlock, RequestFails, NeverIdles
<1>2. CASE StopRequesting
  BY <1>2 DEF StopRequesting, NeverIdles, MayAsk, IsFinished, Eligible
<1>3. CASE CloseConn
  BY <1>3 DEF CloseConn, NeverIdles
\* A bitfield that asks for nothing has no piece we lack.
<1>4. CASE HandleBitField
  <2> SUFFICES ASSUME reader' = "idle", ~PeerChoked', NEW b \in Eligible'
               PROVE  FALSE
    BY DEF NeverIdles
  <2>1. b \in Block /\ b[1] \in BitField' /\ b \notin received
    BY <1>4 DEF HandleBitField, Eligible
  <2>2. ~IsSet(b[1])
    BY <2>1 DEF IsSet, Block
  <2>3. NeedPiecesFrom(BitField')
    BY <2>1, <2>2 DEF NeedPiecesFrom
  <2> QED
    BY <1>4, <2>3 DEF HandleBitField, RequestNext
\* What a Have adds is not scanned.
<1>5. CASE HandleHave
  <2> SUFFICES ASSUME reader' = "idle", ~PeerChoked', MayAsk', NEW b \in Eligible'
               PROVE  b[1] \in unscanned'
    BY DEF NeverIdles
  <2>1. /\ reader = "idle" /\ ~PeerChoked
        /\ UNCHANGED <<pending, requested, received>>
        /\ unscanned' = unscanned \cup {Head(toUs).arg}
        /\ BitField' \subseteq BitField \cup {Head(toUs).arg}
    BY <1>5 DEF HandleHave
  <2>2. MayAsk
    BY <2>1 DEF MayAsk, IsFinished
  <2>3. CASE b[1] \in BitField
    BY <2>1, <2>2, <2>3 DEF NeverIdles, Eligible
  <2>4. CASE b[1] \notin BitField
    BY <2>1, <2>4 DEF Eligible
  <2> QED
    BY <2>3, <2>4
<1>6. CASE HandleChoke \/ HandleUnchoke \/ HandlePiece
  BY <1>6 DEF HandleChoke, HandleUnchoke, HandlePiece, RequestNext, NeverIdles
<1>7. CASE Peer \/ UNCHANGED vars
  <2>1. UNCHANGED ours
    BY <1>7 DEF Peer, PeerUnchokes, PeerChokes, PeerAnswers, PeerGainsPiece, vars
  <2> QED
    BY <2>1, LessToAsk DEF ours, TypeOK
<1>8. ASSUME NEW b \in Block, OtherReceives(b)
      PROVE  NeverIdles'
  BY <1>8, LessToAsk DEF OtherReceives, TypeOK
<1> QED
  BY <1>1, <1>2, <1>3, <1>4, <1>5, <1>6, <1>7, <1>8 DEF Next, Reader
--------------------------------------------------------------------------------
(* The theorems.                                                              *)

\* The invariant above holds in every state of the connection, for every torrent, every
\* pipeline limit and whatever the peer and the other connections do.
THEOREM Invariance == Spec => []IInv
<1> QED
  BY IInvInit, IInvStep, PTL DEF Spec

\* Every variable of the connection stays in its range (message_handler.go).
THEOREM TypeCorrect == Spec => []TypeOK
<1>1. IInv => TypeOK
  BY DEF IInv
<1> QED
  BY <1>1, Invariance, PTL

\* A connection asks only for blocks of pieces the peer has, and keeps their marks until
\* the answer (message_handler.go, requestNextBlock).
THEOREM OnlyWhatPeerHas == Spec => []AskedForWhatPeerHas
<1>1. IInv => AskedForWhatPeerHas
  BY DEF IInv, InFlightIsMarked, AskedForWhatPeerHas, InFlight, Answers
<1> QED
  BY <1>1, Invariance, PTL

\* No block is in flight twice on a connection, across any number of chokes.
THEOREM AskedOnce == Spec => []NeverAskedTwice
<1>1. IInv => NeverAskedTwice
  BY OnceIsCounted DEF NeverAskedTwice
<1> QED
  BY <1>1, Invariance, PTL

\* Until the peer's first choke PendingRequests is the number of requests in flight, and
\* never above the pipeline limit (peer_state.go; message_handler.go, requestNextBlock).
THEOREM PendingIsExact == Spec => []PendingExact
<1>1. IInv => PendingExact
  BY OnceIsCounted DEF IInv, Counted, PendingExact
<1> QED
  BY <1>1, Invariance, PTL

\* While the reader waits with room in the pipeline and no choke, nothing is left to ask
\* for but what Haves brought since the last scan (message_handler.go, l.79 and l.257).
THEOREM PipelineNeverIdles == Spec => []NeverIdles
<1>1. Init => NeverIdles
  BY DEF Init, NeverIdles
<1> QED
  BY <1>1, NeverIdlesStep, TypeCorrect, PTL DEF Spec
================================================================================
