----------------------------- MODULE SeederProofs ------------------------------
(***************************************************************************)
(* The listener for every set of connections, pieces and slots.  Seen from    *)
(* UploadManager, a step of Seeder is one of its steps or none, so the lists     *)
(* and counts are proved of UploadManager alone (ServingInv); what the rounds     *)
(* of the listener's PeerManager may do to a served peer comes on top.            *)
(***************************************************************************)
EXTENDS Seeder, FiniteSetTheorems, TLAPS

\* Where a connection is in um.Peers, and where in pm.Peers.
InUm == {"register", "greet", "read", "send", "count", "stats", "unregister", "remove"}
InPm == {"greet", "read", "send", "count", "stats", "unregister"}

\* The lists say where the goroutines are.
ListsFollow ==
    \A c \in Conn : /\ c \in umPeers <=> pc[c] \in InUm
                    /\ c \in pmPeers <=> pc[c] \in InPm

\* The bound on what is sent leaves room for a block that is in hand.
RoomToSend == \A c \in Conn : pc[c] = "send" => sent[c] < MaxSent

ServingInv == TypeOK /\ ListsFollow /\ RoomToSend /\ UploadedCounts
--------------------------------------------------------------------------------
(* The lists and the types.                                                   *)

LEMMA SizesType ==
    /\ Piece \subseteq Nat
    /\ \A p \in Piece : p + 1 \in 1 .. NumPieces
BY SizeAssumption DEF Piece

LEMMA TypeOKInit == Init => TypeOK
<1> SUFFICES ASSUME Init
             PROVE  TypeOK
  OBVIOUS
<1>1. block \in [Conn -> BlockRead \cup {NothingRead}] /\ got \in [Conn -> SUBSET BlockRead]
  BY DEF Init
<1>2. BitField \in [Conn -> [nil : BOOLEAN, bits : SUBSET Piece]]
  BY DEF Init
<1>3. bytesUploaded \in [Conn -> Nat] /\ sent \in [Conn -> 0 .. MaxSent]
  BY SizeAssumption DEF Init
<1>4. fileLen \in 0 .. NumPieces
  BY DEF Init
<1> QED
  BY <1>1, <1>2, <1>3, <1>4 DEF Init, TypeOK, Labels

LEMMA TypeOKStep ==
    ASSUME TypeOK, RoomToSend, [Next]_vars
    PROVE  TypeOK'
<1> USE DEF TypeOK, Labels, Goto, file, managers, served
<1>1. ASSUME NEW p \in Piece, StartWrite(p)
      PROVE  TypeOK'
  BY <1>1, SizesType DEF StartWrite
<1>2. ASSUME NEW p \in Piece, EndWrite(p)
      PROVE  TypeOK'
  BY <1>2, SizesType DEF EndWrite
<1>3. ASSUME NEW c \in Conn, Accept(c) \/ ReadFails(c) \/ Register(c) \/ Greet(c)
                             \/ Unregister(c) \/ RemovePeer(c) \/ CloseConn(c)
      PROVE  TypeOK'
  BY <1>3 DEF Accept, ReadFails, Register, Greet, Unregister, RemovePeer, CloseConn
<1>4. ASSUME NEW c \in Conn, NEW b \in Block, GetBlock(c, b)
      PROVE  TypeOK'
  <2>1. PICK q \in BytesOf(b[1]) : block' = [block EXCEPT ![c] = [name |-> b, bytes |-> q]]
    BY <1>4 DEF GetBlock
  <2>2. [name |-> b, bytes |-> q] \in BlockRead /\ [name |-> b, bytes |-> q] # NothingRead
    BY <2>1 DEF BlockRead, BytesOf, NothingRead
  <2> QED
    BY <1>4, <2>1, <2>2 DEF GetBlock
<1>5. ASSUME NEW c \in Conn, OnPeerInterested(c)
      PROVE  TypeOK'
  BY <1>5 DEF OnPeerInterested
<1>6. ASSUME NEW c \in Conn, NEW p \in Piece, HandleHave(c, p)
      PROVE  TypeOK'
  BY <1>6 DEF HandleHave
<1>7. ASSUME NEW c \in Conn, NEW bits \in {{}, Piece}, HandleBitField(c, bits)
      PROVE  TypeOK'
  BY <1>7 DEF HandleBitField
<1>8. ASSUME NEW c \in Conn, SendPiece(c)
      PROVE  TypeOK'
  <2>1. block[c] \in BlockRead
    BY <1>8 DEF SendPiece
  <2>2. block' \in [Conn -> BlockRead \cup {NothingRead}]
        /\ \A d \in Conn : block'[d] # NothingRead <=> pc'[d] = "send"
    BY <1>8 DEF SendPiece
  <2>3. got' \in [Conn -> SUBSET BlockRead]
    BY <1>8, <2>1 DEF SendPiece
  <2>4. sent' \in [Conn -> 0 .. MaxSent]
    BY <1>8, SizeAssumption DEF SendPiece, RoomToSend
  <2> QED
    BY <1>8, <2>2, <2>3, <2>4 DEF SendPiece
<1>9. ASSUME NEW c \in Conn, CountUpload(c)
      PROVE  TypeOK'
  BY <1>9 DEF CountUpload
<1>10. ASSUME NEW c \in Conn, UpdatePeerStats(c)
       PROVE  TypeOK'
  BY <1>10 DEF UpdatePeerStats
<1>11. CASE UNCHANGED vars
  BY <1>11 DEF vars
<1> QED
  BY <1>1, <1>2, <1>3, <1>4, <1>5, <1>6, <1>7, <1>8, <1>9, <1>10, <1>11
     DEF Next, Handle, Continue

\* Lists change where the goroutine takes the connection in or out, and no step
\* is taken on behalf of another connection.
LEMMA ListsStep ==
    ASSUME TypeOK, ListsFollow, RoomToSend, [Next]_vars
    PROVE  ListsFollow' /\ RoomToSend'
<1> USE DEF TypeOK, ListsFollow, RoomToSend, InUm, InPm, Goto, managers, served
<1>1. ASSUME NEW c \in Conn, Accept(c)
      PROVE  ListsFollow' /\ RoomToSend'
  BY <1>1 DEF Accept
<1>2. ASSUME NEW c \in Conn, Register(c)
      PROVE  ListsFollow' /\ RoomToSend'
  BY <1>2 DEF Register
<1>3. ASSUME NEW c \in Conn, Greet(c) \/ ReadFails(c) \/ CloseConn(c)
      PROVE  ListsFollow' /\ RoomToSend'
  BY <1>3 DEF Greet, ReadFails, CloseConn
<1>4. ASSUME NEW c \in Conn, Unregister(c)
      PROVE  ListsFollow' /\ RoomToSend'
  BY <1>4 DEF Unregister
<1>5. ASSUME NEW c \in Conn, RemovePeer(c)
      PROVE  ListsFollow' /\ RoomToSend'
  BY <1>5 DEF RemovePeer
<1>6. ASSUME NEW c \in Conn, NEW b \in Block, GetBlock(c, b)
      PROVE  ListsFollow' /\ RoomToSend'
  BY <1>6 DEF GetBlock
<1>7. ASSUME NEW c \in Conn, SendPiece(c)
      PROVE  ListsFollow' /\ RoomToSend'
  BY <1>7 DEF SendPiece
<1>8. ASSUME NEW c \in Conn, CountUpload(c) \/ UpdatePeerStats(c)
      PROVE  ListsFollow' /\ RoomToSend'
  BY <1>8 DEF CountUpload, UpdatePeerStats
<1>9. CASE UNCHANGED <<pc, umPeers, pmPeers, sent>>
  BY <1>9
<1> QED
  BY <1>1, <1>2, <1>3, <1>4, <1>5, <1>6, <1>7, <1>8, <1>9
     DEF Next, Handle, Continue, StartWrite, EndWrite, OnPeerInterested, HandleHave,
         HandleBitField, vars
--------------------------------------------------------------------------------
(* The two counts.                                                            *)

\* The connections that have sent a block and not yet counted it.
Counting == {c \in Conn : pc[c] = "count"}

\* The second conjunct of UploadedCounts, for one connection.
Credited(c) ==
    bytesUploaded[c] + (IF pc[c] \in {"count", "stats"} THEN 1 ELSE 0) = sent[c]

LEMMA CountsFinite ==
    ASSUME TypeOK
    PROVE  /\ IsFiniteSet(Counting) /\ Cardinality(Counting) \in Nat
           /\ IsFiniteSet(SentBlocks) /\ Cardinality(SentBlocks) \in Nat
<1>1. IsFiniteSet(Conn) /\ IsFiniteSet(1 .. MaxSent)
  BY SizeAssumption, FS_Interval DEF SizeAssumption
<1>2. IsFiniteSet(Conn \X (1 .. MaxSent))
  BY <1>1, FS_Product
<1>3. IsFiniteSet(Counting) /\ IsFiniteSet(SentBlocks)
  BY <1>1, <1>2, FS_Subset DEF Counting, SentBlocks
<1> QED
  BY <1>3, FS_CardinalityType

\* Only the goroutine that sends, and the two that count, move the counts.
LEMMA CountsStep ==
    ASSUME TypeOK, RoomToSend, UploadedCounts, [Next]_vars
    PROVE  UploadedCounts'
<1> USE DEF Goto, managers, served
<1>1. ASSUME NEW c \in Conn, SendPiece(c), pc'[c] = "count"
      PROVE  UploadedCounts'
  <2>1. sent[c] \in Nat /\ sent[c] + 1 \in 1 .. MaxSent
    BY <1>1, SizeAssumption DEF SendPiece, TypeOK, RoomToSend
  <2>2. /\ sent' = [sent EXCEPT ![c] = @ + 1]
        /\ pc' = [pc EXCEPT ![c] = "count"]
        /\ pc[c] = "send"
        /\ UNCHANGED <<Uploaded, bytesUploaded>>
    BY <1>1 DEF SendPiece, TypeOK
  <2>3. SentBlocks' = SentBlocks \cup {<<c, sent[c] + 1>>} /\ <<c, sent[c] + 1>> \notin SentBlocks
    BY <2>1, <2>2 DEF TypeOK, SentBlocks
  <2>4. Counting' = Counting \cup {c} /\ c \notin Counting
    BY <2>2 DEF TypeOK, Counting
  <2>5. /\ Cardinality(SentBlocks') = Cardinality(SentBlocks) + 1
        /\ Cardinality(Counting') = Cardinality(Counting) + 1
    BY <2>3, <2>4, CountsFinite, FS_AddElement
  <2>6. \A d \in Conn : Credited(d)'
    BY <2>1, <2>2 DEF TypeOK, UploadedCounts, Credited
  <2>7. Uploaded + Cardinality(Counting) = Cardinality(SentBlocks) /\ Uploaded \in Nat
    BY DEF UploadedCounts, Counting, TypeOK
  <2>8. Uploaded' + Cardinality(Counting') = Cardinality(SentBlocks')
    BY <2>2, <2>5, <2>7, CountsFinite
  <2> QED
    BY <2>6, <2>8 DEF UploadedCounts, Credited, Counting
<1>2. ASSUME NEW c \in Conn, CountUpload(c)
      PROVE  UploadedCounts'
  <2>1. Counting' = Counting \ {c} /\ c \in Counting
    BY <1>2 DEF CountUpload, TypeOK, Counting
  <2>2. Cardinality(Counting') = Cardinality(Counting) - 1
    BY <2>1, CountsFinite, FS_RemoveElement
  <2>3. SentBlocks' = SentBlocks
    BY <1>2 DEF CountUpload, SentBlocks
  <2>4. \A d \in Conn : Credited(d)'
    BY <1>2 DEF CountUpload, TypeOK, UploadedCounts, Credited
  <2> QED
    BY <1>2, <2>2, <2>3, <2>4, CountsFinite
       DEF CountUpload, UploadedCounts, Credited, Counting, TypeOK
<1>3. ASSUME NEW c \in Conn, UpdatePeerStats(c)
      PROVE  UploadedCounts'
  <2>1. Counting' = Counting /\ SentBlocks' = SentBlocks
    BY <1>3 DEF UpdatePeerStats, TypeOK, Counting, SentBlocks
  <2>2. \A d \in Conn : Credited(d)'
    BY <1>3 DEF UpdatePeerStats, TypeOK, UploadedCounts, Credited
  <2>3. Uploaded' + Cardinality(Counting') = Cardinality(SentBlocks')
    BY <1>3, <2>1 DEF UpdatePeerStats, UploadedCounts, Counting
  <2> QED
    BY <2>2, <2>3 DEF UploadedCounts, Credited, Counting
\* Every other step keeps who counts and who is about to credit.
<1>4. ASSUME UNCHANGED <<Uploaded, bytesUploaded, sent>>,
             \A d \in Conn : /\ pc'[d] = "count" <=> pc[d] = "count"
                             /\ pc'[d] = "stats" <=> pc[d] = "stats"
      PROVE  UploadedCounts'
  <2>1. Counting' = Counting /\ SentBlocks' = SentBlocks
    BY <1>4 DEF Counting, SentBlocks
  <2> QED
    BY <1>4, <2>1 DEF UploadedCounts, Counting
<1>5. ASSUME NEW c \in Conn,
             \/ SendPiece(c) /\ pc'[c] # "count"
             \/ Accept(c)
             \/ Register(c)
             \/ Greet(c)
             \/ ReadFails(c)
             \/ Unregister(c)
             \/ RemovePeer(c)
             \/ CloseConn(c)
             \/ \E b \in Block : GetBlock(c, b)
      PROVE  UploadedCounts'
  BY <1>4, <1>5
     DEF TypeOK, SendPiece, Accept, Register, Greet, ReadFails, Unregister, RemovePeer,
         CloseConn, GetBlock
<1>6. CASE UNCHANGED <<pc, served>>
  BY <1>4, <1>6
<1> QED
  BY <1>1, <1>2, <1>3, <1>5, <1>6
     DEF Next, Handle, Continue, StartWrite, EndWrite, OnPeerInterested, HandleHave,
         HandleBitField, vars

LEMMA ServingInit == Init => ServingInv
<1> SUFFICES ASSUME Init
             PROVE  ServingInv
  OBVIOUS
<1>1. TypeOK
  BY TypeOKInit
<1>2. ListsFollow /\ RoomToSend
  BY DEF Init, ListsFollow, RoomToSend, InUm, InPm
<1>3. SentBlocks = {} /\ Counting = {}
  BY SizeAssumption DEF Init, SentBlocks, Counting
<1>4. Uploaded + Cardinality(Counting) = Cardinality(SentBlocks)
  BY <1>3, FS_EmptySet DEF Init
<1>5. \A c \in Conn : Credited(c)
  BY DEF Init, Credited
<1>6. UploadedCounts
  BY <1>4, <1>5 DEF UploadedCounts, Credited, Counting
<1> QED
  BY <1>1, <1>2, <1>6 DEF ServingInv

LEMMA ServingStep == ServingInv /\ [Next]_vars => ServingInv'
BY TypeOKStep, ListsStep, CountsStep DEF ServingInv
--------------------------------------------------------------------------------
(* The listener's rounds, on top of the connections.                          *)

\* Every step of the listener is, for the connections, one of theirs or none.
LEMMA SeederStepServes ==
    ASSUME [SeederNext]_<<vars, slots>>
    PROVE  [Next]_vars
<1>1. ASSUME Download
      PROVE  Next
  BY <1>1 DEF Download, Next
<1>2. ASSUME Round
      PROVE  UNCHANGED vars
  BY <1>2 DEF Round
<1>3. ASSUME NEW c \in Conn, OwnStep(c)
      PROVE  Next
  BY <1>3 DEF OwnStep, Next, Handle, Continue
<1>4. ASSUME NEW c \in Conn,
             \/ List(c)
             \/ GreetUnchoking(c)
             \/ Interested(c)
             \/ Upload(c)
      PROVE  Next
  BY <1>4 DEF List, GreetUnchoking, Interested, Upload, Next, Handle, Continue
<1>5. ASSUME NEW c \in Conn, NotInterested(c) \/ Ignore(c)
      PROVE  UNCHANGED vars
  BY <1>5 DEF NotInterested, Ignore, vars
<1>6. CASE UNCHANGED <<vars, slots>>
  BY <1>6
<1> QED
  BY <1>1, <1>2, <1>3, <1>4, <1>5, <1>6 DEF SeederNext

\* No peer's Unchoke is ever recorded, so that no round has a reason to choke.
SeederInv == ServingInv /\ SeederTypeOK /\ PeerChoked = Conn /\ ServedStayUnchoked

LEMMA SeederInvInit == SeederInit => SeederInv
<1> SUFFICES ASSUME SeederInit
             PROVE  SeederInv
  OBVIOUS
<1>1. ServingInv
  BY ServingInit DEF SeederInit
<1>2. SeederTypeOK
  BY <1>1 DEF SeederInit, pm!Init, SeederTypeOK, ServingInv
<1> QED
  BY <1>1, <1>2 DEF SeederInit, Init, pm!Init, SeederInv, ServedStayUnchoked

\* What a loop of a round sends takes the unchoke of no connection back.
LEMMA SendKeeps ==
    ASSUME PeerChoked = Conn, isInterested \subseteq Conn, unchoked \subseteq Conn,
           NEW first \in SUBSET isInterested, NEW rest \in SUBSET isInterested,
           pm!Send(first, rest)
    PROVE  unchoked \subseteq unchoked' /\ unchoked' \subseteq Conn
BY DEF pm!Send

LEMMA RoundKeeps ==
    ASSUME SeederInv, pm!Round
    PROVE  /\ phase' \in {"idle", "optimistic", "seeding"}
           /\ UNCHANGED <<isInterested, PeerInterested, PeerChoked, peerStats>>
           /\ optimistic' \in {optimistic} \cup isInterested
           /\ unchoked \subseteq unchoked' /\ unchoked' \subseteq Conn
<1> USE DEF SeederInv, SeederTypeOK, TypeOK
<1>1. CASE pm!RegularSlots
  <2>1. PICK first \in pm!FirstOf(isInterested \ {optimistic}, maxUnchoked) :
           \E rest \in SUBSET isInterested : pm!Send(first, rest)
    BY <1>1 DEF pm!RegularSlots
  <2>2. first \subseteq isInterested
    BY <2>1 DEF pm!FirstOf, pm!kSubset
  <2>3. unchoked \subseteq unchoked' /\ unchoked' \subseteq Conn
    BY <2>1, <2>2, SendKeeps
  <2> QED
    BY <1>1, <2>3 DEF pm!RegularSlots, pm!books
<1>2. CASE pm!OptimisticSlot
  BY <1>2 DEF pm!OptimisticSlot
<1>3. CASE pm!SeedingSlots
  BY <1>3 DEF pm!SeedingSlots, pm!books, downloadManagers
<1> QED
  BY <1>1, <1>2, <1>3 DEF pm!Round

LEMMA SeederInvStep == SeederInv /\ [SeederNext]_<<vars, slots>> => SeederInv'
<1> SUFFICES ASSUME SeederInv, [SeederNext]_<<vars, slots>>
             PROVE  SeederInv'
  OBVIOUS
<1>1. ServingInv'
  BY SeederStepServes, ServingStep DEF SeederInv
<1>2. ASSUME Round
      PROVE  SeederInv'
  <2>1. UNCHANGED vars
    BY <1>2 DEF Round
  <2>2. UNCHANGED pc
    BY <2>1 DEF vars
  <2> QED
    BY <1>1, <1>2, <2>2, RoundKeeps
       DEF Round, SeederInv, SeederTypeOK, ServingInv, ServedStayUnchoked
<1> USE DEF SeederInv, SeederTypeOK, ServingInv, ServedStayUnchoked, slots, Goto, managers
<1>3. ASSUME Download
      PROVE  SeederInv'
  BY <1>1, <1>3 DEF Download, StartWrite, EndWrite
<1>4. ASSUME NEW c \in Conn, OwnStep(c)
      PROVE  SeederInv'
  <2>1. \A d \in Conn : pc'[d] \in {"read", "send", "count", "stats"}
                           => pc[d] \in {"read", "send", "count", "stats"}
    BY <1>4 DEF OwnStep, Accept, ReadFails, GetBlock, SendPiece, CountUpload, HandleHave,
                HandleBitField, RemovePeer, CloseConn, TypeOK
  <2>2. UNCHANGED <<slots, peerStats>>
    BY <1>4 DEF OwnStep, Accept, ReadFails, GetBlock, SendPiece, CountUpload, HandleHave,
                HandleBitField, RemovePeer, CloseConn
  <2> QED
    BY <1>1, <2>1, <2>2
<1>5. ASSUME NEW c \in Conn, List(c)
      PROVE  SeederInv'
  BY <1>1, <1>5 DEF List, Register, Unregister, TypeOK
<1>6. ASSUME NEW c \in Conn, GreetUnchoking(c)
      PROVE  SeederInv'
  BY <1>1, <1>6 DEF GreetUnchoking, Greet, TypeOK
<1>7. ASSUME NEW c \in Conn, Interested(c)
      PROVE  SeederInv'
  BY <1>1, <1>7 DEF Interested, OnPeerInterested, pm!OnPeerInterested, downloadManagers
<1>8. ASSUME NEW c \in Conn, NotInterested(c)
      PROVE  SeederInv'
  BY <1>1, <1>8 DEF NotInterested, vars, pm!OnPeerNotInterested
<1>9. ASSUME NEW c \in Conn, Upload(c)
      PROVE  SeederInv'
  BY <1>1, <1>9 DEF Upload, UpdatePeerStats, pm!UpdatePeerStats, TypeOK
<1>10. CASE UNCHANGED <<vars, slots>>
  BY <1>1, <1>10 DEF vars
<1> QED
  BY <1>2, <1>3, <1>4, <1>5, <1>6, <1>7, <1>8, <1>9, <1>10 DEF SeederNext, Ignore
--------------------------------------------------------------------------------
(* The theorems.                                                              *)

\* The invariant above holds in every state of the listener, however many
\* connections, pieces and slots it has.
THEOREM SeederInvariance == SeederSpec => []SeederInv
<1> QED
  BY SeederInvInit, SeederInvStep, PTL DEF SeederSpec

\* The rounds of the listener's peer manager find statistics for every peer they
\* list (manager.go, runChokingAlgorithm), and both parts keep their types.
THEOREM SeederTypeCorrect == SeederSpec => []SeederTypeOK
<1>1. SeederInv => SeederTypeOK
  BY DEF SeederInv
<1> QED
  BY <1>1, SeederInvariance, PTL

\* Both managers list open connections only (connection.go, StartPeerListener;
\* message_handler.go, HandleSeedingPeer).
THEOREM ListedConnectionsOpen == SeederSpec => []ListedAreOpen
<1>1. SeederInv => ListedAreOpen
  BY DEF SeederInv, ServingInv, TypeOK, ListsFollow, InUm, InPm, ListedAreOpen
<1> QED
  BY <1>1, SeederInvariance, PTL

\* What the two managers counted is what the peers were sent, but for the blocks
\* on their way from SendPiece to the counts (message_handler.go, HandleSeedingPeer).
THEOREM CountsAgree == SeederSpec => []UploadedCounts
<1>1. SeederInv => UploadedCounts
  BY DEF SeederInv, ServingInv
<1> QED
  BY <1>1, SeederInvariance, PTL

\* No round chokes a connection that is being served.
THEOREM NeverChokedWhileServed == SeederSpec => []ServedStayUnchoked
<1>1. SeederInv => ServedStayUnchoked
  BY DEF SeederInv
<1> QED
  BY <1>1, SeederInvariance, PTL
================================================================================
