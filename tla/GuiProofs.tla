------------------------------- MODULE GuiProofs -------------------------------
(***************************************************************************)
(* The window for any number of torrents and trackers.  ListIsTrue does not    *)
(* carry itself: the closure of addTorrent and Remove both store lists they      *)
(* loaded earlier, so the proof needs that, until both have one loaded at once,    *)
(* what each has loaded is still the list; that a deleted torrent was in the list   *)
(* once only and is the selected one; and that the torrent in the closure is new     *)
(* to the list and not removed.                                                *)
(***************************************************************************)
EXTENDS Gui, SequenceTheorems, TLAPS

\* No torrent is twice in the list.
ListedOnce == \A i, j \in DOMAIN torrentList : torrentList[i] = torrentList[j] => i = j

Listed(t) == \E i \in DOMAIN torrentList : torrentList[i] = t

\* The list is what was added and not removed, each torrent once.
ListGood ==
    /\ ListedOnce
    /\ \A t \in Torrent : Listed(t) <=> t \in Added \ Deleted

SelectionListed == selectedTorrent # NoTorrent => Listed(selectedTorrent)

\* Only a torrent whose goroutines were started is removed.
RemovedStarted == \A t \in removed : ticker[t] # "none"

\* The closure that is about to append is of a torrent that was not removed, and what it
\* has loaded is the list.
ClosureGood ==
    /\ processor \in {"load", "store"} =>
          copy.torrent \notin removed /\ ticker[copy.torrent] # "none"
    /\ processor = "store" => copy.list = torrentList

\* What Remove will store is the list without the selected torrent.
RemoveGood ==
    events = "delete" => /\ processor # "store"
                         /\ selectedTorrent \in removed /\ Listed(selectedTorrent)
                         /\ kept = Without(torrentList, selectedTorrent)

\* The goroutines of a torrent start together, those of the one that is being added have
\* not, and only a closure that has not stored its list has a torrent.
StartedOnce ==
    /\ \A t \in Torrent : ticker[t] = "none" => peers[t] = "none"
    /\ events = "add" => adding \in Torrent /\ ticker[adding] = "none"
    /\ processor \in {"load", "store"} => copy.torrent \in Torrent
    /\ processor \notin {"load", "store"} => copy.torrent = NoTorrent

ListInv == ListGood /\ SelectionListed /\ RemovedStarted /\ ClosureGood /\ RemoveGood

IInv == TypeOK /\ StartedOnce /\ (raced \/ ListInv)
--------------------------------------------------------------------------------
(* The deletion.                                                              *)

\* A list in which elements moved, from whatever place on.
LEMMA MoveUpType ==
    ASSUME NEW S, NEW list \in Seq(S), NEW i
    PROVE  /\ MoveUp(list, i) \in Seq(S)
           /\ Len(MoveUp(list, i)) = Len(list)
           /\ \A j \in 1 .. Len(list) :
                 MoveUp(list, i)[j] = IF i <= j /\ j < Len(list) THEN list[j + 1] ELSE list[j]
<1>1. Len(list) \in Nat /\ DOMAIN list = 1 .. Len(list)
  BY LenProperties
<1>2. MoveUp(list, i)
        = [j \in 1 .. Len(list) |-> IF i <= j /\ j < Len(list) THEN list[j + 1] ELSE list[j]]
  BY <1>1 DEF MoveUp
<1>3. \A j \in 1 .. Len(list) :
         (IF i <= j /\ j < Len(list) THEN list[j + 1] ELSE list[j]) \in S
  BY <1>1, ElementOfSeq
<1> QED
  BY <1>1, <1>2, <1>3

LEMMA WithoutType ==
    ASSUME NEW list \in Seq(Torrent), NEW t
    PROVE  Without(list, t) \in Seq(Torrent)
<1> DEFINE moved == MoveUp(list, FirstAt(list, t))
<1>1. Len(list) \in Nat /\ moved \in Seq(Torrent) /\ Len(moved) = Len(list)
  BY MoveUpType, LenProperties
<1> HIDE DEF moved
<1>2. \A j \in 1 .. Len(list) - 1 : moved[j] \in Torrent
  BY <1>1, ElementOfSeq
<1>3. SubSeq(moved, 1, Len(list) - 1) \in Seq(Torrent)
  BY <1>1, <1>2, SubSeqProperties
<1> QED
  BY <1>3 DEF Without, moved

\* Deleting element i keeps every other element, once, and that element no more.
LEMMA DeletedElement ==
    ASSUME NEW S, NEW list \in Seq(S), NEW i \in DOMAIN list, NEW short,
           short = SubSeq(MoveUp(list, i), 1, Len(list) - 1)
    PROVE  /\ short \in Seq(S)
           /\ DOMAIN short = 1 .. Len(list) - 1
           /\ \A j \in DOMAIN short : short[j] = IF i <= j THEN list[j + 1] ELSE list[j]
<1>1. Len(list) \in Nat /\ DOMAIN list = 1 .. Len(list)
  BY LenProperties
<1>2. /\ Len(MoveUp(list, i)) = Len(list) /\ MoveUp(list, i) \in Seq(S)
      /\ \A j \in 1 .. Len(list) :
            MoveUp(list, i)[j] = IF i <= j /\ j < Len(list) THEN list[j + 1] ELSE list[j]
  <2>1. i \in Nat
    BY <1>1
  <2> QED
    BY <2>1, MoveUpType
<1>3. /\ short \in Seq(S)
      /\ Len(short) = Len(list) - 1
      /\ \A j \in 1 .. Len(list) - 1 : short[j] = MoveUp(list, i)[j]
  <2>1. /\ short \in Seq(S)
        /\ Len(short) = IF 1 <= Len(list) - 1 THEN Len(list) - 1 - 1 + 1 ELSE 0
        /\ \A j \in 1 .. Len(list) - 1 - 1 + 1 : short[j] = MoveUp(list, i)[1 + j - 1]
    <3>1. \A j \in 1 .. Len(list) - 1 : MoveUp(list, i)[j] \in S
      BY <1>1, <1>2, ElementOfSeq
    <3> QED
      BY <1>1, <3>1, SubSeqProperties
  <2> QED
    BY <1>1, <2>1
<1>4. DOMAIN short = 1 .. Len(list) - 1
  BY <1>3, LenProperties
<1>5. \A j \in 1 .. Len(list) - 1 : MoveUp(list, i)[j] = IF i <= j THEN list[j + 1] ELSE list[j]
  BY <1>1, <1>2
<1> QED
  BY <1>3, <1>4, <1>5

\* What Remove keeps of a list in which no torrent is twice: every other torrent, once,
\* and the removed one not at all.
LEMMA Deletion ==
    ASSUME TypeOK, ListedOnce, NEW t \in Torrent, Listed(t),
           torrentList' = Without(torrentList, t)
    PROVE  /\ \A u \in Torrent : Listed(u)' <=> Listed(u) /\ u # t
           /\ ListedOnce'
<1>1. torrentList \in Seq(Torrent) /\ DOMAIN torrentList = 1 .. Len(torrentList)
      /\ Len(torrentList) \in Nat
  BY LenProperties DEF TypeOK
<1>2. PICK i \in DOMAIN torrentList : torrentList[i] = t
  BY DEF Listed
<1>3. FirstAt(torrentList, t) = i
  BY <1>1, <1>2 DEF FirstAt, ListedOnce
<1>4. /\ DOMAIN torrentList' = 1 .. Len(torrentList) - 1
      /\ \A k \in DOMAIN torrentList' :
            torrentList'[k] = IF i <= k THEN torrentList[k + 1] ELSE torrentList[k]
  <2> DEFINE short == SubSeq(MoveUp(torrentList, i), 1, Len(torrentList) - 1)
  <2>1. torrentList' = short
    BY <1>3 DEF Without
  <2>2. /\ short \in Seq(Torrent)
        /\ DOMAIN short = 1 .. Len(torrentList) - 1
        /\ \A k \in DOMAIN short :
              short[k] = IF i <= k THEN torrentList[k + 1] ELSE torrentList[k]
    <3> HIDE DEF short
    <3>1. short = SubSeq(MoveUp(torrentList, i), 1, Len(torrentList) - 1)
      BY DEF short
    <3>2. torrentList \in Seq(Torrent) /\ i \in DOMAIN torrentList
      BY <1>1
    <3> QED
      BY <3>1, <3>2, DeletedElement
  <2> HIDE DEF short
  <2> QED
    BY <2>1, <2>2
<1>5. \A k \in DOMAIN torrentList' : torrentList'[k] # t /\ Listed(torrentList'[k])
  BY <1>1, <1>2, <1>4 DEF ListedOnce, Listed
<1>6. ASSUME NEW j \in DOMAIN torrentList, j # i
      PROVE  \E k \in DOMAIN torrentList' : torrentList'[k] = torrentList[j]
  <2>1. CASE j < i
    BY <1>1, <1>4, <2>1
  <2>2. CASE i < j
    <3>1. j - 1 \in DOMAIN torrentList' /\ torrentList'[j - 1] = torrentList[j]
      BY <1>1, <1>4, <2>2
    <3> QED
      BY <3>1
  <2> QED
    BY <1>1, <1>6, <2>1, <2>2
<1>7. ListedOnce'
  BY <1>1, <1>2, <1>4 DEF ListedOnce
<1> QED
  BY <1>2, <1>5, <1>6, <1>7 DEF Listed

\* A list that was appended to.
LEMMA Appended ==
    ASSUME NEW list \in Seq(Torrent), NEW t \in Torrent
    PROVE  /\ Append(list, t) \in Seq(Torrent)
           /\ DOMAIN Append(list, t) = 1 .. Len(list) + 1
           /\ \A i \in DOMAIN Append(list, t) :
                 Append(list, t)[i] = IF i \in DOMAIN list THEN list[i] ELSE t
<1>1. Len(list) \in Nat /\ DOMAIN list = 1 .. Len(list)
  BY LenProperties
<1>2. /\ Append(list, t) \in Seq(Torrent)
      /\ Len(Append(list, t)) = Len(list) + 1
      /\ \A i \in 1 .. Len(list) : Append(list, t)[i] = list[i]
      /\ Append(list, t)[Len(list) + 1] = t
  BY AppendProperties
<1>3. DOMAIN Append(list, t) = 1 .. Len(list) + 1
  BY <1>2, LenProperties
<1> QED
  BY <1>1, <1>2, <1>3
--------------------------------------------------------------------------------
(* The invariant.                                                             *)

PeersLabels == {"none", "trackers", "error", "connect", "done", "ended"}

LEMMA IInvInit == Init => IInv
<1> SUFFICES ASSUME Init
             PROVE  IInv
  OBVIOUS
<1>1. <<>> \in Seq(Torrent) /\ DOMAIN <<>> = {}
  BY EmptySeq
<1>2. TypeOK
  <2>1. copy \in [list : Seq(Torrent), torrent : Torrent \cup {NoTorrent}]
    BY <1>1 DEF Init
  <2>2. asked \in [Torrent -> 0 .. NumTrackers]
    BY GuiAssumption DEF Init, GuiAssumption
  <2> QED
    BY <1>1, <2>1, <2>2 DEF Init, TypeOK
<1> QED
  BY <1>1, <1>2
     DEF Init, IInv, ListInv, ListGood, ListedOnce, Listed, Added, SelectionListed,
         RemovedStarted, ClosureGood, RemoveGood, StartedOnce

\* The part of the invariant about the list survives a step that leaves the list, the
\* selection and the closures alone.
LEMMA ListsUntouched ==
    ASSUME IInv, TypeOK',
           UNCHANGED <<events, adding, processor, copy, kept, torrentList, selectedTorrent,
                       removed, raced>>,
           \A t \in Torrent : ticker[t] = "none" <=> ticker'[t] = "none",
           \A t \in Torrent : peers[t] = "none" <=> peers'[t] = "none"
    PROVE  IInv'
<1>1. StartedOnce'
  BY DEF IInv, TypeOK, StartedOnce
<1>2. ListInv => ListInv'
  BY DEF IInv, TypeOK, ListInv, ListGood, ListedOnce, Listed, Added, Deleted,
         SelectionListed, RemovedStarted, ClosureGood, RemoveGood, StartedOnce
<1> QED
  BY <1>1, <1>2 DEF IInv

\* The Remove button, with or without a selection.
LEMMA RemoveStep ==
    ASSUME IInv, RemoveTorrent
    PROVE  IInv'
<1>1. TypeOK /\ StartedOnce /\ events = "idle"
  BY DEF IInv, RemoveTorrent
<1>2. /\ removed' = removed \cup ({selectedTorrent} \ {NoTorrent})
      /\ UNCHANGED <<process, adding, processor, copy, row, torrentList, ticker, peers, asked,
                     found, logs>>
  BY DEF RemoveTorrent, search, ui
<1>3. ToSet(torrentList) = {torrentList[i] : i \in DOMAIN torrentList}
  BY DEF ToSet
<1>4. CASE selectedTorrent \in ToSet(torrentList)
  <2>1. /\ kept' = Without(torrentList, selectedTorrent)
        /\ events' = "delete" /\ raced' = (raced \/ processor = "store")
        /\ selectedTorrent' = selectedTorrent
    BY <1>4 DEF RemoveTorrent
  <2>2. TypeOK'
    <3>1. kept' \in Seq(Torrent)
      BY <1>1, <2>1, WithoutType DEF TypeOK
    <3>2. raced' \in BOOLEAN
      BY <1>1, <2>1 DEF TypeOK
    <3> QED
      BY <1>1, <1>2, <2>1, <3>1, <3>2 DEF TypeOK
  <2>3. StartedOnce'
    BY <1>1, <1>2, <2>1 DEF StartedOnce
  <2>4. ASSUME ~raced'
        PROVE  ListInv'
    <3>1. ListInv /\ processor # "store"
      BY <2>1, <2>4 DEF IInv
    <3>2. Listed(selectedTorrent) /\ selectedTorrent \in Torrent
      <4>1. \A i \in DOMAIN torrentList : torrentList[i] \in Torrent
        BY <1>1, ElementOfSeq, LenProperties DEF TypeOK
      <4> QED
        BY <1>3, <1>4, <4>1 DEF Listed
    <3>3. selectedTorrent \in Added /\ selectedTorrent \notin removed
          /\ selectedTorrent # NoTorrent
      BY <1>1, <3>1, <3>2, GuiAssumption DEF ListInv, ListGood, Deleted, GuiAssumption
    <3>4. Deleted' = Deleted /\ Added' = Added
      BY <1>1, <1>2, <2>1, <3>3 DEF Deleted, Added
    <3>5. ListGood' /\ SelectionListed'
      BY <1>2, <2>1, <3>1, <3>4 DEF ListInv, ListGood, ListedOnce, Listed, SelectionListed
    <3>6. RemovedStarted' /\ ClosureGood'
      BY <1>2, <2>1, <3>1, <3>3 DEF ListInv, RemovedStarted, ClosureGood, Added
    <3>7. RemoveGood'
      BY <1>2, <2>1, <3>1, <3>2, <3>3 DEF RemoveGood, Listed
    <3> QED
      BY <3>5, <3>6, <3>7 DEF ListInv
  <2> QED
    BY <2>2, <2>3, <2>4 DEF IInv
<1>5. CASE selectedTorrent \notin ToSet(torrentList)
  <2>1. events' = "remove" /\ selectedTorrent' = NoTorrent /\ UNCHANGED <<kept, raced>>
    BY <1>5 DEF RemoveTorrent
  <2>2. TypeOK' /\ StartedOnce'
    BY <1>1, <1>2, <2>1 DEF TypeOK, StartedOnce
  <2>3. ASSUME ListInv
        PROVE  ListInv'
    <3>1. selectedTorrent = NoTorrent
      BY <1>3, <1>5, <2>3 DEF ListInv, SelectionListed, Listed
    <3>2. removed' = removed
      BY <1>2, <3>1
    <3> QED
      BY <1>1, <1>2, <2>1, <2>3, <3>2
         DEF ListInv, ListGood, ListedOnce, Listed, Added, Deleted, SelectionListed,
             RemovedStarted, ClosureGood, RemoveGood
  <2> QED
    BY <2>1, <2>2, <2>3 DEF IInv
<1> QED
  BY <1>4, <1>5

\* Remove's store.
LEMMA StoreShorterStep ==
    ASSUME IInv, StoreShorter
    PROVE  IInv'
<1>1. TypeOK /\ StartedOnce /\ events = "delete"
  BY DEF IInv, StoreShorter
<1>2. /\ torrentList' = kept /\ kept' = <<>> /\ selectedTorrent' = NoTorrent
      /\ events' = "remove"
      /\ UNCHANGED <<process, adding, processor, row, removed, raced, ticker, peers, asked,
                     found, logs>>
      /\ \/ UNCHANGED copy
         \/ /\ processor = "store"
            /\ copy' = [copy EXCEPT !.list = MoveUp(@, FirstAt(@, selectedTorrent))]
  BY DEF StoreShorter, search
<1>3. TypeOK'
  <2>1. copy' \in [list : Seq(Torrent), torrent : Torrent \cup {NoTorrent}]
    <3>1. copy.list \in Seq(Torrent)
      BY <1>1 DEF TypeOK
    <3>2. MoveUp(copy.list, FirstAt(copy.list, selectedTorrent)) \in Seq(Torrent)
      BY <3>1, MoveUpType
    <3> QED
      BY <1>1, <1>2, <3>2 DEF TypeOK
  <2>2. <<>> \in Seq(Torrent)
    BY EmptySeq
  <2> QED
    BY <1>1, <1>2, <2>1, <2>2 DEF TypeOK
<1>4. StartedOnce'
  BY <1>1, <1>2 DEF TypeOK, StartedOnce
<1>5. ASSUME ListInv
      PROVE  ListInv'
  <2>1. /\ processor # "store" /\ UNCHANGED copy
        /\ selectedTorrent \in removed /\ Listed(selectedTorrent)
        /\ selectedTorrent \in Torrent
        /\ torrentList' = Without(torrentList, selectedTorrent)
    BY <1>1, <1>2, <1>5 DEF ListInv, RemoveGood, TypeOK
  <2>2. /\ \A u \in Torrent : Listed(u)' <=> Listed(u) /\ u # selectedTorrent
        /\ ListedOnce'
    BY <1>1, <1>5, <2>1, Deletion DEF ListInv, ListGood
  <2>3. Added' = Added /\ Deleted = removed \ {selectedTorrent} /\ Deleted' = removed
    BY <1>1, <1>2, <2>1 DEF Added, Deleted
  <2>4. ListGood'
    BY <1>5, <2>1, <2>2, <2>3 DEF ListInv, ListGood
  <2> QED
    BY <1>2, <1>5, <2>1, <2>4
       DEF ListInv, SelectionListed, RemovedStarted, ClosureGood, RemoveGood
<1> QED
  BY <1>2, <1>3, <1>4, <1>5 DEF IInv

\* A click, and what else the event goroutine does with the list in place.
LEMMA EventStep ==
    ASSUME IInv, Events
    PROVE  IInv'
<1> USE DEF lists, ui, search
<1>1. CASE FailToAdd \/ (\E t \in Torrent : AddTorrent(t)) \/ CloseWindow
  <2>1. /\ events = "idle" /\ events' \in {"error", "add", "idle"}
        /\ UNCHANGED <<processor, copy, row, kept, torrentList, selectedTorrent, removed, raced,
                       ticker, peers, asked, found, logs>>
    BY <1>1 DEF FailToAdd, AddTorrent, CloseWindow
  <2>2. TypeOK' /\ StartedOnce'
    BY <1>1 DEF FailToAdd, AddTorrent, CloseWindow, IInv, TypeOK, StartedOnce
  <2>3. ListInv => ListInv'
    BY <2>1 DEF ListInv, ListGood, ListedOnce, Listed, Added, Deleted, SelectionListed,
                RemovedStarted, ClosureGood, RemoveGood
  <2> QED
    BY <2>1, <2>2, <2>3 DEF IInv
<1>2. CASE RemoveTorrent
  BY <1>2, RemoveStep
<1>3. CASE StoreShorter
  BY <1>3, StoreShorterStep
<1>4. ASSUME NEW i \in 1 .. Len(torrentList) + 1, Click(i)
      PROVE  IInv'
  <2>1. \A j \in DOMAIN torrentList : torrentList[j] \in Torrent
    BY ElementOfSeq, LenProperties DEF IInv, TypeOK
  <2>2. /\ events = "idle"
        /\ \/ selectedTorrent' = NoTorrent
           \/ \E j \in DOMAIN torrentList : selectedTorrent' = torrentList[j]
        /\ UNCHANGED <<process, events, adding, processor, copy, row, kept, torrentList,
                       removed, raced, ticker, peers, asked, found, logs>>
    BY <1>4 DEF Click
  <2>3. TypeOK' /\ StartedOnce'
    BY <2>1, <2>2 DEF IInv, TypeOK, StartedOnce
  <2>4. ListInv => ListInv'
    BY <2>2 DEF ListInv, ListGood, ListedOnce, Listed, Added, Deleted, SelectionListed,
                RemovedStarted, ClosureGood, RemoveGood
  <2> QED
    BY <2>2, <2>3, <2>4 DEF IInv
<1> QED
  BY <1>1, <1>2, <1>3, <1>4 DEF Events

\* The hand-over of addTorrent's closure.
LEMMA ReceiveAddStep ==
    ASSUME IInv, ReceiveAdd
    PROVE  IInv'
<1>1. /\ TypeOK /\ StartedOnce
      /\ adding \in Torrent /\ ticker[adding] = "none" /\ peers[adding] = "none"
      /\ copy.torrent = NoTorrent
      /\ processor = "receive" /\ events = "add" /\ events' = "idle"
      /\ processor' = "load" /\ copy' = [copy EXCEPT !.torrent = adding]
      /\ adding' = NoTorrent
      /\ ticker' = [ticker EXCEPT ![adding] = "wait"]
      /\ peers' = [peers EXCEPT ![adding] = "trackers"]
      /\ UNCHANGED <<process, row, kept, torrentList, selectedTorrent, removed, raced, asked,
                     found, logs>>
  BY DEF ReceiveAdd, Receives, IInv, StartedOnce, lists, search
<1>2. TypeOK'
  <2>1. ticker' \in [Torrent -> {"none", "wait", "tick", "leave", "ended"}]
        /\ peers' \in [Torrent -> PeersLabels]
    BY <1>1 DEF TypeOK, PeersLabels
  <2> QED
    BY <1>1, <2>1 DEF TypeOK, PeersLabels
<1>3. StartedOnce'
  BY <1>1 DEF TypeOK, StartedOnce
<1>4. ASSUME ListInv
      PROVE  ListInv'
  <2>1. copy'.torrent = adding /\ adding \notin removed
    BY <1>1, <1>4 DEF TypeOK, ListInv, RemovedStarted
  <2>2. Added' = Added /\ Deleted' = Deleted
    BY <1>1, <2>1, GuiAssumption DEF TypeOK, Added, Deleted, GuiAssumption
  <2>3. ListGood' /\ SelectionListed'
    BY <1>1, <1>4, <2>2 DEF ListInv, ListGood, ListedOnce, Listed, SelectionListed
  <2>4. RemovedStarted' /\ ClosureGood' /\ RemoveGood'
    BY <1>1, <1>4, <2>1 DEF TypeOK, ListInv, RemovedStarted, ClosureGood, RemoveGood
  <2> QED
    BY <2>3, <2>4 DEF ListInv
<1> QED
  BY <1>1, <1>2, <1>3, <1>4 DEF IInv

\* The store of the closure.
LEMMA StoreListStep ==
    ASSUME IInv, StoreList
    PROVE  IInv'
<1>1. /\ TypeOK /\ StartedOnce /\ processor = "store"
      /\ torrentList' = Append(copy.list, copy.torrent)
      /\ copy' = [list |-> <<>>, torrent |-> NoTorrent]
      /\ processor' = "choose"
      /\ UNCHANGED <<process, events, adding, row, kept, selectedTorrent, removed, raced,
                     ticker, peers, asked, found, logs>>
  BY DEF IInv, StoreList, search
<1>2. copy.torrent \in Torrent /\ copy.list \in Seq(Torrent)
  BY <1>1 DEF TypeOK, StartedOnce
<1>3. /\ torrentList' \in Seq(Torrent)
      /\ DOMAIN torrentList' = 1 .. Len(copy.list) + 1
      /\ \A i \in DOMAIN torrentList' :
            torrentList'[i] = IF i \in DOMAIN copy.list THEN copy.list[i] ELSE copy.torrent
  BY <1>1, <1>2, Appended
<1>4. TypeOK' /\ StartedOnce'
  <2>1. <<>> \in Seq(Torrent)
    BY EmptySeq
  <2> QED
    BY <1>1, <1>3, <2>1 DEF TypeOK, StartedOnce
<1>5. ASSUME ListInv
      PROVE  ListInv'
  <2>1. /\ copy.list = torrentList /\ events # "delete"
        /\ copy.torrent \notin removed /\ ticker[copy.torrent] # "none"
        /\ DOMAIN torrentList = 1 .. Len(torrentList) /\ Len(torrentList) \in Nat
    BY <1>1, <1>2, <1>5, LenProperties DEF ListInv, ClosureGood, RemoveGood
  <2>2. ~Listed(copy.torrent)
    BY <1>2, <1>5 DEF ListInv, ListGood, Added
  <2>3. \A t \in Torrent : Listed(t)' <=> Listed(t) \/ t = copy.torrent
    <3>1. \A i \in DOMAIN torrentList :
             i \in DOMAIN torrentList' /\ torrentList'[i] = torrentList[i]
      BY <1>3, <2>1
    <3>2. \A i \in DOMAIN torrentList' :
             \/ i \in DOMAIN torrentList /\ torrentList'[i] = torrentList[i]
             \/ torrentList'[i] = copy.torrent
      BY <1>3, <2>1
    <3>3. Len(torrentList) + 1 \in DOMAIN torrentList'
          /\ torrentList'[Len(torrentList) + 1] = copy.torrent
      BY <1>3, <2>1
    <3> QED
      BY <3>1, <3>2, <3>3 DEF Listed
  <2>4. ListedOnce'
    BY <1>3, <1>5, <2>1, <2>2 DEF ListInv, ListGood, ListedOnce, Listed
  <2>5. Added' = Added \cup {copy.torrent} /\ Deleted' = Deleted /\ Deleted = removed
    <3>1. copy'.torrent = NoTorrent
      BY <1>1
    <3> QED
      BY <1>1, <1>2, <2>1, <3>1, GuiAssumption DEF Added, Deleted, GuiAssumption
  <2>6. ListGood'
    BY <1>5, <2>1, <2>3, <2>4, <2>5 DEF ListInv, ListGood
  <2>7. SelectionListed'
    BY <1>1, <1>5, <2>3 DEF ListInv, SelectionListed, TypeOK
  <2> QED
    BY <1>1, <1>5, <2>1, <2>6, <2>7 DEF ListInv, RemovedStarted, ClosureGood, RemoveGood
<1> QED
  BY <1>1, <1>4, <1>5 DEF IInv

\* The processor: the other steps of addTorrent's closure, and the closures that touch
\* no list.
LEMMA ProcessorStep ==
    ASSUME IInv, Processor
    PROVE  IInv'
<1> USE DEF lists, ui, search
<1>1. CASE LoadList
  <2>1. TypeOK' /\ StartedOnce'
    <3>1. raced' \in BOOLEAN
      BY <1>1 DEF LoadList, IInv, TypeOK
    <3> QED
      BY <1>1, <3>1 DEF LoadList, IInv, TypeOK, StartedOnce
  <2>2. ASSUME ~raced'
        PROVE  ListInv'
    <3>1. ListInv /\ events # "delete" /\ copy'.torrent = copy.torrent
          /\ copy'.list = torrentList
      BY <1>1, <2>2 DEF LoadList, IInv, TypeOK
    <3> QED
      BY <1>1, <3>1
         DEF LoadList, ListInv, ListGood, ListedOnce, Listed, Added, Deleted, SelectionListed,
             RemovedStarted, ClosureGood, RemoveGood
  <2> QED
    BY <2>1, <2>2 DEF IInv
<1>2. CASE ChooseRow
  <2>1. /\ processor = "choose" /\ processor' \in {"receive", "select"}
        /\ UNCHANGED <<process, events, adding, copy, kept, torrentList, selectedTorrent,
                       removed, raced, ticker, peers, asked, found, logs>>
    BY <1>2 DEF ChooseRow
  <2>2. row' \in Nat
    BY <1>2, LenProperties DEF ChooseRow, IInv, TypeOK
  <2>3. TypeOK' /\ StartedOnce'
    BY <2>1, <2>2 DEF IInv, TypeOK, StartedOnce
  <2>4. ListInv => ListInv'
    BY <2>1 DEF ListInv, ListGood, ListedOnce, Listed, Added, Deleted, SelectionListed,
                RemovedStarted, ClosureGood, RemoveGood
  <2> QED
    BY <2>1, <2>3, <2>4 DEF IInv
<1>3. CASE OnSelected
  <2>1. \A i \in DOMAIN torrentList : torrentList[i] \in Torrent
    BY ElementOfSeq, LenProperties DEF IInv, TypeOK
  <2>2. /\ processor = "select" /\ processor' = "receive" /\ row' = 0
        /\ events # "delete"
        /\ \/ selectedTorrent' = NoTorrent
           \/ \E i \in DOMAIN torrentList : selectedTorrent' = torrentList[i]
        /\ UNCHANGED <<process, events, adding, copy, kept, torrentList, removed, raced,
                       ticker, peers, asked, found, logs>>
    BY <1>3 DEF OnSelected, LockHeld
  <2>3. TypeOK' /\ StartedOnce'
    BY <2>1, <2>2 DEF IInv, TypeOK, StartedOnce
  <2>4. ListInv => ListInv'
    BY <2>2 DEF ListInv, ListGood, ListedOnce, Listed, Added, Deleted, SelectionListed,
                RemovedStarted, ClosureGood, RemoveGood
  <2> QED
    BY <2>2, <2>3, <2>4 DEF IInv
<1>4. CASE ReceiveNotice
  <2>1. /\ events \in {"remove", "error"} /\ events' = "idle"
        /\ UNCHANGED <<process, adding, processor, copy, row, kept, torrentList,
                       selectedTorrent, removed, raced, ticker, peers, asked, found, logs>>
    BY <1>4 DEF ReceiveNotice
  <2>2. TypeOK' /\ StartedOnce'
    BY <2>1 DEF IInv, TypeOK, StartedOnce
  <2>3. ListInv => ListInv'
    BY <2>1 DEF ListInv, ListGood, ListedOnce, Listed, Added, Deleted, SelectionListed,
                RemovedStarted, ClosureGood, RemoveGood
  <2> QED
    BY <2>1, <2>2, <2>3 DEF IInv
<1>5. CASE ReceiveLogs \/ EndProcessor
  <2>1. TypeOK'
    BY <1>5 DEF ReceiveLogs, EndProcessor, IInv, TypeOK
  <2> QED
    BY <1>5, <2>1, ListsUntouched DEF ReceiveLogs, EndProcessor
<1>6. ASSUME NEW t \in Torrent, ReceiveTicker(t)
      PROVE  IInv'
  <2>1. TypeOK'
    BY <1>6 DEF ReceiveTicker, IInv, TypeOK
  <2> QED
    BY <1>6, <2>1, ListsUntouched DEF ReceiveTicker, IInv, TypeOK
<1>7. ASSUME NEW t \in Torrent, ReceivePeers(t)
      PROVE  IInv'
  <2>1. TypeOK'
    BY <1>7 DEF ReceivePeers, IInv, TypeOK
  <2> QED
    BY <1>7, <2>1, ListsUntouched DEF ReceivePeers, IInv, TypeOK
<1> QED
  BY <1>1, <1>2, <1>3, <1>4, <1>5, <1>6, <1>7, ReceiveAddStep, StoreListStep DEF Processor

\* The goroutines of a torrent.
LEMMA GoroutineStep ==
    ASSUME IInv, NEW t \in Torrent, Goroutine(t)
    PROVE  IInv'
<1> USE DEF lists, ui, search
<1>1. CASE Tick(t) \/ StopTicker(t)
  <2>1. TypeOK'
    BY <1>1 DEF Tick, StopTicker, IInv, TypeOK
  <2> QED
    BY <1>1, <2>1, ListsUntouched DEF Tick, StopTicker, IInv, TypeOK
<1>2. CASE AskTracker(t)
  <2>1. TypeOK'
    <3>1. asked' \in [Torrent -> 0 .. NumTrackers]
      <4>1. 0 \in 0 .. NumTrackers /\ asked[t] + 1 \in 0 .. NumTrackers
        BY <1>2, GuiAssumption DEF AskTracker, IInv, TypeOK, GuiAssumption
      <4> QED
        BY <1>2, <4>1 DEF AskTracker, Forget, IInv, TypeOK
    <3>2. found' \subseteq Torrent
      BY <1>2 DEF AskTracker, Forget, IInv, TypeOK
    <3>3. peers' \in [Torrent -> PeersLabels]
      BY <1>2 DEF AskTracker, IInv, TypeOK, PeersLabels
    <3> QED
      BY <1>2, <3>1, <3>2, <3>3 DEF AskTracker, IInv, TypeOK, PeersLabels
  <2> QED
    BY <1>2, <2>1, ListsUntouched DEF AskTracker, IInv, TypeOK
<1>3. CASE GetAllPeers(t) \/ ConnectionsEnd(t)
  <2>1. TypeOK'
    <3>0. 0 \in 0 .. NumTrackers /\ asked \in [Torrent -> 0 .. NumTrackers]
      BY GuiAssumption DEF IInv, TypeOK, GuiAssumption
    <3>1. asked' \in [Torrent -> 0 .. NumTrackers] /\ found' \subseteq Torrent
      <4>1. CASE GetAllPeers(t)
        BY <3>0, <4>1 DEF GetAllPeers, Forget, IInv, TypeOK
      <4>2. CASE ConnectionsEnd(t)
        BY <3>0, <4>2 DEF ConnectionsEnd, IInv, TypeOK
      <4> QED
        BY <1>3, <4>1, <4>2
    <3>2. peers' \in [Torrent -> PeersLabels]
      BY <1>3 DEF GetAllPeers, ConnectionsEnd, IInv, TypeOK, PeersLabels
    <3> QED
      BY <1>3, <3>1, <3>2 DEF GetAllPeers, ConnectionsEnd, IInv, TypeOK, PeersLabels
  <2> QED
    BY <1>3, <2>1, ListsUntouched DEF GetAllPeers, ConnectionsEnd, IInv, TypeOK
<1> QED
  BY <1>1, <1>2, <1>3 DEF Goroutine

LEMMA IInvStep == IInv /\ [Next]_vars => IInv'
<1> SUFFICES ASSUME IInv, [Next]_vars
             PROVE  IInv'
  OBVIOUS
<1> USE DEF lists, ui, search
<1>1. CASE UpdateLogs
  <2>1. TypeOK'
    BY <1>1 DEF UpdateLogs, IInv, TypeOK
  <2> QED
    BY <1>1, <2>1, ListsUntouched DEF UpdateLogs
<1>2. CASE SendOnClosed
  <2>1. TypeOK'
    BY <1>2 DEF SendOnClosed, IInv, TypeOK
  <2> QED
    BY <1>2, <2>1, ListsUntouched DEF SendOnClosed
<1>3. CASE UNCHANGED vars
  <2>1. TypeOK'
    BY <1>3 DEF vars, IInv, TypeOK
  <2> QED
    BY <1>3, <2>1, ListsUntouched DEF vars
<1> QED
  BY <1>1, <1>2, <1>3, ProcessorStep, EventStep, GoroutineStep DEF Next
--------------------------------------------------------------------------------
(* The theorems.                                                              *)

\* The invariant above holds in every state of the window, for any number of torrents
\* and of trackers, whatever the user does and however the goroutines interleave.
THEOREM Invariance == Spec => []IInv
<1> QED
  BY IInvInit, IInvStep, PTL DEF Spec

\* Every variable of the window stays in its range (gui.go).
THEOREM TypeCorrect == Spec => []TypeOK
<1>1. IInv => TypeOK
  BY DEF IInv
<1> QED
  BY <1>1, Invariance, PTL

\* Unless Remove (gui.go, l.324) and the closure of addTorrent (l.635) have both had the
\* list loaded at once, the list is what was added and not removed, and the selection is
\* in it.
THEOREM ListKept == Spec => []ListIsTrue
<1>1. IInv => ListIsTrue
  <2> SUFFICES ASSUME TypeOK, ListInv
               PROVE  ListIsTrue
    BY DEF IInv, ListIsTrue
  <2>1. ToSet(torrentList) = {torrentList[i] : i \in DOMAIN torrentList}
    BY DEF ToSet
  <2>2. \A i \in DOMAIN torrentList : torrentList[i] \in Torrent
    BY ElementOfSeq, LenProperties DEF TypeOK
  <2>3. ToSet(torrentList) = {t \in Torrent : Listed(t)}
    BY <2>1, <2>2 DEF Listed
  <2>4. ToSet(torrentList) = Added \ Deleted
    BY <2>3 DEF ListInv, ListGood, Added
  <2>5. IsInjective(torrentList)
    BY DEF ListInv, ListGood, ListedOnce, IsInjective
  <2>6. selectedTorrent # NoTorrent => selectedTorrent \in ToSet(torrentList)
    BY <2>1 DEF ListInv, SelectionListed, Listed
  <2> QED
    BY <2>4, <2>5, <2>6 DEF ListIsTrue
<1> QED
  BY <1>1, Invariance, PTL

\* What a step does to the variables of PeersGoroutine, for one torrent.
LEMMA PromisedStep ==
    ASSUME IInv, Next, NEW t \in Torrent
    PROVE  P(t)!Next \/ UNCHANGED P(t)!vars
<1> USE DEF lists, ui, search, P!vars
<1>1. CASE UNCHANGED <<peers, asked, found, removed>>
  BY <1>1
<1>2. CASE RemoveTorrent
  BY <1>2 DEF RemoveTorrent, P!Next, P!Cancel
<1>3. CASE ReceiveAdd
  BY <1>3 DEF ReceiveAdd, IInv, TypeOK, StartedOnce, P!Next, P!Start, P!Go
<1>4. ASSUME NEW u \in Torrent, ReceivePeers(u)
      PROVE  P(t)!Next \/ UNCHANGED P(t)!vars
  BY <1>4 DEF ReceivePeers, IInv, TypeOK, P!Next, P!Report, P!Go
<1>5. ASSUME NEW u \in Torrent, AskTracker(u)
      PROVE  P(t)!Next \/ UNCHANGED P(t)!vars
  <2>1. CASE t # u
    BY <1>5, <2>1 DEF AskTracker, Forget, IInv, TypeOK
  <2>2. CASE t = u /\ t \in removed
    BY <1>5, <2>2 DEF AskTracker, Forget, IInv, TypeOK, P!Next, P!GiveUp, P!Go
  <2>3. CASE t = u /\ t \notin removed
    <3>1. peers[t] = "trackers" /\ asked[t] < NumTrackers /\ asked'[t] = asked[t] + 1
          /\ UNCHANGED <<removed, peers>>
      BY <1>5, <2>3 DEF AskTracker, IInv, TypeOK
    <3>2. \/ (t \in found') = (t \in found)
          \/ (t \in found') = TRUE
      BY <1>5, <2>3 DEF AskTracker
    <3>3. P(t)!Ask
      BY <3>1, <3>2 DEF P!Ask
    <3> QED
      BY <3>3 DEF P!Next
  <2> QED
    BY <2>1, <2>2, <2>3
<1>6. ASSUME NEW u \in Torrent, GetAllPeers(u)
      PROVE  P(t)!Next \/ UNCHANGED P(t)!vars
  BY <1>6 DEF GetAllPeers, Forget, IInv, TypeOK, P!Next, P!SearchEnds, P!Go
<1>7. ASSUME NEW u \in Torrent, ConnectionsEnd(u)
      PROVE  P(t)!Next \/ UNCHANGED P(t)!vars
  BY <1>7 DEF ConnectionsEnd, IInv, TypeOK, P!Next, P!ConnectionsEnd, P!Go
<1> QED
  BY <1>1, <1>2, <1>3, <1>4, <1>5, <1>6, <1>7
     DEF Next, Processor, Events, Goroutine, LoadList, StoreList, ChooseRow, OnSelected,
         ReceiveNotice, ReceiveLogs, ReceiveTicker, EndProcessor, FailToAdd, AddTorrent, StoreShorter,
         Click, CloseWindow, Tick, StopTicker, UpdateLogs, SendOnClosed

\* The window implements PeersGoroutine for every torrent at once (gui.go, the peers
\* goroutine of addTorrent): started once, one question per tracker, one report.
THEOREM WindowImplementation == Spec => PeersAsPromised
<1>1. Init => \A t \in Torrent : P(t)!Init
  BY DEF Init, P!Init
<1>2. IInv /\ [Next]_vars
        => [\A t \in Torrent : P(t)!Next \/ UNCHANGED P(t)!vars]_vars
  BY PromisedStep
<1> QED
  BY <1>1, <1>2, Invariance, PTL DEF Spec, PeersAsPromised
================================================================================
