------------------------- MODULE PeerConnectionProofs --------------------------
(***************************************************************************)
(* PeerConnection for every number of attempts and for dials that do and do   *)
(* not outlive their context.  IInv ties the four goroutines together: from    *)
(* where RetryConnect is, it says whether a reader can exist, what "done"       *)
(* means, and who may have brought statistics back.                            *)
(***************************************************************************)
EXTENDS PeerConnection, TLAPS

\* The places between pm.AddPeer and the deferred RemovePeer.
Handling == {"greet", "started", "select", "done"}

\* A wait between attempts is followed by another attempt.
MoreToTry == main = "delay" => attempt < maxRetries

\* The reader is started once, after the greeting, and no attempt follows.
ReaderAfterGreeting == reader # "none" => main \in {"started", "select", "done", "returned"}

\* The done signal is the last thing a reader does.
DoneMeansEnded == main = "done" => reader = "ended"

\* There are statistics only while the peer is handled, unless a reader that was
\* overtaken by the cancellation made them anew.
StatsWhileHandled == stats => main \in Handling \/ (main = "returned" /\ cancelled)

\* A handler that returned without a cancellation had heard from its reader, if
\* there was one.
ReturnedMeansEnded == main = "returned" /\ ~cancelled => reader \in {"none", "ended"}

IInv ==
    /\ TypeOK
    /\ MoreToTry
    /\ ListedWhileHandled
    /\ ReaderAfterGreeting
    /\ DoneMeansEnded
    /\ StatsWhileHandled
    /\ ReturnedMeansEnded
    /\ OpenIsHeld
--------------------------------------------------------------------------------
LEMMA IInvInit == Init => IInv
<1> SUFFICES ASSUME Init
             PROVE  IInv
  OBVIOUS
<1>1. {cancelled, listed, stats} \subseteq BOOLEAN
  BY Zenon DEF Init
<1>2. TypeOK
  BY <1>1, RetryAssumption DEF Init, TypeOK, Attempt
<1>3. ListedWhileHandled
  BY DEF Init, ListedWhileHandled
<1> QED
  BY <1>2, <1>3
     DEF Init, IInv, MoreToTry, ReaderAfterGreeting, DoneMeansEnded, StatsWhileHandled,
         ReturnedMeansEnded, OpenIsHeld, Handling

\* One step per action.
LEMMA IInvStep ==
    ASSUME IInv, [Next]_vars
    PROVE  IInv'
<1> USE RetryAssumption
    DEF RetryAssumption, IInv, TypeOK, Attempt, MoreToTry, ListedWhileHandled, ReaderAfterGreeting,
        DoneMeansEnded, StatsWhileHandled, ReturnedMeansEnded, OpenIsHeld, Handling,
        dial
<1>1. CASE TryAttempt
  BY <1>1 DEF TryAttempt
<1>2. CASE Delay
  BY <1>2 DEF Delay
<1>3. CASE Lookup
  BY <1>3 DEF Lookup, AfterFailure
<1>4. CASE Connected
  BY <1>4 DEF Connected, AfterFailure
<1>5. CASE PerformHandshake
  BY <1>5 DEF PerformHandshake, AfterFailure
<1>6. CASE Register
  BY <1>6 DEF Register
<1>7. CASE Greet
  BY <1>7 DEF Greet, Leave, AfterFailure
<1>8. CASE StartTicker
  BY <1>8 DEF StartTicker
<1>9. CASE EndConnection
  BY <1>9 DEF EndConnection, Leave
<1>10. CASE ReaderLoop
  BY <1>10 DEF ReaderLoop
<1>11. CASE ReadMsg
  BY <1>11 DEF ReadMsg
<1>12. CASE HandleMessage
  BY <1>12 DEF HandleMessage
<1>13. CASE ReaderCloses
  BY <1>13 DEF ReaderCloses
<1>14. CASE SignalDone
  BY <1>14 DEF SignalDone
<1>15. ASSUME NEW a \in Attempt, DialReturns(a)
       PROVE  IInv'
  BY <1>15 DEF DialReturns
<1>16. CASE StopTicker
  BY <1>16 DEF StopTicker
<1>17. CASE Cancel
  BY <1>17 DEF Cancel
<1>18. CASE UNCHANGED vars
  BY <1>18 DEF vars
<1> QED
  BY <1>1, <1>2, <1>3, <1>4, <1>5, <1>6, <1>7, <1>8, <1>9, <1>10, <1>11, <1>12, <1>13,
     <1>14, <1>15, <1>16, <1>17, <1>18 DEF Next, Main, Reader

\* Every step leaves the attempt alone once a reader was started: only Delay
\* counts on, and no reader outlives the way there.
LEMMA ConnectedOnceStep ==
    ASSUME IInv, [Next]_vars
    PROVE  reader # "none" => attempt' = attempt
<1>1. CASE Delay
  BY <1>1 DEF Delay, IInv, ReaderAfterGreeting
<1>2. CASE Next /\ ~Delay
  BY <1>2
     DEF Next, Main, Reader, TryAttempt, Lookup, Connected, PerformHandshake, Register,
         Greet, StartTicker, EndConnection, ReaderLoop, ReadMsg, HandleMessage,
         ReaderCloses, SignalDone, DialReturns, StopTicker, Cancel
<1>3. CASE UNCHANGED vars
  BY <1>3 DEF vars
<1> QED
  BY <1>1, <1>2, <1>3
--------------------------------------------------------------------------------
(* The connection by itself; TorrentPeersProofs has the same of the connection  *)
(* within the peers goroutine.                                                 *)

\* The four goroutines of a connection keep to IInv.
THEOREM Invariance == Spec => []IInv
<1>1. Init => IInv
  BY IInvInit
<1>2. IInv /\ [Next]_vars => IInv'
  BY IInvStep
<1> QED
  BY <1>1, <1>2, PTL DEF Spec

\* The properties of PeerConnection are parts of IInv or follow from them.
LEMMA IInvSuffices ==
    ASSUME IInv
    PROVE  TypeOK /\ ListedWhileHandled /\ ReaderEndsFirst /\ OpenIsHeld
BY DEF IInv, ReaderEndsFirst, ReturnedMeansEnded, StatsWhileHandled, Handling
================================================================================
