---------------------------- MODULE PeerConnection -----------------------------
(***************************************************************************)
(* The life of the connection to one peer (lib/peer/connection.go):          *)
(* RetryConnect calls ConnectToPeer, which looks the peer up, dials in a      *)
(* goroutine of its own, shakes hands and runs HandlePeerConnection; that     *)
(* registers the peer, starts the reader and the ticker goroutines and waits   *)
(* for the first of cancellation and the done signal.  The torrent's context   *)
(* may be cancelled at any moment (the GUI's remove button).                   *)
(***************************************************************************)
EXTENDS Naturals, FiniteSets

CONSTANTS
    maxRetries,      \* attempts RetryConnect makes
    DialOutlives     \* whether a dial may still succeed when its context is over

ASSUME RetryAssumption == maxRetries \in Nat \ {0} /\ DialOutlives \in BOOLEAN

Attempt == 1 .. maxRetries

VARIABLES
    cancelled,   \* ctx is done
    main,        \* where RetryConnect's goroutine is, or "returned"
    attempt,     \* its loop variable
    dialing,     \* the attempts whose dial goroutine is in DialContext
    dialed,      \* the attempts whose connection waits in the buffered connCh
    open,        \* the attempts whose net.Conn is open
    listed,      \* the peer is in dm.Peers and pm.Peers
    stats,       \* the peer has an entry in pm.peerStats
    reader,      \* where the reader goroutine is, "none" before it is started
    ticker       \* "none", "running" or "ended"

dial == <<dialing, dialed>>
vars == <<cancelled, main, attempt, dial, open, listed, stats, reader, ticker>>

Init ==
    /\ cancelled = FALSE
    /\ main = "retry"
    /\ attempt = 1
    /\ dialing = {}
    /\ dialed = {}
    /\ open = {}
    /\ listed = FALSE
    /\ stats = FALSE
    /\ reader = "none"
    /\ ticker = "none"
--------------------------------------------------------------------------------
\* RetryConnect.

\* The top of the loop looks at the context.
TryAttempt ==
    /\ main = "retry"
    /\ main' = IF cancelled THEN "returned" ELSE "lookup"
    /\ UNCHANGED <<cancelled, attempt, dial, open, listed, stats, reader, ticker>>

\* What follows an attempt that failed; and one attempt too many.
AfterFailureOnceMore == IF attempt <= maxRetries THEN "delay" ELSE "returned"
AfterFailure == IF attempt < maxRetries THEN "delay" ELSE "returned"

\* The wait between two attempts ends with the context or with the timer.
Delay ==
    /\ main = "delay"
    /\ \/ /\ cancelled
          /\ main' = "returned"
          /\ UNCHANGED attempt
       \/ /\ main' = "retry"
          /\ attempt' = attempt + 1
    /\ UNCHANGED <<cancelled, dial, open, listed, stats, reader, ticker>>
--------------------------------------------------------------------------------
\* ConnectToPeer.

\* The lookup answers, or fails, times out, or is cancelled.
Lookup ==
    /\ main = "lookup"
    /\ \/ main' = "dial" /\ dialing' = dialing \cup {attempt}
       \/ main' = AfterFailure /\ UNCHANGED dialing
    /\ UNCHANGED <<cancelled, attempt, dialed, open, listed, stats, reader, ticker>>

\* The dial goroutine of attempt a: connCh and errCh are buffered, so it ends
\* whether or not anyone still waits for it.
DialReturns(a) ==
    /\ a \in dialing
    /\ dialing' = dialing \ {a}
    /\ \/ /\ DialOutlives \/ (a = attempt /\ main = "dial" /\ ~cancelled)
          /\ open' = open \cup {a}
          /\ dialed' = dialed \cup {a}
       \/ UNCHANGED <<open, dialed>>
    /\ UNCHANGED <<cancelled, main, attempt, listed, stats, reader, ticker>>

\* A wait for the connection alone.
ConnectedOnly ==
    /\ main = "dial"
    /\ attempt \in dialed
    /\ dialed' = dialed \ {attempt}
    /\ main' = "handshake"
    /\ UNCHANGED <<cancelled, attempt, dialing, open, listed, stats, reader, ticker>>

\* The select over connCtx, errCh and connCh; the context may win at any time,
\* by timeout or cancellation, also against a connection that is ready.
Connected ==
    /\ main = "dial"
    /\ \/ /\ attempt \in dialed
          /\ dialed' = dialed \ {attempt}
          /\ main' = "handshake"
       \/ /\ main' = AfterFailure
          /\ UNCHANGED dialed
    /\ UNCHANGED <<cancelled, attempt, dialing, open, listed, stats, reader, ticker>>

\* A failed handshake that leaves the connection open.
PerformHandshakeOpen ==
    /\ main = "handshake"
    /\ main' \in {"register", AfterFailure}
    /\ UNCHANGED <<cancelled, attempt, dial, open, listed, stats, reader, ticker>>

\* A failed handshake closes the connection (the deferred Close).
PerformHandshake ==
    /\ main = "handshake"
    /\ \/ main' = "register" /\ UNCHANGED open
       \/ main' = AfterFailure /\ open' = open \ {attempt}
    /\ UNCHANGED <<cancelled, attempt, dial, listed, stats, reader, ticker>>
--------------------------------------------------------------------------------
\* HandlePeerConnection.

\* dm.AddPeer and pm.AddPeer.
Register ==
    /\ main = "register"
    /\ listed' = TRUE
    /\ stats' = TRUE
    /\ main' = "greet"
    /\ UNCHANGED <<cancelled, attempt, dial, open, reader, ticker>>

\* A return that leaves the peer lists to the reader.
LeaveListed ==
    /\ open' = open \ {attempt}
    /\ UNCHANGED <<listed, stats>>

\* The deferred RemovePeer calls and the deferred Close.
Leave ==
    /\ listed' = FALSE
    /\ stats' = FALSE
    /\ open' = open \ {attempt}

\* SendBitfield and SendInterested; then the reader is started.
Greet ==
    /\ main = "greet"
    /\ \/ /\ main' = "started"
          /\ reader' = "loop"
          /\ UNCHANGED <<listed, stats, open>>
       \/ /\ main' = AfterFailure
          /\ Leave
          /\ UNCHANGED reader
    /\ UNCHANGED <<cancelled, attempt, dial, ticker>>

\* The ticker goroutine is started, and the select is reached.
StartTicker ==
    /\ main = "started"
    /\ ticker' = "running"
    /\ main' = "select"
    /\ UNCHANGED <<cancelled, attempt, dial, open, listed, stats, reader>>

\* A select that lacks ctx.Done; one that does not wait; a return of an error.
EndWhenDone ==
    /\ main = "done"
    /\ main' = "returned"
    /\ Leave
    /\ UNCHANGED <<cancelled, attempt, dial, reader, ticker>>

EndAtOnce ==
    /\ main \in {"select", "done"}
    /\ main' = "returned"
    /\ Leave
    /\ UNCHANGED <<cancelled, attempt, dial, reader, ticker>>

EndWithError ==
    /\ (main = "select" /\ cancelled) \/ main = "done"
    /\ main' = AfterFailure
    /\ Leave
    /\ UNCHANGED <<cancelled, attempt, dial, reader, ticker>>

\* The select takes the cancellation, or what the reader has signalled (main =
\* "done"); HandlePeerConnection returns nil, which RetryConnect takes for
\* success, and the deferred calls run.
EndConnection ==
    /\ \/ main = "select" /\ cancelled
       \/ main = "done"
    /\ main' = "returned"
    /\ Leave
    /\ UNCHANGED <<cancelled, attempt, dial, reader, ticker>>
--------------------------------------------------------------------------------
\* The reader goroutine.

\* The top of its loop looks at the context.
ReaderLoop ==
    /\ reader = "loop"
    /\ reader' = IF cancelled THEN "closing" ELSE "read"
    /\ UNCHANGED <<cancelled, main, attempt, dial, open, listed, stats, ticker>>

\* ReadMsg: a message; an error, or a connection already closed; or the deadline,
\* which may strike in the middle of a message and is taken for "try again" (that
\* the next message is then read from its middle shows as one of the errors).
ReadMsg ==
    /\ reader = "read"
    /\ \/ /\ attempt \in open
          /\ reader' = "handle"
       \/ reader' = "closing"
       \/ /\ attempt \in open
          /\ reader' = "loop"
    /\ UNCHANGED <<cancelled, main, attempt, dial, open, listed, stats, ticker>>

\* handleMessage: UpdatePeerStats and OnPeerInterested create the peer's stats
\* when there are none; an error ends the reader.
HandleMessage ==
    /\ reader = "handle"
    /\ stats' \in {stats, TRUE}
    /\ reader' \in {"loop", "closing"}
    /\ UNCHANGED <<cancelled, main, attempt, dial, open, listed, ticker>>

\* A deferred function that ends with pc.Close.
ReaderClosesOnly ==
    /\ reader = "closing"
    /\ open' = open \ {attempt}
    /\ reader' = "ended"
    /\ UNCHANGED <<cancelled, main, attempt, dial, listed, stats, ticker>>

\* The deferred function: pc.Close, ...
ReaderCloses ==
    /\ reader = "closing"
    /\ open' = open \ {attempt}
    /\ reader' = "signal"
    /\ UNCHANGED <<cancelled, main, attempt, dial, listed, stats, ticker>>

\* ... then a send on the unbuffered done channel that does not wait: it is
\* received only by a goroutine that is already in its select.
SignalDone ==
    /\ reader = "signal"
    /\ reader' = "ended"
    /\ main' = IF main = "select" THEN "done" ELSE main
    /\ UNCHANGED <<cancelled, attempt, dial, open, listed, stats, ticker>>

\* The ticker goroutine knows only the context.
StopTicker ==
    /\ ticker = "running"
    /\ cancelled
    /\ ticker' = "ended"
    /\ UNCHANGED <<cancelled, main, attempt, dial, open, listed, stats, reader>>

\* The torrent is removed.
Cancel ==
    /\ ~cancelled
    /\ cancelled' = TRUE
    /\ UNCHANGED <<main, attempt, dial, open, listed, stats, reader, ticker>>

Main ==
    \/ TryAttempt
    \/ Delay
    \/ Lookup
    \/ Connected
    \/ PerformHandshake
    \/ Register
    \/ Greet
    \/ StartTicker
    \/ EndConnection

Reader ==
    \/ ReaderLoop
    \/ ReadMsg
    \/ HandleMessage
    \/ ReaderCloses
    \/ SignalDone

Next ==
    \/ Main
    \/ Reader
    \/ \E a \in Attempt : DialReturns(a)
    \/ StopTicker
    \/ Cancel

Spec == Init /\ [][Next]_vars
--------------------------------------------------------------------------------
\* Every variable stays in its range.
TypeOK ==
    /\ {cancelled, listed, stats} \subseteq BOOLEAN
    /\ main \in {"retry", "delay", "lookup", "dial", "handshake", "register", "greet",
                 "started", "select", "done", "returned"}
    /\ attempt \in Attempt
    /\ dialing \subseteq Attempt /\ dialed \subseteq Attempt /\ open \subseteq Attempt
    /\ reader \in {"none", "loop", "read", "handle", "closing", "signal", "ended"}
    /\ ticker \in {"none", "running", "ended"}

\* The peer is in dm.Peers and pm.Peers, and so is sent Haves and unchoked,
\* only while HandlePeerConnection runs: every return takes it out.
ListedWhileHandled ==
    listed <=> main \in {"greet", "started", "select", "done"}

\* Unless the torrent was removed, nothing of the reader outlives
\* HandlePeerConnection: no handler runs on a peer that is no longer listed, and
\* none brings its stats back.
ReaderEndsFirst ==
    main = "returned" /\ ~cancelled => reader \in {"none", "ended"} /\ ~stats

\* A connection that was up is never made again: a drop looks like success to
\* RetryConnect, and at most one reader is ever started.
ConnectedOnce == [][reader # "none" => attempt' = attempt]_vars

\* A connection is open only where some goroutine will close it, unless it came
\* out of a dial that had been given up.
OpenIsHeld ==
    \A a \in open :
        \/ a \in dialed
        \/ a = attempt /\ main \in {"handshake", "register", "greet", "started", "select", "done"}
================================================================================
