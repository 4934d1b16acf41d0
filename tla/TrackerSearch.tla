----------------------------- MODULE TrackerSearch -----------------------------
(***************************************************************************)
(* GetAllPeers (lib/tracker/tracker.go) asks the trackers one after the        *)
(* other; getPeersFromTracker looks each up, dials it in a goroutine of its     *)
(* own, and reads its answer until the end of the stream.  Each has a context   *)
(* of 15 s, which ends with the torrent's.  The environment may end the latter  *)
(* at any moment (cancelled).                                                  *)
(***************************************************************************)
EXTENDS Naturals, FiniteSets

CONSTANTS
    NumTrackers,    \* len(trackerFuncs), at least 1: 7 in the code
    Peer            \* the peers a tracker may name

Tracker == 1 .. NumTrackers

VARIABLES
    cancelled,   \* the torrent's context is done
    search,      \* where GetAllPeers is, or what it returned
    tracker,     \* which tracker it is asking
    expired,     \* that tracker's 15 s are over
    dialing,     \* the trackers whose dial goroutine is in stream.Dial
    dialed,      \* those whose connection waits in the buffered connCh
    open,        \* those whose net.Conn is open
    allPeers     \* the peers it got so far

dial == <<dialing, dialed>>
vars == <<cancelled, search, tracker, expired, dial, open, allPeers>>

Results == {"found", "nothing", "cancelled"}

Init ==
    /\ cancelled = FALSE
    /\ search = "ask"
    /\ tracker = 1
    /\ expired = FALSE
    /\ dialing = {}
    /\ dialed = {}
    /\ open = {}
    /\ allPeers = {}

ContextDone == cancelled \/ expired

\* The top of the loop over the trackers looks at the torrent's context.
Ask ==
    /\ search = "ask"
    /\ search' = IF cancelled THEN "cancelled" ELSE "lookup"
    /\ expired' = FALSE
    /\ UNCHANGED <<cancelled, tracker, dial, open, allPeers>>

\* sam.Lookup, which knows no context; then the dial goroutine is started.
Lookup ==
    /\ search = "lookup"
    /\ \/ search' = "dial" /\ dialing' = dialing \cup {tracker}
       \/ search' = "pause" /\ UNCHANGED dialing
    /\ UNCHANGED <<cancelled, tracker, expired, dialed, open, allPeers>>

\* stream.Dial knows no context either: the goroutine puts what it gets into a
\* buffered channel, whether or not anyone still waits.
DialReturns(k) ==
    /\ k \in dialing
    /\ dialing' = dialing \ {k}
    /\ \/ open' = open \cup {k} /\ dialed' = dialed \cup {k}
       \/ UNCHANGED <<open, dialed>>
    /\ UNCHANGED <<cancelled, search, tracker, expired, allPeers>>

\* The select: the context, an error, or the connection.
Dialed ==
    /\ search = "dial"
    /\ \/ /\ tracker \in dialed
          /\ dialed' = dialed \ {tracker}
          /\ search' = "request"
       \/ /\ ContextDone \/ tracker \notin dialing \cup dialed
          /\ search' = "pause"
          /\ UNCHANGED dialed
    /\ UNCHANGED <<cancelled, tracker, expired, dialing, open, allPeers>>

\* Every return once there is a connection: the deferred conn.Close.
Return ==
    /\ search' = "pause"
    /\ open' = open \ {tracker}

\* The request is written or not.
Request ==
    /\ search = "request"
    /\ \/ search' = "read" /\ UNCHANGED open
       \/ Return
    /\ UNCHANGED <<cancelled, tracker, expired, dial, allPeers>>

\* One pass of the read loop: the context; data; the end of the stream; an error
\* or five seconds without data.
Read ==
    /\ search = "read"
    /\ \/ ContextDone /\ Return
       \/ /\ ~ContextDone
          /\ \/ UNCHANGED <<search, open>>
             \/ search' = "parse" /\ UNCHANGED open
             \/ Return
    /\ UNCHANGED <<cancelled, tracker, expired, dial, allPeers>>

\* An early return of Parse that does not come by the deferred Close.
ParseKeepingOpen ==
    /\ search = "parse"
    /\ \E answer \in SUBSET Peer : allPeers' = allPeers \cup answer
    /\ search' = "pause"
    /\ UNCHANGED <<cancelled, tracker, expired, dial, open>>

\* The answer: peers, perhaps none, or not one that can be parsed.
Parse ==
    /\ search = "parse"
    /\ \E answer \in SUBSET Peer : allPeers' = allPeers \cup answer
    /\ Return
    /\ UNCHANGED <<cancelled, tracker, expired, dial>>

\* After the second between two trackers: the next one, or the result.
Pause ==
    /\ search = "pause"
    /\ IF tracker < NumTrackers
       THEN search' = "ask" /\ tracker' = tracker + 1
       ELSE search' = (IF allPeers = {} THEN "nothing" ELSE "found") /\ UNCHANGED tracker
    /\ UNCHANGED <<cancelled, expired, dial, open, allPeers>>

\* The 15 s of the tracker at hand, which begin before its lookup.
Expire ==
    /\ search \in {"lookup", "dial", "request", "read"}
    /\ ~expired
    /\ expired' = TRUE
    /\ UNCHANGED <<cancelled, search, tracker, dial, open, allPeers>>

GetAllPeers == Ask \/ Lookup \/ Dialed \/ Request \/ Read \/ Parse \/ Pause

Next ==
    \/ GetAllPeers
    \/ \E k \in Tracker : DialReturns(k)
    \/ Expire

\* How many trackers are done with.
Asked == IF search \in {"found", "nothing"} THEN NumTrackers
         ELSE IF search = "pause" THEN tracker
         ELSE tracker - 1

TypeOK ==
    /\ search \in {"ask", "lookup", "dial", "request", "read", "parse", "pause"} \cup Results
    /\ tracker \in Tracker
    /\ expired \in BOOLEAN
    /\ dialing \subseteq Tracker /\ dialed \subseteq Tracker /\ open \subseteq Tracker
    /\ allPeers \subseteq Peer

\* A connection to a tracker is open only while its answer is being got, or lies
\* in the channel of a dial.
OpenIsHeld ==
    \A k \in open : k \in dialed \/ (k = tracker /\ search \in {"request", "read", "parse"})
================================================================================
