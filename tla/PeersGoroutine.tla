---------------------------- MODULE PeersGoroutine -----------------------------
(***************************************************************************)
(* What the rest of the program relies on of a torrent's peers goroutine       *)
(* (addTorrent in lib/gui/gui.go): it asks every tracker in turn unless the     *)
(* torrent is removed, then connects if any gave peers, waits for all the       *)
(* connections, and has one thing to report.  Gui is shown to drive it, and     *)
(* TorrentPeers to be one.                                                     *)
(***************************************************************************)
EXTENDS Naturals

CONSTANT NumTrackers    \* len(trackerFuncs)

VARIABLES
    cancelled,   \* the torrent's context is done
    peers,       \* where the goroutine is
    asked,       \* how many trackers have been asked
    found        \* whether any gave peers

vars == <<cancelled, peers, asked, found>>

Init ==
    /\ cancelled = FALSE
    /\ peers \in {"none", "trackers"}
    /\ asked = 0
    /\ found = FALSE

Go(from, to) == peers = from /\ peers' = to

Start ==
    /\ Go("none", "trackers")
    /\ UNCHANGED <<cancelled, asked, found>>

\* One more tracker has been asked.
Ask ==
    /\ peers = "trackers"
    /\ asked < NumTrackers
    /\ asked' = asked + 1
    /\ found' \in {found, TRUE}
    /\ UNCHANGED <<cancelled, peers>>

\* The search ends early with the context, and then silently ...
GiveUp ==
    /\ cancelled
    /\ asked < NumTrackers
    /\ Go("trackers", "ended")
    /\ asked' = 0
    /\ found' = FALSE
    /\ UNCHANGED cancelled

\* ... or after the last tracker.
SearchEnds ==
    /\ asked = NumTrackers
    /\ Go("trackers", IF found THEN "connect" ELSE "error")
    /\ asked' = 0
    /\ found' = FALSE
    /\ UNCHANGED cancelled

ConnectionsEnd == Go("connect", "done") /\ UNCHANGED <<cancelled, asked, found>>

Report ==
    /\ Go("error", "ended") \/ Go("done", "ended")
    /\ UNCHANGED <<cancelled, asked, found>>

Cancel == cancelled' = TRUE /\ UNCHANGED <<peers, asked, found>>

Next == Start \/ Ask \/ GiveUp \/ SearchEnds \/ ConnectionsEnd \/ Report \/ Cancel

Implemented == Init /\ [][Next]_vars
================================================================================
