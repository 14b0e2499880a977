----------------------------- MODULE ClaimsFeed -----------------------------
(***************************************************************************)
(* What the license goroutine promises to the handlers and to the          *)
(* reporting goroutine: a value that is replaced as a whole, each time     *)
(* together with its update channel, and whose replaced channels are       *)
(* closed in order, each once, before the next replacement.  Readers may   *)
(* ask for it once the feed is ready, which is after the first value.      *)
(***************************************************************************)
EXTENDS Naturals

CONSTANT Value, NoValue

VARIABLES
    value,      \* the current value
    version,    \* identity of its update channel; 0 comes with no value
    closed,     \* versions whose update channel is closed
    ready       \* readers may ask

feedVars == <<value, version, closed, ready>>

(* A replaced update channel may still be open, never more than one.       *)
Owed == {v \in 0 .. version : v < version} \ closed

Init ==
    /\ value = NoValue
    /\ version = 0
    /\ closed = {}
    /\ ready = FALSE

Publish ==
    /\ Owed = {}
    /\ value' \in Value
    /\ version' = version + 1
    /\ UNCHANGED <<closed, ready>>

BecomeReady ==
    /\ ~ready
    /\ version = 1
    /\ ready' = TRUE
    /\ UNCHANGED <<value, version, closed>>

(* The first update is announced to those who are waiting only after the   *)
(* feed is ready for them to read.                                         *)
Announce ==
    /\ ready
    /\ Owed # {}
    /\ closed' = closed \cup Owed
    /\ UNCHANGED <<value, version, ready>>

Next == Publish \/ BecomeReady \/ Announce

Spec == Init /\ [][Next]_feedVars
=============================================================================
