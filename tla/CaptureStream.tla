----------------------------- MODULE CaptureStream -----------------------------
(***************************************************************************)
(* What an acquisition promises the host: a stream of buffers.  They are    *)
(* sent in the order they were captured, none twice, none skipped, and the  *)
(* capture breaks off only when NumBuffers buffers wait to be sent.  A      *)
(* start begins a new stream; a stop gives up what was not sent.            *)
(***************************************************************************)
EXTENDS Integers

CONSTANT NumBuffers

VARIABLES
    state,          \* "off", "on", or "overrun": broken off, still sending
    captured,       \* how many buffers were captured
    sent,           \* how many of them were sent
    last            \* the number of the buffer sent last, -1 for none

vars == <<state, captured, sent, last>>

Fresh == captured = 0 /\ sent = 0 /\ last = -1

Init == state = "off" /\ Fresh

Start ==
    /\ state' = "on"
    /\ Fresh'

Capture ==
    /\ state = "on"
    /\ captured - sent < NumBuffers
    /\ captured' = captured + 1
    /\ UNCHANGED <<state, sent, last>>

Overrun ==
    /\ state = "on"
    /\ captured - sent = NumBuffers
    /\ state' = "overrun"
    /\ UNCHANGED <<captured, sent, last>>

Send ==
    /\ state # "off"
    /\ sent < captured
    /\ last' = sent
    /\ sent' = sent + 1
    /\ UNCHANGED <<state, captured>>

Stop ==
    /\ state = "overrun"
    /\ state' = "off"
    /\ UNCHANGED <<captured, sent, last>>

Next == Start \/ Capture \/ Overrun \/ Send \/ Stop

Spec == Init /\ [][Next]_vars

===============================================================================
