--------------------------- MODULE AtomicJournal ---------------------------
(***************************************************************************)
(* What EventWriter.append promises its callers: a log whose events are    *)
(* linked and numbered, and a head that always names the last event.       *)
(***************************************************************************)
EXTENDS Naturals, Sequences

VARIABLES
    log,   \* the events: event_hash, sequence and previous_event_hash
    head   \* sequence and last_event_hash of the last event

NoHash == 0

Init == log = <<>> /\ head = [sequence |-> 0, last_event_hash |-> NoHash]

\* One event, with a hash no event has, joins the log and becomes its head.
Append1 ==
    LET h == head'.last_event_hash IN
    /\ h # NoHash
    /\ \A i \in 1 .. Len(log) : log[i].event_hash # h
    /\ log' = Append(log, [event_hash |-> h, sequence |-> head.sequence + 1,
                           previous_event_hash |-> head.last_event_hash])
    /\ head' = [sequence |-> head.sequence + 1, last_event_hash |-> h]

Spec == Init /\ [][Append1]_<<log, head>>
=============================================================================
