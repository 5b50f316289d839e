-------------------------- MODULE CapturedCommand --------------------------
(***************************************************************************)
(* What rcr run promises of the command it captures: the processes of the  *)
(* command write lines; at one moment, after the last of them, one record  *)
(* is made, whose logs hold every line with its secrets masked unless the  *)
(* record says that logging failed.  CommandRunner implements it.          *)
(***************************************************************************)
EXTENDS Sequences

CONSTANTS Streams, Masked(_)

VARIABLES
    lines,   \* what the processes of the command have written to each stream
    record   \* nothing yet, or what was recorded of the command

NoRecord == [whole |-> FALSE, logs |-> [s \in Streams |-> <<>>], ended |-> FALSE]

Init ==
    /\ lines = [s \in Streams |-> <<>>]
    /\ record = NoRecord

\* A process of the command writes a line; none does after the record.
Emit ==
    /\ ~record.ended
    /\ \E s \in Streams, line \in {"clean", "secret"} : lines' = [lines EXCEPT ![s] = Append(@, line)]
    /\ UNCHANGED record

\* The command is recorded, once.
Record ==
    /\ ~record.ended
    /\ record'.ended
    /\ record'.whole => \A s \in Streams : record'.logs[s] = Masked(lines[s])
    /\ UNCHANGED lines

Next == Emit \/ Record

Spec == Init /\ [][Next]_<<lines, record>>
=============================================================================
