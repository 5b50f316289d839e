--------------------------- MODULE CommandRunner ---------------------------
(***************************************************************************)
(* rcr run: one command under capture.  The main thread journals the start, *)
(* launches the child, starts a pump thread for each of its streams, waits  *)
(* for the child and for the pumps, and records the end.  The child and a   *)
(* descendant that inherited its pipes write lines whenever they like, and  *)
(* block on a full pipe; a pump whose log cannot be written gives up.       *)
(***************************************************************************)
EXTENDS Naturals, Sequences, FiniteSets

CONSTANTS
    PipeCap,     \* lines a pipe holds before its writer blocks
    MaxLines,    \* bound: lines the processes of the command try to write
    ArgvSecrets, \* how many arguments hold a secret, a set of choices
    DiskFails    \* a log may be unwritable

ASSUME RunnerAssumption ==
    /\ PipeCap \in Nat \ {0}
    /\ MaxLines \in Nat
    /\ ArgvSecrets \subseteq Nat /\ ArgvSecrets # {}
    /\ DiskFails \in BOOLEAN

Streams == {"stdout", "stderr"}
Writers == {"child", "descendant"}
Classes == {"clean", "secret"}
Exits == {"zero", "nonzero", "signal"}

VARIABLES
    pc,          \* the main thread of rcr run
    argv,        \* secrets masked in the recorded arguments
    journal,     \* the events of this command
    sidecar,     \* commands/<command_id>.json
    alive,       \* state of the child and its descendant: "none", "running", "gone"
    returncode,  \* how the child ended
    doing,       \* the write each process is in
    holders,     \* processes that hold the write end of each pipe
    pipe,        \* lines in each pipe
    open,        \* streams whose read end is open
    pump,        \* pump threads: "none", "running", "ended"
    log,         \* logs/<command_id>.<stream>.txt
    applied,     \* redactions each pump counted
    counts,      \* stream_counts
    pumpErrors,  \* pump_errors
    budget,      \* lines still to be tried
    wrote        \* history: lines that entered each pipe

record == <<journal, sidecar>>
processes == <<alive, returncode, doing, holders, budget, wrote>>
pumps == <<pump, log, applied, counts, pumpErrors>>
vars == <<pc, argv, record, processes, pipe, open, pumps>>

Idle == "idle"

Masked(s) == [i \in 1 .. Len(s) |-> IF s[i] = "secret" THEN "masked" ELSE s[i]]

\* The lines of a sequence whose redaction counts.
Secrets(s) == Cardinality({i \in 1 .. Len(s) : s[i] = "secret"})
Masks(s) == Cardinality({i \in 1 .. Len(s) : s[i] = "masked"})

Event(type, exit, errors, count) ==
    [type |-> type, exit |-> exit, errors |-> errors, applied |-> count]

NoSidecar == [status |-> "none", exit |-> "none", errors |-> {}]

Started == Event("execution.command.started", "none", {}, 0)

Init ==
    /\ pc = "start"
    /\ argv \in ArgvSecrets
    /\ journal = <<>>
    /\ sidecar = NoSidecar
    /\ alive = [w \in Writers |-> "none"]
    /\ returncode = "none"
    /\ doing = [w \in Writers |-> Idle]
    /\ holders = [s \in Streams |-> {}]
    /\ pipe = [s \in Streams |-> <<>>]
    /\ open = {}
    /\ pump = [s \in Streams |-> "none"]
    /\ log = [s \in Streams |-> <<>>]
    /\ applied = [s \in Streams |-> 0]
    /\ counts = [s \in Streams |-> 0]
    /\ pumpErrors = {}
    /\ budget = MaxLines
    /\ wrote = [s \in Streams |-> <<>>]

-----------------------------------------------------------------------------
(* The main thread. *)

\* execution.command.started, with the redacted arguments.
AppendStarted ==
    /\ pc = "start"
    /\ journal' = Append(journal, Started)
    /\ pc' = "sidecar"
    /\ UNCHANGED <<argv, sidecar, processes, pipe, open, pumps>>

\* The first sidecar: what was asked for, and the outputs before.
WriteSidecar ==
    /\ pc = "sidecar"
    /\ sidecar' = [NoSidecar EXCEPT !.status = "initial"]
    /\ pc' = "launch"
    /\ UNCHANGED <<argv, journal, processes, pipe, open, pumps>>

\* Popen: the child holds the write end of both pipes.
Launch ==
    /\ pc = "launch"
    /\ alive' = [alive EXCEPT !["child"] = "running"]
    /\ holders' = [s \in Streams |-> {"child"}]
    /\ open' = Streams
    /\ pc' = "pumps"
    /\ UNCHANGED <<argv, record, returncode, doing, budget, wrote, pipe, pumps>>

\* Popen raises: the logs are an empty one and the message, redacted, which
\* names the first argument.
LaunchFails ==
    /\ pc = "launch"
    /\ \E line \in IF argv = 0 THEN {"clean"} ELSE Classes :
         /\ log' = [s \in Streams |-> IF s = "stderr" THEN Masked(<<line>>) ELSE <<>>]
         /\ wrote' = [s \in Streams |-> IF s = "stderr" THEN <<line>> ELSE <<>>]
         /\ counts' = [s \in Streams |-> IF s = "stderr" THEN Secrets(<<line>>) ELSE 0]
    /\ returncode' = "startup_error"
    /\ pc' = "collect"
    /\ UNCHANGED <<argv, record, alive, doing, holders, budget, pipe, open, pump, applied, pumpErrors>>

\* thread.start() for stdout, then for stderr.
StartPumps ==
    /\ pc = "pumps"
    /\ \E s \in Streams :
         /\ pump[s] = "none"
         /\ s = "stderr" => pump["stdout"] # "none"
         /\ pump' = [pump EXCEPT ![s] = "running"]
         /\ pc' = IF s = "stderr" THEN "wait" ELSE "pumps"
    /\ UNCHANGED <<argv, record, processes, pipe, open, log, applied, counts, pumpErrors>>

\* proc.wait()
Wait ==
    /\ pc = "wait"
    /\ alive["child"] = "gone"
    /\ pc' = "join"
    /\ UNCHANGED <<argv, record, processes, pipe, open, pumps>>

\* Mutant: the pumps are not joined.
JoinNothing ==
    /\ pc = "join"
    /\ pc' = "collect"
    /\ UNCHANGED <<argv, record, processes, pipe, open, pumps>>

\* thread.join() for both.
Join ==
    /\ pc = "join"
    /\ \A s \in Streams : pump[s] = "ended"
    /\ pc' = "collect"
    /\ UNCHANGED <<argv, record, processes, pipe, open, pumps>>

Terminal ==
    Event(IF returncode = "zero" THEN "execution.command.completed" ELSE "execution.command.failed",
          returncode, pumpErrors, 0)

FinalSidecar == [status |-> "final", exit |-> returncode, errors |-> pumpErrors]

\* Mutant: the event comes before the sidecar it points to.
CollectEventFirst ==
    \/ /\ pc = "collect"
       /\ journal' = Append(journal, Terminal)
       /\ pc' = "terminal"
       /\ UNCHANGED <<argv, sidecar, processes, pipe, open, pumps>>
    \/ /\ pc = "terminal"
       /\ sidecar' = FinalSidecar
       /\ pc' = "tally"
       /\ UNCHANGED <<argv, journal, processes, pipe, open, pumps>>

\* _finalize: the final sidecar, then execution.command.completed or failed.
Collect ==
    \/ /\ pc = "collect"
       /\ sidecar' = FinalSidecar
       /\ pc' = "terminal"
       /\ UNCHANGED <<argv, journal, processes, pipe, open, pumps>>
    \/ /\ pc = "terminal"
       /\ journal' = Append(journal, Terminal)
       /\ pc' = "tally"
       /\ UNCHANGED <<argv, sidecar, processes, pipe, open, pumps>>

\* redaction.applied, when anything was masked.
Tally ==
    /\ pc = "tally"
    /\ LET total == argv + counts["stdout"] + counts["stderr"]
       IN  journal' = IF total = 0 THEN journal
                      ELSE Append(journal, Event("redaction.applied", "none", {}, total))
    /\ pc' = "returned"
    /\ UNCHANGED <<argv, sidecar, processes, pipe, open, pumps>>

\* Interpreter exit after a KeyboardInterrupt joins the pump threads that run, and
\* closes the pipe of one that was never started.
Unwind ==
    /\ pc = "interrupted"
    /\ \A s \in Streams : pump[s] # "running"
    /\ pc' = "killed"
    /\ open' = {}
    /\ pipe' = [s \in Streams |-> <<>>]
    /\ UNCHANGED <<argv, record, processes, pumps>>

Main ==
    \/ AppendStarted \/ WriteSidecar \/ Launch \/ LaunchFails \/ StartPumps \/ Wait \/ Join
    \/ Collect \/ Tally \/ Unwind

-----------------------------------------------------------------------------
(* The pump threads. *)

\* A line is read, redacted, logged.
PumpLine(s) ==
    /\ pump[s] = "running"
    /\ pipe[s] # <<>>
    /\ pipe' = [pipe EXCEPT ![s] = Tail(@)]
    /\ log' = [log EXCEPT ![s] = @ \o Masked(<<Head(pipe[s])>>)]
    /\ applied' = [applied EXCEPT ![s] = @ + Secrets(<<Head(pipe[s])>>)]
    /\ UNCHANGED <<pc, argv, record, processes, open, pump, counts, pumpErrors>>

\* The finally clause: the count, and the pipe closed with what is in it.
Finish(s) ==
    /\ pump' = [pump EXCEPT ![s] = "ended"]
    /\ counts' = [counts EXCEPT ![s] = applied[s]]
    /\ open' = open \ {s}
    /\ pipe' = [pipe EXCEPT ![s] = <<>>]

\* End of file: no process holds the other end.
PumpEnd(s) ==
    /\ pump[s] = "running"
    /\ pipe[s] = <<>>
    /\ holders[s] = {}
    /\ Finish(s)
    /\ UNCHANGED <<pc, argv, record, processes, log, applied, pumpErrors>>

\* Mutant: a pump that fails leaves the pipe open.
PumpFailsOpen(s) ==
    /\ DiskFails
    /\ pump[s] = "running"
    /\ pump' = [pump EXCEPT ![s] = "ended"]
    /\ counts' = [counts EXCEPT ![s] = applied[s]]
    /\ \E n \in 0 .. Len(log[s]) : log' = [log EXCEPT ![s] = SubSeq(@, 1, n)]
    /\ pumpErrors' = pumpErrors \cup {s}
    /\ UNCHANGED <<pc, argv, record, processes, applied, open, pipe>>

\* The log cannot be opened, written or flushed: what was buffered is lost, the
\* error is kept for the record.
PumpFails(s) ==
    /\ DiskFails
    /\ pump[s] = "running"
    /\ Finish(s)
    /\ \E n \in 0 .. Len(log[s]) : log' = [log EXCEPT ![s] = SubSeq(@, 1, n)]
    /\ pumpErrors' = pumpErrors \cup {s}
    /\ UNCHANGED <<pc, argv, record, processes, applied>>

Pump(s) == PumpLine(s) \/ PumpEnd(s) \/ PumpFails(s)

-----------------------------------------------------------------------------
(* The processes of the command, and the operating system. *)

\* The process is gone and its ends of the pipes with it.
Leave(w) ==
    /\ alive' = [alive EXCEPT ![w] = "gone"]
    /\ holders' = [s \in Streams |-> holders[s] \ {w}]
    /\ doing' = [doing EXCEPT ![w] = Idle]

\* It begins to write a line to a stream it has.
TryWrite(w) ==
    /\ alive[w] = "running"
    /\ doing[w] = Idle
    /\ budget > 0
    /\ budget' = budget - 1
    /\ \E s \in Streams : w \in holders[s] /\ doing' = [doing EXCEPT ![w] = s]
    /\ UNCHANGED <<pc, argv, record, alive, returncode, holders, wrote, pipe, open, pumps>>

\* The line goes into the pipe, when there is room.
Write(w) ==
    /\ doing[w] # Idle
    /\ LET s == doing[w]
       IN  /\ s \in open
           /\ Len(pipe[s]) < PipeCap
           /\ \E line \in Classes : /\ pipe' = [pipe EXCEPT ![s] = Append(@, line)]
                                    /\ wrote' = [wrote EXCEPT ![s] = Append(@, line)]
    /\ doing' = [doing EXCEPT ![w] = Idle]
    /\ UNCHANGED <<pc, argv, record, alive, returncode, holders, budget, open, pumps>>

\* Nobody reads the pipe any more: the process handles the error or dies of SIGPIPE.
WriteBroken(w) ==
    /\ doing[w] # Idle
    /\ doing[w] \notin open
    /\ \/ doing' = [doing EXCEPT ![w] = Idle] /\ UNCHANGED <<alive, holders, returncode>>
       \/ /\ Leave(w)
          /\ returncode' = IF w = "child" THEN "signal" ELSE returncode
    /\ UNCHANGED <<pc, argv, record, budget, wrote, pipe, open, pumps>>

\* The child starts a process that inherits some of its streams and outlives it.
Spawn ==
    /\ alive["child"] = "running"
    /\ alive["descendant"] = "none"
    /\ doing["child"] = Idle
    /\ alive' = [alive EXCEPT !["descendant"] = "running"]
    /\ \E inherited \in SUBSET Streams :
         holders' = [s \in Streams |-> IF s \in inherited THEN holders[s] \cup {"descendant"} ELSE holders[s]]
    /\ UNCHANGED <<pc, argv, record, returncode, doing, budget, wrote, pipe, open, pumps>>

ExitProcess(w) ==
    /\ alive[w] = "running"
    /\ doing[w] = Idle
    /\ Leave(w)
    /\ returncode' \in IF w = "child" THEN {"zero", "nonzero"} ELSE {returncode}
    /\ UNCHANGED <<pc, argv, record, budget, wrote, pipe, open, pumps>>

Process(w) == TryWrite(w) \/ Write(w) \/ WriteBroken(w) \/ ExitProcess(w)

\* A signal ends the process, whatever it is in.
Signal(w) ==
    /\ alive[w] = "running"
    /\ Leave(w)
    /\ returncode' = IF w = "child" THEN "signal" ELSE returncode
    /\ UNCHANGED <<pc, argv, record, budget, wrote, pipe, open, pumps>>

\* Control-C: the main thread leaves run(); the pumps go on.
Interrupt ==
    /\ pc \in {"pumps", "wait", "join"}
    /\ pc' = "interrupted"
    /\ UNCHANGED <<argv, record, processes, pipe, open, pumps>>

\* rcr is killed: its threads are gone, its pipes closed, the lines its pumps had
\* buffered lost.
Kill ==
    /\ pc \notin {"returned", "killed"}
    /\ pc' = "killed"
    /\ pump' = [s \in Streams |-> "ended"]
    /\ open' = {}
    /\ pipe' = [s \in Streams |-> <<>>]
    /\ \E kept \in [Streams -> 0 .. MaxLines] :
         /\ \A s \in Streams : kept[s] <= Len(log[s])
         /\ log' = [s \in Streams |-> IF pump[s] = "running" THEN SubSeq(log[s], 1, kept[s]) ELSE log[s]]
    /\ UNCHANGED <<argv, record, processes, applied, counts, pumpErrors>>

Over ==
    /\ pc \in {"returned", "killed"}
    /\ \A w \in Writers : alive[w] # "running"

\* Everything has ended.
Done == Over /\ UNCHANGED vars

Next ==
    \/ Done \/ Main \/ Spawn \/ Interrupt \/ Kill
    \/ \E s \in Streams : Pump(s)
    \/ \E w \in Writers : Process(w) \/ Signal(w)

Spec == Init /\ [][Next]_vars

\* Threads are scheduled; the command and what it started end by themselves.
FairSpec ==
    /\ Spec
    /\ WF_vars(Main)
    /\ \A s \in Streams : WF_vars(Pump(s))
    /\ \A w \in Writers : WF_vars(Process(w))

-----------------------------------------------------------------------------
(* Properties. *)

\* Every variable has its type.
TypeOK ==
    /\ pc \in {"start", "sidecar", "launch", "pumps", "wait", "join", "collect", "terminal", "tally",
               "returned", "interrupted", "killed"}
    /\ argv \in ArgvSecrets
    /\ alive \in [Writers -> {"none", "running", "gone"}]
    /\ returncode \in Exits \cup {"none", "startup_error"}
    /\ doing \in [Writers -> Streams \cup {Idle}]
    /\ holders \in [Streams -> SUBSET Writers]
    /\ pipe \in [Streams -> Seq(Classes)]
    /\ open \subseteq Streams
    /\ pump \in [Streams -> {"none", "running", "ended"}]
    /\ log \in [Streams -> Seq({"clean", "masked"})]
    /\ wrote \in [Streams -> Seq(Classes)]
    /\ applied \in [Streams -> Nat] /\ counts \in [Streams -> Nat]
    /\ pumpErrors \subseteq Streams
    /\ budget \in Nat

IsTerminal(e) == e.type \in {"execution.command.completed", "execution.command.failed"}

Recorded == \E i \in 1 .. Len(journal) : IsTerminal(journal[i])

TerminalEvent == journal[CHOOSE i \in 1 .. Len(journal) : IsTerminal(journal[i])]

\* The record CapturedCommand speaks of is the terminal event and the logs it names.
Captured == INSTANCE CapturedCommand
    WITH lines <- wrote,
         record <- [whole |-> Recorded /\ TerminalEvent.errors = {},
                    logs |-> IF Recorded THEN log ELSE [s \in Streams |-> <<>>],
                    ended |-> Recorded]

\* The command is recorded once, when all that its processes, the ones that
\* outlived it included, wrote to their streams is in its logs, masked and in
\* order; or the record says which log failed.  Nothing is written after it.
Implements == Captured!Spec

\* A terminal event finds the final sidecar on disk, and they agree.
SidecarAgrees ==
    Recorded => sidecar = [status |-> "final", exit |-> TerminalEvent.exit,
                           errors |-> TerminalEvent.errors]

\* What the journal says was masked covers every mask in the arguments and the logs,
\* and is exact when no log failed.
TallyIsExact ==
    LET tallies == {i \in 1 .. Len(journal) : journal[i].type = "redaction.applied"}
        recorded == IF tallies = {} THEN 0 ELSE journal[CHOOSE i \in tallies : TRUE].applied
        masks == argv + Masks(log["stdout"]) + Masks(log["stderr"])
    IN  pc = "returned" => recorded >= masks /\ (pumpErrors = {} => recorded = masks)

\* Whenever rcr run is killed, the three records of the command agree: sidecar and
\* terminal event at any time, logs and redaction.applied once it has returned.
RecordsAgree == SidecarAgrees /\ TallyIsExact

\* rcr run ends, and no process of the command stays blocked on a pipe, whichever
\* pump failed and whoever was killed.
CommandEnds == <>[]Over
=============================================================================
