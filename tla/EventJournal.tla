---------------------------- MODULE EventJournal ----------------------------
(***************************************************************************)
(* The append-only, hash-chained event journal of an RO-Crate run          *)
(* (events.ndjson), the state.json cache derived from it, the run lock     *)
(* that serializes their writers, and the recovery every rcr command runs  *)
(* first.  One process of the model is one rcr invocation after another    *)
(* (a CLI command or a hook): it recovers, then does one operation.        *)
(*                                                                         *)
(* An event's hash covers a fresh uuid, so distinct events have distinct   *)
(* hashes: a hash is the number under which the event was minted.          *)
(***************************************************************************)
EXTENDS Naturals, Sequences, FiniteSets

CONSTANTS
    Proc,          \* processes running rcr commands on one state directory
    NoProc,        \* nobody holds the lock
    Workload,      \* operations a process may start, a subset of Operations
    MaxCommands,   \* bound: commands started by all processes together
    CrashAt,       \* control points at which a process may be killed
    TornTails,     \* what a kill inside the write may leave after the last newline
    MirrorRaises   \* remote_journal enabled, unreachable and fail_closed

\* note: one append.  separator: one append of text holding a Unicode line
\* separator.  command: rcr run.  hook: a hook that changes session_id.
Operations == {"note", "separator", "command", "hook"}

ControlPoints == {"idle", "recover", "read", "locked", "write", "written", "ready",
                  "want", "running", "hookwrite"}

ASSUME ConstantsAssumption ==
    /\ NoProc \notin Proc
    /\ Workload \subseteq Operations
    /\ MaxCommands \in Nat
    /\ CrashAt \subseteq ControlPoints
    /\ TornTails \subseteq {"partial", "open"}
    /\ MirrorRaises \in BOOLEAN

NoHash == 0
NoCommand == 0

EventTypes == {"human.note", "human.separator", "execution.command.started",
               "execution.command.completed", "execution.command.blocked",
               "journal.repair.started", "journal.repair.completed", "journal.repair.failed"}

CommandTerminalEvents == {"execution.command.completed", "execution.command.blocked"}

\* _emit_repair swallows the exceptions of its append.
SwallowedTypes == {"journal.repair.started", "journal.repair.failed"}

Hashes == Nat

Lines == [event_hash: Hashes, previous_event_hash: Hashes, sequence: Nat,
          event_type: EventTypes, command_id: Nat, parses: BOOLEAN]

States == [sequence: Nat, last_event_hash: Hashes]

\* The work a lock holder still has to do: append an event, or write a state.
Jobs == [job: {"append", "write_state"}, event_type: EventTypes,
         command_id: Nat, state: States]

VARIABLES
    journal,  \* events.ndjson, its newline-terminated lines
    tail,     \* "none"; "partial": unparseable bytes follow the last newline;
              \* "open": the last line of journal has no newline yet
    state,    \* state.json: sequence and last_event_hash
    lock,     \* the run lock's holder
    pc,       \* control point of each process
    jobs,     \* what the process does under the lock it holds or waits for
    orphans,  \* journal positions recovery still has to mark abandoned
    after,    \* where the process goes when it releases the lock
    reg,      \* the state the process loaded last
    cmd,      \* the command_id of its rcr run
    left,     \* commands that may still be started
    minted,   \* events hashed so far
    acked     \* history: hashes of the events whose append returned

diskVars == <<journal, tail, state>>
procVars == <<pc, jobs, orphans, after, reg, cmd>>
vars == <<diskVars, lock, procVars, left, minted, acked>>

-----------------------------------------------------------------------------
(* The journal as text and as a chain.                                     *)

InitialState == [sequence |-> 0, last_event_hash |-> NoHash]

Append1(type, id) == [job |-> "append", event_type |-> type, command_id |-> id,
                      state |-> InitialState]
WriteState(s) == [job |-> "write_state", event_type |-> "journal.repair.started",
                  command_id |-> NoCommand, state |-> s]

\* A line json.loads rejects.
Garbled == [event_hash |-> NoHash, previous_event_hash |-> NoHash, sequence |-> 0,
            event_type |-> "human.note", command_id |-> NoCommand, parses |-> FALSE]

AllButLast(s) == SubSeq(s, 1, Len(s) - 1)

\* The lines left when more text is written behind an unterminated tail.
BeforeTail == IF tail = "open" THEN AllButLast(journal) ELSE journal

\* The state an up-to-date state.json holds for the events s.
Tip(s) == IF s = <<>> THEN InitialState
          ELSE [sequence |-> s[Len(s)].sequence, last_event_hash |-> s[Len(s)].event_hash]

\* verify_hash_chain finds no broken link.
ChainOK(s) == \A i \in 1 .. Len(s) :
    s[i].previous_event_hash = IF i = 1 THEN NoHash ELSE s[i - 1].event_hash

BadLines == {i \in 1 .. Len(journal) : ~journal[i].parses}

\* A line other than the physically last one does not parse: recovery gives up.
Corrupt == \E i \in BadLines : i < Len(journal) \/ tail = "partial"

\* Mutant: recovery overlooks a torn tail.
TornIgnored == FALSE

\* Only the physically last line does not parse: recovery truncates it.
Torn == ~Corrupt /\ (tail = "partial" \/ BadLines # {})

\* Mutant: the repair drops the last line whether or not it parses.
ParsedShort == AllButLast(journal)

\* The events recovery parses when the journal is not corrupt.
Parsed == IF Len(journal) \in BadLines THEN AllButLast(journal) ELSE journal

\* Mutant: recovery runs with active_run = TRUE.
OrphanedNone(s) == {}

\* Mutant: an abandoned mark does not count as a terminal event.
OrphanedAgain(s) == {i \in 1 .. Len(s) :
    /\ s[i].event_type = "execution.command.started"
    /\ ~ \E j \in 1 .. Len(s) : /\ s[j].event_type = "execution.command.completed"
                                /\ s[j].command_id = s[i].command_id}

\* Positions of started commands with no terminal event: recovery, always
\* called with active_run = FALSE, takes each for abandoned.
Orphaned(s) == {i \in 1 .. Len(s) :
    /\ s[i].event_type = "execution.command.started"
    /\ ~ \E j \in 1 .. Len(s) : /\ s[j].event_type \in CommandTerminalEvents
                                /\ s[j].command_id = s[i].command_id}

Lagged(s) == s # <<>> /\ state # Tip(s)

Repair(fix) == <<Append1("journal.repair.started", NoCommand)>> \o fix
                 \o <<Append1("journal.repair.completed", NoCommand)>>

RepairJobs(s) ==
    (IF Lagged(s) THEN Repair(<<WriteState(Tip(s))>>) ELSE <<>>)
      \o (IF Torn THEN Repair(<<>>) ELSE <<>>)

-----------------------------------------------------------------------------
Init ==
    /\ journal = <<>>
    /\ tail = "none"
    /\ state = InitialState
    /\ lock = NoProc
    /\ pc = [p \in Proc |-> "idle"]
    /\ jobs = [p \in Proc |-> <<>>]
    /\ orphans = [p \in Proc |-> {}]
    /\ after = [p \in Proc |-> "idle"]
    /\ reg = [p \in Proc |-> InitialState]
    /\ cmd = [p \in Proc |-> NoCommand]
    /\ left = MaxCommands
    /\ minted = 0
    /\ acked = {}

Goto(p, point) == pc' = [pc EXCEPT ![p] = point]

\* The process starts its next rcr command, which begins with ensure_recovered.
Begin(p) ==
    /\ pc[p] = "idle"
    /\ left > 0
    /\ Goto(p, "recover")
    /\ after' = [after EXCEPT ![p] = "ready"]
    /\ left' = left - 1
    /\ UNCHANGED <<diskVars, lock, jobs, orphans, reg, cmd, minted, acked>>

\* Mutant: the lock is taken without waiting for it.
AcquireAnyway(p) ==
    /\ \/ pc[p] = "recover" /\ Goto(p, "read")
       \/ pc[p] = "want" /\ Goto(p, "locked")
    /\ lock' = p
    /\ UNCHANGED <<diskVars, jobs, orphans, after, reg, cmd, left, minted, acked>>

\* FileLock.acquire: polls until the lock is free.
Acquire(p) ==
    /\ lock = NoProc
    /\ \/ pc[p] = "recover" /\ Goto(p, "read")
       \/ pc[p] = "want" /\ Goto(p, "locked")
    /\ lock' = p
    /\ UNCHANGED <<diskVars, jobs, orphans, after, reg, cmd, left, minted, acked>>

\* Recovery reads the journal, truncates an unparseable last line, and decides
\* from the chain and state.json what it has to repair.
ReadJournal(p) ==
    /\ pc[p] = "read"
    /\ Goto(p, "locked")
    /\ IF Torn THEN journal' = Parsed /\ tail' = "none" ELSE UNCHANGED <<journal, tail>>
    /\ IF Corrupt \/ ~ChainOK(Parsed)
       THEN /\ jobs' = [jobs EXCEPT ![p] = <<Append1("journal.repair.failed", NoCommand)>>]
            /\ orphans' = [orphans EXCEPT ![p] = {}]
       ELSE /\ jobs' = [jobs EXCEPT ![p] = RepairJobs(Parsed)]
            /\ orphans' = [orphans EXCEPT ![p] = Orphaned(Parsed)]
    /\ UNCHANGED <<state, lock, after, reg, cmd, left, minted, acked>>

\* The last loop of recovery marks the next unterminated command blocked.
BlockOrphan(p) ==
    /\ pc[p] = "locked"
    /\ jobs[p] = <<>>
    /\ \E i \in orphans[p] :
         /\ \A j \in orphans[p] : i <= j
         /\ jobs' = [jobs EXCEPT ![p] =
                       <<Append1("journal.repair.started", NoCommand),
                         Append1("execution.command.blocked", journal[i].command_id)>>]
         /\ orphans' = [orphans EXCEPT ![p] = @ \ {i}]
    /\ UNCHANGED <<diskVars, lock, pc, after, reg, cmd, left, minted, acked>>

\* Mutant: recovery reconciles the state over and over.
RewriteStateForever(p) ==
    /\ pc[p] = "locked"
    /\ jobs[p] # <<>>
    /\ Head(jobs[p]).job = "write_state"
    /\ state' = Head(jobs[p]).state
    /\ UNCHANGED <<journal, tail, lock, procVars, left, minted, acked>>

\* Recovery writes the lagging state.json it loaded, set to the journal's tip.
RewriteState(p) ==
    /\ pc[p] = "locked"
    /\ jobs[p] # <<>>
    /\ Head(jobs[p]).job = "write_state"
    /\ state' = Head(jobs[p]).state
    /\ jobs' = [jobs EXCEPT ![p] = Tail(@)]
    /\ UNCHANGED <<journal, tail, lock, pc, orphans, after, reg, cmd, left, minted, acked>>

\* EventWriter.append: load state.json, link and hash the event ...
LoadState(p) ==
    /\ pc[p] = "locked"
    /\ jobs[p] # <<>>
    /\ Head(jobs[p]).job = "append"
    /\ reg' = [reg EXCEPT ![p] = state]
    /\ Goto(p, "write")
    /\ UNCHANGED <<diskVars, lock, jobs, orphans, after, cmd, left, minted, acked>>

\* Mutant: the sequence is counted down.
NewLineDown(p) ==
    [event_hash |-> minted + 1, previous_event_hash |-> reg[p].last_event_hash,
     sequence |-> reg[p].sequence - 1, event_type |-> Head(jobs[p]).event_type,
     command_id |-> Head(jobs[p]).command_id, parses |-> TRUE]

NewLine(p) ==
    [event_hash |-> minted + 1, previous_event_hash |-> reg[p].last_event_hash,
     sequence |-> reg[p].sequence + 1, event_type |-> Head(jobs[p]).event_type,
     command_id |-> Head(jobs[p]).command_id, parses |-> TRUE]

\* ... append its line and fsync.  A separator in the text splits the line for
\* every reader, which uses splitlines.
WriteLine(p) ==
    /\ pc[p] = "write"
    /\ Goto(p, "written")
    /\ journal' =
         IF tail = "none" /\ Head(jobs[p]).event_type # "human.separator"
         THEN Append(journal, NewLine(p))
         ELSE IF Head(jobs[p]).event_type = "human.separator"
              THEN BeforeTail \o <<Garbled, Garbled>>
              ELSE Append(BeforeTail, Garbled)
    /\ tail' = "none"
    /\ minted' = minted + 1
    /\ reg' = [reg EXCEPT ![p] = [sequence |-> @.sequence + 1, last_event_hash |-> minted + 1]]
    /\ UNCHANGED <<state, lock, jobs, orphans, after, cmd, left, acked>>

\* Mutant: the bump forgets last_event_hash.
BumpStateHalf(p) ==
    /\ pc[p] = "written"
    /\ state' = [state EXCEPT !.sequence = reg[p].sequence]
    /\ Goto(p, "locked")
    /\ jobs' = [jobs EXCEPT ![p] = Tail(@)]
    /\ acked' = acked \cup {reg[p].last_event_hash}
    /\ UNCHANGED <<journal, tail, lock, orphans, after, reg, cmd, left, minted>>

\* ... and, the mirror being off or best effort, set state.json to the new tip.
BumpState(p) ==
    /\ pc[p] = "written"
    /\ state' = reg[p]
    /\ Goto(p, "locked")
    /\ jobs' = [jobs EXCEPT ![p] = Tail(@)]
    /\ acked' = acked \cup {reg[p].last_event_hash}
    /\ UNCHANGED <<journal, tail, lock, orphans, after, reg, cmd, left, minted>>

\* The process gives up its command, by an exception or a kill; the operating
\* system drops its lock.
Abandon(p) ==
    /\ Goto(p, "idle")
    /\ lock' = IF lock = p THEN NoProc ELSE lock
    /\ jobs' = [jobs EXCEPT ![p] = <<>>]
    /\ orphans' = [orphans EXCEPT ![p] = {}]

\* A fail_closed mirror raises after the fsync and before the bump.
MirrorFails(p) ==
    /\ MirrorRaises
    /\ pc[p] = "written"
    /\ IF Head(jobs[p]).event_type \in SwallowedTypes
       THEN /\ Goto(p, "locked")
            /\ jobs' = [jobs EXCEPT ![p] = Tail(@)]
            /\ UNCHANGED <<lock, orphans>>
       ELSE Abandon(p)
    /\ UNCHANGED <<diskVars, after, reg, cmd, left, minted, acked>>

\* The lock is released: recovery hands over to the command, the started
\* append of rcr run to the child process, any other append ends the command.
Release(p) ==
    /\ pc[p] = "locked"
    /\ jobs[p] = <<>>
    /\ orphans[p] = {}
    /\ lock' = NoProc
    /\ Goto(p, after[p])
    /\ UNCHANGED <<diskVars, jobs, orphans, after, reg, cmd, left, minted, acked>>

\* The process asks for the lock to append one event, and goes on at next.
Request(p, type, id, next) ==
    /\ Goto(p, "want")
    /\ jobs' = [jobs EXCEPT ![p] = <<Append1(type, id)>>]
    /\ after' = [after EXCEPT ![p] = next]

\* Commands that record one event: rcr note, decision, software, ...
Note(p) ==
    /\ pc[p] = "ready"
    /\ \/ "note" \in Workload /\ Request(p, "human.note", NoCommand, "idle")
       \/ "separator" \in Workload /\ Request(p, "human.separator", NoCommand, "idle")
    /\ UNCHANGED <<diskVars, lock, orphans, reg, cmd, left, minted, acked>>

\* rcr run numbers its command from a state.json it reads without the lock.
StartCommand(p) ==
    /\ "command" \in Workload
    /\ pc[p] = "ready"
    /\ cmd' = [cmd EXCEPT ![p] = state.sequence + 1]
    /\ Request(p, "execution.command.started", state.sequence + 1, "running")
    /\ UNCHANGED <<diskVars, lock, orphans, reg, left, minted, acked>>

\* The child process has exited.
FinishCommand(p) ==
    /\ pc[p] = "running"
    /\ Request(p, "execution.command.completed", cmd[p], "idle")
    /\ UNCHANGED <<diskVars, lock, orphans, reg, cmd, left, minted, acked>>

\* A hook loads state.json without the lock ...
HookLoad(p) ==
    /\ "hook" \in Workload
    /\ pc[p] = "ready"
    /\ reg' = [reg EXCEPT ![p] = state]
    /\ Goto(p, "hookwrite")
    /\ UNCHANGED <<diskVars, lock, jobs, orphans, after, cmd, left, minted, acked>>

\* ... writes it back with the new session_id, and appends its event.
HookWrite(p) ==
    /\ pc[p] = "hookwrite"
    /\ state' = reg[p]
    /\ Request(p, "human.note", NoCommand, "idle")
    /\ UNCHANGED <<journal, tail, lock, orphans, reg, cmd, left, minted, acked>>

\* A kill.  The files keep what was written.
Crash(p) ==
    /\ pc[p] \in CrashAt
    /\ Abandon(p)
    /\ UNCHANGED <<diskVars, after, reg, cmd, left, minted, acked>>

\* A kill inside the write of the line: some bytes reach the file, or all of
\* them but the newline.  (Bound: not inside the write of a separator.)
TornWrite(p, t) ==
    /\ pc[p] = "write"
    /\ t \in TornTails
    /\ Head(jobs[p]).event_type # "human.separator"
    /\ Abandon(p)
    /\ minted' = minted + 1
    /\ IF tail = "none" /\ t = "open"
       THEN journal' = Append(journal, NewLine(p)) /\ tail' = "open"
       ELSE journal' = BeforeTail /\ tail' = "partial"
    /\ UNCHANGED <<state, after, reg, cmd, left, acked>>

ProcNext(p) ==
    \/ Begin(p) \/ Acquire(p) \/ ReadJournal(p) \/ BlockOrphan(p) \/ RewriteState(p)
    \/ LoadState(p) \/ WriteLine(p) \/ BumpState(p) \/ MirrorFails(p) \/ Release(p)
    \/ Note(p) \/ StartCommand(p) \/ FinishCommand(p) \/ HookLoad(p) \/ HookWrite(p)

Kill(p) == Crash(p) \/ \E t \in {"partial", "open"} : TornWrite(p, t)

AllDone == left = 0 /\ \A p \in Proc : pc[p] = "idle"

\* Every process has issued its commands.
Done == AllDone /\ UNCHANGED vars

Next == Done \/ \E p \in Proc : ProcNext(p) \/ Kill(p)

Spec == Init /\ [][Next]_vars

\* A running process makes progress; FileLock.acquire polls, so it gets a lock
\* that stays free.  A process need not be killed.
FairSpec == Spec /\ \A p \in Proc : WF_vars(ProcNext(p))
-----------------------------------------------------------------------------
(* Properties. *)

\* Every variable has its type.
TypeOK ==
    /\ journal \in Seq(Lines)
    /\ tail \in {"none", "partial", "open"}
    /\ state \in States
    /\ lock \in Proc \cup {NoProc}
    /\ pc \in [Proc -> ControlPoints]
    /\ jobs \in [Proc -> Seq(Jobs)]
    /\ orphans \in [Proc -> SUBSET Nat]
    /\ after \in [Proc -> {"idle", "ready", "running"}]
    /\ reg \in [Proc -> States]
    /\ cmd \in [Proc -> Nat]
    /\ left \in Nat
    /\ minted \in Nat
    /\ acked \in SUBSET Nat

\* The journal parses, is linked from its first event to its last, and numbers
\* its events without gap or repetition, at every step of every interleaving:
\* what check_journal demands, and what a broken read-modify-write loses.
ChainIntact ==
    /\ BadLines = {}
    /\ ChainOK(journal)
    /\ \A i \in 1 .. Len(journal) : journal[i].sequence = i

\* Whenever nobody holds the lock, state.json is the journal's tip, so the next
\* append links to the last event (recovery would otherwise report a lag).
StateAgrees == lock = NoProc => state = Tip(journal)

\* An event whose append returned stays readable in the journal.
Durable ==
    \A h \in acked : \E i \in 1 .. Len(journal) : journal[i].parses /\ journal[i].event_hash = h

KeepsReadable == \A i \in 1 .. Len(journal) :
    journal[i].parses => i <= Len(journal') /\ journal'[i] = journal[i]

\* No step, a recovery or a kill included, removes or alters an event that was
\* readable: the journal is append-only.
AppendOnly == [][KeepsReadable]_journal

CommandIds == {journal[i].command_id : i \in 1 .. Len(journal)} \ {NoCommand}

Positions(types, id) ==
    {i \in 1 .. Len(journal) : journal[i].event_type \in types /\ journal[i].command_id = id}

\* Once recovery has run, every rcr run that began earlier has its terminal event.
NoOrphanAfterRecovery == \A p \in Proc : pc[p] = "ready" =>
    \A id \in CommandIds : Positions(CommandTerminalEvents, id) # {}

\* A command_id names one execution: one started event and at most one terminal
\* event, recovery's abandoned mark included.
CommandsRecordedOnce ==
    \A id \in CommandIds :
        /\ Cardinality(Positions({"execution.command.started"}, id)) = 1
        /\ Cardinality(Positions(CommandTerminalEvents, id)) <= 1

\* Recovery leaves a journal whose chain verifies.
RecoveryVerifies == \A p \in Proc : pc[p] = "ready" => ~Corrupt /\ ChainOK(Parsed)

\* Every command of every process ends, whatever the kills, the failing mirror
\* and the damage they leave: nobody waits for the lock for ever.
AllCommandsEnd == <>AllDone

\* The failures the journal withstands: no writer of state.json outside the
\* lock, no separator in a text, no end of a process between the fsync of a line
\* and the bump of state.json, and no torn line another process appends to.
SafeFailures ==
    /\ Workload \cap {"hook", "separator"} = {}
    /\ "written" \notin CrashAt
    /\ ~MirrorRaises
    /\ TornTails \subseteq {"partial"}
    /\ TornTails = {} \/ \A p, q \in Proc : p = q

Appends(s) == \A k \in 1 .. Len(s) :
    s[k].job = "append" /\ s[k].event_type # "human.separator"

\* Hashes are minted in journal order, so no two events share one.
HashesAreFresh == \A i \in 1 .. Len(journal) :
    /\ journal[i].event_hash \in 1 .. minted
    /\ \A j \in 1 .. i - 1 : journal[j].event_hash # journal[i].event_hash

\* Why ChainIntact and StateAgrees hold under SafeFailures: between any two steps
\* state.json is the journal's tip, but for a holder that has written its line
\* and not bumped yet; a torn tail is seen by nobody who has not recovered;
\* and recovery never finds a lag, so it never writes state.json.
JournalInv ==
    /\ ChainIntact
    /\ HashesAreFresh
    /\ tail # "open"
    /\ tail = "partial" => /\ TornTails # {}
                           /\ \A p \in Proc : pc[p] \in {"idle", "recover", "read"}
    /\ (\A p \in Proc : pc[p] # "written") => state = Tip(journal)
    /\ \A p \in Proc :
        /\ pc[p] # "hookwrite"
        /\ Appends(jobs[p])
        /\ pc[p] = "write" => reg[p] = state
        /\ pc[p] = "written" => /\ journal # <<>>
                                /\ reg[p] = Tip(journal)
                                /\ state = Tip(AllButLast(journal))

-----------------------------------------------------------------------------
(* The append is atomic: the journal and state.json change together, at the   *)
(* bump of state.json.  Modules that compose the journal rely on it.          *)

\* A line that has been written is no event yet while state.json lags it.
Visible == IF \E p \in Proc : pc[p] = "written" THEN Len(journal) - 1 ELSE Len(journal)

AtomicEntry(l) == [event_hash |-> l.event_hash, sequence |-> l.sequence,
                   previous_event_hash |-> l.previous_event_hash]

AtomicLog == [i \in 1 .. Visible |-> AtomicEntry(journal[i])]

Atomic == INSTANCE AtomicJournal WITH log <- AtomicLog, head <- state

\* EventJournal implements the journal whose appends are atomic.
ImplementsAtomicJournal == Atomic!Spec
=============================================================================
