---------------------------- MODULE RunLifecycle ----------------------------
(***************************************************************************)
(* The life of the runs of one project directory: how rcr start and a hook *)
(* with RCR_AUTO_START create a run, how a closed run is moved file by     *)
(* file into the archive before the next one starts, and how the commands  *)
(* of a run keep the phase, the step and the declarations that state.json  *)
(* repeats in step with the journal.                                       *)
(*                                                                         *)
(* A process runs one rcr invocation after another.  What an invocation    *)
(* has left to do is the sequence todo of jobs; it can be killed before    *)
(* any of them.  A job that changes state.json loads it and writes back    *)
(* what it loaded, changed: appends and update_state under the run lock,   *)
(* checkpoints and session hooks without it.  An unlocked write can take   *)
(* back what another process has written since the load: undone holds the  *)
(* runs in which that has happened.  (checkpoint.lock, which keeps two     *)
(* checkpoints apart, is module Checkpoint's; without it there are more    *)
(* behaviours here than in the code.)                                      *)
(***************************************************************************)
EXTENDS Naturals, Sequences, FiniteSets

CONSTANTS
    Proc,          \* processes running rcr commands on one project
    Script,        \* bound: Script[p][i], the commands process p may run as its i-th
    Names,         \* names of phases, steps and declared inputs
    NoName,
    NoProc,
    Extras,        \* what a checkpoint does besides the build: sets of request,
                   \* selection and drift
    KillBefore,    \* jobs, and types of appends, a process may be killed before
    StartsAlone    \* a run is created while no other process is inside rcr

CommandNames == {"start", "note", "phase", "complete", "step", "declare", "abort",
                 "resume", "checkpoint", "finalize", "hook"}

ASSUME ConstantsAssumption ==
    /\ Script \in [Proc -> Seq(SUBSET CommandNames)]
    /\ NoName \notin Names
    /\ NoProc \notin Proc
    /\ Extras \subseteq SUBSET {"request", "selection", "drift"}
    /\ KillBefore \subseteq STRING
    /\ StartsAlone \in BOOLEAN

VARIABLES
    events,    \* events.ndjson
    state,     \* state.json, or NoFile
    idMap,     \* the run id-map.json was written for
    crate,     \* the run ro-crate/ was built for
    archive,   \* .ro-crate-run/archive: its directories, oldest first
    pc,        \* per process: "idle", "ready" (recovered) or "busy"
    todo,      \* per process: the jobs its command still has to do
    lock,      \* the process that holds the run lock, or NoProc
    reg,       \* per process: state.json as loaded and not yet written back, or NoFile
    ran,       \* per process: commands run or running
    runs,      \* run ids minted so far
    minted,    \* events hashed so far
    undone     \* history: runs in which an unlocked write took back another's write

disk == <<events, state, idMap, crate, archive>>
locking == <<lock, reg, undone>>
vars == <<disk, pc, todo, locking, ran, runs, minted>>

NoRun == 0
NoHash == 0
Runs == Nat
RunTerminalEvents == {"run.finalized", "run.aborted"}

\* initial_state.
NewState(run) ==
    [run |-> run, sequence |-> 0, last_event_hash |-> NoHash, phase |-> NoName,
     step |-> NoName, declared |-> {}, checkpointed |-> FALSE]

\* state.json does not exist.
NoFile == NewState(NoRun)

Entry(s, hash, type, name) ==
    [run |-> s.run, sequence |-> s.sequence + 1, event_hash |-> hash,
     previous_event_hash |-> s.last_event_hash, event_type |-> type, name |-> name]

-----------------------------------------------------------------------------
(* Reading a journal. *)

Types(log) == {log[i].event_type : i \in 1 .. Len(log)}

\* is_active_run: no terminal event.
IsActive(log) == Types(log) \cap RunTerminalEvents = {}

\* verify_hash_chain.
Linked(log) == \A i \in 1 .. Len(log) :
    log[i].previous_event_hash = IF i = 1 THEN NoHash ELSE log[i - 1].event_hash

Lagged(log, s) == log # <<>> /\ \/ s.sequence # log[Len(log)].sequence
                                \/ s.last_event_hash # log[Len(log)].event_hash

-----------------------------------------------------------------------------
(* Jobs. *)

Do(job) == [job |-> job, name |-> NoName]
DoWith(job, name) == [job |-> job, name |-> name]

Files == {"events.ndjson", "state.json", "id-map.json", "ro-crate"}

\* The jobs that are no append; any other job appends an event of its name.
Updates == {"set_phase", "clear_phase", "set_step", "clear_step", "set_declared"}
Saves == {"save_state", "mark_checkpoint"}
Steps == Files \cup Updates \cup Saves \cup
         {"write_state", "write_id_map", "recover", "resume_if_active", "build", "gate"}

\* Mutant: the derived crate stays where it is.
ArchiveJobsNoCrate == <<Do("events.ndjson"), Do("state.json"), Do("id-map.json")>>

\* Mutant: the id map stays where it is.
ArchiveJobsNoIdMap == <<Do("events.ndjson"), Do("state.json"), Do("ro-crate")>>

\* _archive_closed_run moves the run's files in this order.
ArchiveJobs == <<Do("events.ndjson"), Do("state.json"), Do("id-map.json"), Do("ro-crate")>>

BootstrapJobs == <<Do("write_state"), Do("write_id_map"), Do("run.started"),
                   Do("environment.observed")>>

If(condition, jobs) == IF condition THEN jobs ELSE <<>>

\* A checkpoint saves an explicit requested profile, records a new selection and
\* its confidence, saves dirty on drift, builds, and saves the profile built for.
CheckpointPlan(extras) ==
    If("request" \in extras, <<Do("save_state")>>) \o
    If("selection" \in extras, <<Do("workflow.profile.selected"), Do("save_state")>>) \o
    If("drift" \in extras, <<Do("save_state")>>) \o
    <<Do("crate.checkpoint.started"), Do("build"), Do("save_state"),
      Do("crate.checkpoint.completed"), Do("mark_checkpoint")>>

CheckpointJobs == {CheckpointPlan(extras) : extras \in Extras}

\* A hook recovers, saves a session_id it does not find in state.json, and records
\* its event; the start of a session in an active run also resumes it.
HookJobs ==
    {<<Do("recover")>> \o If(newSession, <<Do("save_state")>>) \o event :
     newSession \in BOOLEAN,
     event \in {<<Do("session.started"), Do("resume_if_active")>>, <<Do("tool.requested")>>}}

Creates(p) == \E i \in 1 .. Len(todo[p]) :
    todo[p][i].job \in Files \cup {"write_state", "write_id_map", "run.started"}

SomeoneCreates == \E p \in Proc : Creates(p)

Init ==
    /\ events = <<>>
    /\ state = NoFile
    /\ idMap = NoRun
    /\ crate = NoRun
    /\ archive = <<>>
    /\ pc = [p \in Proc |-> "idle"]
    /\ todo = [p \in Proc |-> <<>>]
    /\ lock = NoProc
    /\ reg = [p \in Proc |-> NoFile]
    /\ undone = {}
    /\ ran = [p \in Proc |-> 0]
    /\ runs = 0
    /\ minted = 0

-----------------------------------------------------------------------------
(* Recovery, as module EventJournal has it, for a journal whose lines parse  *)
(* and hold no command: a broken chain is reported by an event, a lagging    *)
(* state is set to the tip, all under the run lock.  One step here: it writes *)
(* nothing before an unlocked write has left the state behind the journal.    *)

\* s set to the tip of log.
AtTip(s, log) == [s EXCEPT !.sequence = log[Len(log)].sequence,
                           !.last_event_hash = log[Len(log)].event_hash]

\* Mutant: the journal is opened for writing instead of appending.
WrittenTruncating(type, name, d) ==
    [d EXCEPT !.log = <<Entry(d.state, d.minted + 1, type, name)>>, !.minted = @ + 1]

\* The line of an event, linked and numbered by the state of the files d.
Written(type, name, d) ==
    [d EXCEPT !.log = Append(@, Entry(d.state, d.minted + 1, type, name)), !.minted = @ + 1]

\* EventWriter.append on the files d: write the line, bump the state.
Appended(type, name, d) ==
    LET line == Written(type, name, d) IN [line EXCEPT !.state = AtTip(@, line.log)]

OnDisk == [log |-> events, state |-> state, minted |-> minted]

\* The loaded state, set to the tip of the journal.
Reconciled == AtTip(state, events)

Recovered ==
    IF ~Linked(events) THEN Appended("journal.repair.failed", NoName, OnDisk)
    ELSE IF Lagged(events, state)
         THEN LET marked == Appended("journal.repair.started", NoName, OnDisk)
              IN  Appended("journal.repair.completed", NoName, [marked EXCEPT !.state = Reconciled])
         ELSE OnDisk

Write(d) == events' = d.log /\ state' = d.state /\ minted' = d.minted

Recover == lock = NoProc /\ Write(Recovered)

-----------------------------------------------------------------------------
(* The commands.                                                            *)

\* The next command of p's script.
Takes(p, command) ==
    /\ ran[p] < Len(Script[p])
    /\ command \in Script[p][ran[p] + 1]
    /\ ran' = [ran EXCEPT ![p] = @ + 1]

Invoke(p, command) ==
    /\ pc[p] = "idle"
    /\ Takes(p, command)
    /\ StartsAlone => ~SomeoneCreates

Alone(p) == StartsAlone => \A q \in Proc \ {p} : pc[q] = "idle"

\* The command's remaining jobs; it ends with the last of them.
Proceed(p, jobs) ==
    /\ todo' = [todo EXCEPT ![p] = jobs]
    /\ pc' = [pc EXCEPT ![p] = IF jobs = <<>> THEN "idle" ELSE "busy"]

\* Mutant: a second start makes a new run of an active one.
StartClobbering(p) ==
    /\ Invoke(p, "start")
    /\ Alone(p)
    /\ \E checkpoint \in {<<>>} \cup CheckpointJobs : Proceed(p, BootstrapJobs \o checkpoint)
    /\ UNCHANGED <<disk, locking, runs, minted>>

\* rcr start: leaves an active run as it is, archives a closed one.  (It does
\* not recover first.)  With --no-checkpoint it ends without a checkpoint.
Start(p) ==
    /\ Invoke(p, "start")
    /\ \E checkpoint \in {<<>>} \cup CheckpointJobs :
         IF state # NoFile /\ IsActive(events)
         THEN /\ Proceed(p, <<Do("recover")>> \o checkpoint)
              /\ UNCHANGED archive
         ELSE /\ Alone(p)
              /\ IF state = NoFile
                 THEN /\ Proceed(p, BootstrapJobs \o checkpoint)
                      /\ UNCHANGED archive
                 ELSE /\ Proceed(p, ArchiveJobs \o BootstrapJobs \o checkpoint)
                      /\ archive' = Append(archive,
                           [events |-> <<>>, state |-> NoFile, idMap |-> NoRun, crate |-> NoRun])
    /\ UNCHANGED <<events, state, idMap, crate, locking, runs, minted>>

\* A hook other than Stop, with RCR_AUTO_START set when there is no run.
Hook(p) ==
    /\ Invoke(p, "hook")
    /\ \E jobs \in HookJobs :
         IF state = NoFile
         THEN Alone(p) /\ Proceed(p, BootstrapJobs \o jobs)
         ELSE Proceed(p, jobs)
    /\ UNCHANGED <<disk, locking, runs, minted>>

\* Every other command recovers first, and fails without a run.
Main(p) ==
    /\ pc[p] = "idle"
    /\ ran[p] < Len(Script[p])
    /\ Script[p][ran[p] + 1] \ {"start", "hook"} # {}
    /\ StartsAlone => ~SomeoneCreates
    /\ IF state = NoFile
       THEN /\ ran' = [ran EXCEPT ![p] = @ + 1]
            /\ UNCHANGED <<events, state, minted, pc>>
       ELSE /\ Recover
            /\ pc' = [pc EXCEPT ![p] = "ready"]
            /\ UNCHANGED ran
    /\ UNCHANGED <<idMap, crate, archive, todo, locking, runs>>

Ready(p, command) ==
    /\ pc[p] = "ready"
    /\ Takes(p, command)
    /\ UNCHANGED <<disk, locking, runs, minted>>

\* rcr note, and every command that appends one event.
Note(p) == Ready(p, "note") /\ Proceed(p, <<Do("human.note")>>)

Abort(p) == Ready(p, "abort") /\ Proceed(p, <<Do("run.aborted")>>)

Resume(p) == Ready(p, "resume") /\ Proceed(p, <<Do("recover"), Do("run.resumed")>>)

\* rcr phase NAME: completes the open phase first when it is asked to.
Phase(p) ==
    /\ Ready(p, "phase")
    /\ \E name \in Names, completeCurrent \in BOOLEAN :
         LET complete == IF completeCurrent /\ state.phase # NoName
                         THEN <<DoWith("workflow.phase.completed", state.phase)>> ELSE <<>>
         IN  Proceed(p, complete \o <<DoWith("workflow.phase.started", name),
                                      DoWith("set_phase", name)>>)

\* rcr phase complete [NAME]: NAME defaults to the open phase, and to a fixed word
\* (NoName) without one.
PhaseComplete(p) ==
    /\ Ready(p, "complete")
    /\ \E name \in Names \cup {state.phase} :
         Proceed(p, <<DoWith("workflow.phase.completed", name), Do("clear_phase")>>)

\* Mutant: the end of any step clears the current one.
StepForgets(p) ==
    /\ Ready(p, "step")
    /\ \E id \in Names :
         \/ Proceed(p, <<DoWith("workflow.step.started", id), DoWith("set_step", id)>>)
         \/ Proceed(p, <<DoWith("workflow.step.completed", id), DoWith("set_step", NoName)>>)

\* rcr step start|end ID; failed and skipped steps end like completed ones.
Step(p) ==
    /\ Ready(p, "step")
    /\ \E id \in Names :
         \/ Proceed(p, <<DoWith("workflow.step.started", id), DoWith("set_step", id)>>)
         \/ Proceed(p, <<DoWith("workflow.step.completed", id), DoWith("clear_step", id)>>)

\* rcr input (output and software alike).
Declare(p) ==
    /\ Ready(p, "declare")
    /\ \E path \in Names :
         Proceed(p, <<DoWith("workflow.input.declared", path), DoWith("set_declared", path)>>)

Checkpoint(p) ==
    /\ Ready(p, "checkpoint")
    /\ \E jobs \in CheckpointJobs : Proceed(p, jobs)

\* finalize checkpoints a run that is dirty or has no checkpoint.
Finalize(p) ==
    /\ Ready(p, "finalize")
    /\ \/ \E jobs \in CheckpointJobs : Proceed(p, jobs \o <<Do("gate")>>)
       \/ state.checkpointed /\ Proceed(p, <<Do("gate")>>)

-----------------------------------------------------------------------------
(* The jobs of a command.                                                    *)

Current(p) == Head(todo[p])
Finish(p) == Proceed(p, Tail(todo[p]))

Busy(p, jobs) == todo[p] # <<>> /\ Current(p).job \in jobs

Acquire(p) == lock = NoProc /\ lock' = p
Release(p) == lock' = NoProc /\ reg' = [reg EXCEPT ![p] = NoFile]
Load(p) == reg[p] = NoFile /\ reg' = [reg EXCEPT ![p] = state]

\* EventWriter.append, under the run lock: the line.  It raises FileNotFoundError
\* without state.json.
AppendLine(p) ==
    /\ todo[p] # <<>>
    /\ Current(p).job \notin Steps
    /\ lock = NoProc
    /\ IF state = NoFile
       THEN Proceed(p, <<>>) /\ UNCHANGED <<events, state, minted, lock>>
       ELSE /\ lock' = p
            /\ Write(Written(Current(p).job, Current(p).name, OnDisk))
            /\ UNCHANGED <<pc, todo>>
    /\ UNCHANGED <<idMap, crate, archive, reg, undone, ran, runs>>

\* _bump_state loads state.json again ...
BumpLoad(p) ==
    /\ todo[p] # <<>>
    /\ Current(p).job \notin Steps
    /\ lock = p
    /\ Load(p)
    /\ UNCHANGED <<disk, pc, todo, lock, undone, ran, runs, minted>>

\* ... and writes it back at the tip.
BumpWrite(p) ==
    /\ todo[p] # <<>>
    /\ Current(p).job \notin Steps
    /\ lock = p /\ reg[p] # NoFile
    /\ state' = AtTip(reg[p], events)
    /\ Release(p)
    /\ IF Current(p).job = "crate.checkpoint.failed" THEN Proceed(p, <<>>) ELSE Finish(p)
    /\ UNCHANGED <<events, idMap, crate, archive, undone, ran, runs, minted>>

\* One shutil.move of _archive_closed_run, into the newest directory.
Move(p) ==
    /\ todo[p] # <<>>
    /\ Finish(p)
    /\ LET dir == Len(archive)
       IN \/ /\ Current(p).job = "events.ndjson"
             /\ archive' = [archive EXCEPT ![dir].events = events]
             /\ events' = <<>>
             /\ UNCHANGED <<state, idMap, crate>>
          \/ /\ Current(p).job = "state.json"
             /\ archive' = [archive EXCEPT ![dir].state = state]
             /\ state' = NoFile
             /\ UNCHANGED <<events, idMap, crate>>
          \/ /\ Current(p).job = "id-map.json"
             /\ archive' = [archive EXCEPT ![dir].idMap = idMap]
             /\ idMap' = NoRun
             /\ UNCHANGED <<events, state, crate>>
          \/ /\ Current(p).job = "ro-crate"
             /\ archive' = [archive EXCEPT ![dir].crate = crate]
             /\ crate' = NoRun
             /\ UNCHANGED <<events, state, idMap>>
    /\ UNCHANGED <<locking, ran, runs, minted>>

\* _bootstrap_run: a fresh run_id and state ...
WriteState(p) ==
    /\ todo[p] # <<>>
    /\ Current(p).job = "write_state"
    /\ state' = NewState(runs + 1)
    /\ runs' = runs + 1
    /\ Finish(p)
    /\ UNCHANGED <<events, idMap, crate, archive, locking, ran, minted>>

\* ... and a fresh id map.
WriteIdMap(p) ==
    /\ todo[p] # <<>>
    /\ Current(p).job = "write_id_map"
    /\ idMap' = state.run
    /\ Finish(p)
    /\ UNCHANGED <<events, state, crate, archive, locking, ran, runs, minted>>

\* ensure_recovered inside a command.
RecoverJob(p) ==
    /\ todo[p] # <<>>
    /\ Current(p).job = "recover"
    /\ IF state = NoFile THEN UNCHANGED <<events, state, minted>> ELSE Recover
    /\ Finish(p)
    /\ UNCHANGED <<idMap, crate, archive, locking, ran, runs>>

\* A session that starts in an active run resumes it.
ResumeIfActive(p) ==
    /\ todo[p] # <<>>
    /\ Current(p).job = "resume_if_active"
    /\ Proceed(p, IF IsActive(events) THEN <<Do("run.resumed")>> ELSE <<>>)
    /\ UNCHANGED <<disk, locking, ran, runs, minted>>

\* update_state, under the run lock: loads state.json ...
UpdateLoad(p) ==
    /\ Busy(p, Updates)
    /\ Acquire(p)
    /\ Load(p)
    /\ UNCHANGED <<disk, pc, todo, undone, ran, runs, minted>>

\* ... and writes one field of it.
UpdateWrite(p) ==
    /\ Busy(p, Updates)
    /\ lock = p
    /\ LET name == Current(p).name
       IN \/ Current(p).job = "set_phase" /\ state' = [reg[p] EXCEPT !.phase = name]
          \/ Current(p).job = "clear_phase" /\ state' = [reg[p] EXCEPT !.phase = NoName]
          \/ Current(p).job = "set_step" /\ state' = [reg[p] EXCEPT !.step = name]
          \/ /\ Current(p).job = "clear_step"
             /\ state' = [reg[p] EXCEPT !.step = IF @ = name THEN NoName ELSE @]
          \/ /\ Current(p).job = "set_declared"
             /\ state' = [reg[p] EXCEPT !.declared = @ \cup {name}]
    /\ Release(p)
    /\ Finish(p)
    /\ UNCHANGED <<events, idMap, crate, archive, undone, ran, runs, minted>>

\* load_state in a checkpoint or a hook, without the run lock; it raises without a file.
SaveLoad(p) ==
    /\ Busy(p, Saves)
    /\ Load(p)
    /\ IF state = NoFile THEN Proceed(p, <<>>) ELSE UNCHANGED <<pc, todo>>
    /\ UNCHANGED <<disk, lock, undone, ran, runs, minted>>

\* The write_state that follows: session_id, the profile and dirty are not fields
\* here, so a save writes back what was loaded; the last one of a checkpoint marks it.
SaveWrite(p) ==
    /\ Busy(p, Saves)
    /\ reg[p] # NoFile
    /\ state' = [reg[p] EXCEPT !.checkpointed = @ \/ Current(p).job = "mark_checkpoint"]
    /\ undone' = IF state = reg[p] THEN undone ELSE undone \cup {reg[p].run}
    /\ reg' = [reg EXCEPT ![p] = NoFile]
    /\ Finish(p)
    /\ UNCHANGED <<events, idMap, crate, archive, lock, ran, runs, minted>>

\* A checkpoint builds the crate of the run state.json names, or raises, before
\* it has written the crate or after.
Build(p) ==
    /\ Busy(p, {"build"})
    /\ \/ Linked(events) /\ crate' = state.run /\ Finish(p)
       \/ /\ crate' \in {crate} \cup IF Linked(events) THEN {state.run} ELSE {}
          /\ Proceed(p, <<Do("crate.checkpoint.failed")>>)
    /\ UNCHANGED <<events, state, idMap, archive, locking, ran, runs, minted>>

\* finalize validates what it would ship.
Gate(p) ==
    /\ Busy(p, {"gate"})
    /\ \/ Proceed(p, <<Do("run.finalized"), Do("crate.finalized")>>)
       \/ Proceed(p, <<Do("run.export.blocked")>>)
    /\ UNCHANGED <<disk, locking, ran, runs, minted>>

\* A kill, outside the run lock (EventJournal and Checkpoint have those inside).
Kill(p) ==
    /\ Busy(p, KillBefore)
    /\ lock # p
    /\ Proceed(p, <<>>)
    /\ reg' = [reg EXCEPT ![p] = NoFile]
    /\ UNCHANGED <<disk, lock, undone, ran, runs, minted>>

Command(p) ==
    \/ Start(p) \/ Hook(p) \/ Main(p) \/ Note(p) \/ Abort(p) \/ Resume(p) \/ Phase(p)
    \/ PhaseComplete(p) \/ Step(p) \/ Declare(p) \/ Checkpoint(p) \/ Finalize(p)

Job(p) ==
    \/ AppendLine(p) \/ BumpLoad(p) \/ BumpWrite(p) \/ Move(p) \/ WriteState(p)
    \/ WriteIdMap(p) \/ RecoverJob(p) \/ ResumeIfActive(p) \/ UpdateLoad(p) \/ UpdateWrite(p)
    \/ SaveLoad(p) \/ SaveWrite(p) \/ Build(p) \/ Gate(p)

\* Every process has run its commands.
Done == (\A p \in Proc : ran[p] = Len(Script[p]) /\ pc[p] = "idle") /\ UNCHANGED vars

Next == Done \/ \E p \in Proc : Command(p) \/ Job(p) \/ Kill(p)

Spec == Init /\ [][Next]_vars

-----------------------------------------------------------------------------
(* Properties. *)

\* log is the journal of the run s describes: its events only, linked and
\* numbered from 1, from its run.started to the tip s holds.
JournalOf(log, s) ==
    /\ Linked(log)
    /\ \A i \in 1 .. Len(log) : log[i].run = s.run /\ log[i].sequence = i
    /\ log # <<>> => log[1].event_type = "run.started"
    /\ s.sequence = Len(log)
    /\ s.last_event_hash = IF log = <<>> THEN NoHash ELSE log[Len(log)].event_hash

OfRun(log, run) == \A i \in 1 .. Len(log) : log[i].run = run

\* The journal belongs to one run, the one state.json describes, however often
\* runs are closed, archived and started: no event lands on a foreign chain.  As
\* long as no unlocked write has taken another's back, it is one chain, numbered
\* from 1 to the tip state.json holds.
JournalIsOfRun == state # NoFile /\ ~SomeoneCreates =>
    /\ OfRun(events, state.run)
    /\ lock = NoProc /\ state.run \notin undone => JournalOf(events, state)

\* An archived run is whole: its journal with its terminal event, and the state,
\* id map and crate of the same run; the journal is the chain the archived state
\* describes, with the same exception.  (A kill may leave an empty directory.)
ArchivedRunsWhole == ~SomeoneCreates => \A i \in 1 .. Len(archive) :
    LET dir == archive[i] IN
    dir.events # <<>> =>
        /\ OfRun(dir.events, dir.state.run)
        /\ dir.state.run \notin undone => JournalOf(dir.events, dir.state)
        /\ Types(dir.events) \cap RunTerminalEvents # {}
        /\ dir.idMap = dir.state.run
        /\ dir.crate \in {NoRun, dir.state.run}

\* An event once appended is in the journal or in one archived journal.
EventsKept == \A hash \in 1 .. minted :
    LET Holds(log) == {i \in 1 .. Len(log) : log[i].event_hash = hash}
    IN  /\ \/ Holds(events) # {}
           \/ \E i \in 1 .. Len(archive) : Holds(archive[i].events) # {}
        /\ Cardinality(Holds(events)) <= 1

\* The crate in place is the current run's, so validate and finalize never take
\* an earlier run's crate for this one's; a checkpointed run has one.
CrateIsOfRun == state # NoFile /\ ~SomeoneCreates =>
    /\ crate \in {NoRun, state.run}
    /\ state.checkpointed => crate = state.run

Indices(type) == {i \in 1 .. Len(events) : events[i].event_type = type}

\* The phase, step and declarations a reader of the journal finds.
OpenPhase(name) == \E i \in Indices("workflow.phase.started") :
    /\ events[i].name = name
    /\ \A j \in Indices("workflow.phase.started") \cup Indices("workflow.phase.completed") : j <= i

OpenStep(id) == \E i \in Indices("workflow.step.started") :
    /\ events[i].name = id
    /\ \A j \in Indices("workflow.step.started") : j <= i
    /\ \A j \in Indices("workflow.step.completed") : j > i => events[j].name # id

Updating(p) == \E i \in 1 .. Len(todo[p]) : todo[p][i].job \in Updates

\* state.json is a cache of the journal: between commands that update it, its
\* phase, step and declarations are those the journal ends with, whatever appends,
\* saves and recoveries of hooks and checkpoints are interleaved, over every end
\* and start of a run, unless an unlocked write has taken another's back.
StateFollowsJournal ==
    /\ state # NoFile /\ state.run \notin undone
    /\ ~SomeoneCreates
    /\ \A p \in Proc : ~Updating(p)
    =>
        /\ \A name \in Names : state.phase = name <=> OpenPhase(name)
        /\ \A id \in Names : state.step = id <=> OpenStep(id)
        /\ state.declared = {events[i].name : i \in Indices("workflow.input.declared")}
=============================================================================
