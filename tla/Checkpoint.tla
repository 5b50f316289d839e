----------------------------- MODULE Checkpoint -----------------------------
(***************************************************************************)
(* How the RO-Crate keeps up with the journal: rcr checkpoint materializes *)
(* the events up to a high-water mark into the crate, validates it, and    *)
(* clears state.dirty; rcr finalize checkpoints a stale run, gates the     *)
(* crate with one more validation and ships it; the Stop hook checkpoints  *)
(* it, validates it, and lets the session go or holds it.                  *)
(*                                                                         *)
(* Appends are the atomic ones EventJournal implements, but for the bump of *)
(* state.json, whose load and write the unlocked writers of checkpoint can *)
(* come between.  sequence and last_event_hash of state.json always change *)
(* together, so the chain is intact iff each event is numbered by its place.*)
(***************************************************************************)
EXTENDS Naturals, Sequences, SequencesExt

CONSTANTS
    Proc,         \* processes running rcr commands on one state directory
    NoProc,       \* nobody holds the lock
    Workload,     \* commands a process may run, a subset of Commands
    Requests,     \* values of --profile given to start and checkpoint
    Modes,        \* capture modes of the run
    Verdicts,     \* what the checks of the crate's content may conclude
    Upgrades,     \* bound: installs of a new materializer version
    Changes,      \* bound: rewrites of a known output file
    MaxCommands,  \* bound: commands started by all processes together
    CrashAt,      \* control points at which a process may be killed
    BuildRaises   \* write_crate may raise

Commands == {"human.note", "file.created", "checkpoint", "finalize", "validate", "status", "stop"}

Profiles == {"process", "workflow"}

ControlPoints ==
    {"idle", "recover", "ready", "append", "bump", "bumped", "mark", "marked",
     "checkpoint", "persist", "persisted", "preview", "confidence", "confident", "drift",
     "drifted", "highwater", "integrity", "build", "built", "profiled", "context", "validate",
     "complete", "completed", "raise", "gated", "blocked", "finalized", "finalized2", "stage",
     "ship", "stale", "exit"}

\* Inside an append or an update_state; EventJournal models these kills.
Appending == {"bump", "bumped", "marked"}

ASSUME ConstantsAssumption ==
    /\ NoProc \notin Proc
    /\ Workload \subseteq Commands
    /\ Requests \subseteq Profiles \cup {"auto"} /\ Requests # {}
    /\ Modes \subseteq {"advisory", "monitored", "enforced"} /\ Modes # {}
    /\ Verdicts \subseteq {"passed", "failed"} /\ Verdicts # {}
    /\ Upgrades \in Nat /\ Changes \in Nat /\ MaxCommands \in Nat
    /\ CrashAt \subseteq ControlPoints \ ({"idle", "exit"} \cup Appending)
    /\ BuildRaises \in BOOLEAN

VARIABLES
    events,    \* events.ndjson: sequence, event_type, selected_profile
    state,     \* state.json: sequence, dirty, requested and selected profile, last_checkpoint
    crate,     \* ro-crate/: the sequence it materializes and its profile
    lock,      \* holder of the run lock
    ckptLock,  \* holder of checkpoint.lock
    version,   \* installed materializer version
    changed,   \* a known output no longer has its recorded hash
    pc,        \* control point of each process
    job,       \* what the process remembers of its command
    reg,       \* the state the process loaded last
    left,      \* commands that may still be started
    upgrades,  \* upgrades that may still happen
    changes,   \* output rewrites that may still happen
    shipped,   \* history: what finalize shipped last, and the events it was asked for
    released   \* history: the crate of the session let go last, and the events before its hook

files == <<events, state, crate>>
environment == <<version, changed, upgrades, changes>>
vars == <<files, environment, lock, ckptLock, pc, job, reg, left, shipped, released>>

-----------------------------------------------------------------------------
(* Events and what they say about the crate. *)

Event(seq, type, profile) == [sequence |-> seq, event_type |-> type, selected_profile |-> profile]

\* dirty_effect: completed clears, checkpoint and validation bookkeeping preserves.
Preserving == {"crate.checkpoint.started", "crate.validation.started", "crate.validation.completed"}

\* Mutant: crate.checkpoint.started makes the run dirty.
SetsMore(type) == type \notin (Preserving \ {"crate.checkpoint.started"})
                              \cup {"crate.checkpoint.completed"}

Sets(type) == type \notin Preserving \cup {"crate.checkpoint.completed"}

DirtyAfter(type, dirty) == Sets(type) \/ (dirty /\ type # "crate.checkpoint.completed")

Pending(s, through) == \E i \in 1 .. Len(s) : s[i].sequence > through /\ Sets(s[i].event_type)

Broken(s) == \E i \in 1 .. Len(s) : s[i].sequence # i

Through(seq) == {events[i] : i \in {n \in 1 .. Len(events) : events[n].sequence <= seq}}

\* select_profile: an explicit request wins; a file the agent edited is structured work.
Select(request, seen) ==
    IF request # "auto" THEN request
    ELSE IF \E e \in seen : e.event_type = "file.created" THEN "workflow" ELSE "process"

Selections == SelectSeq(events, LAMBDA e : e.event_type = "workflow.profile.selected")

NoCheckpoint == [materialized_through |-> 0, event_sequence |-> 0, status |-> "none", version |-> 0]

\* check_journal and check_state on a loaded state and the events read after it.
Inconsistent(s, ev) ==
    LET last == s.last_checkpoint
        pending == Pending(ev, last.materialized_through)
    IN  \/ Broken(ev)
        \/ s.sequence # ev[Len(ev)].sequence
        \/ /\ last # NoCheckpoint
           /\ \/ last.materialized_through > s.sequence
              \/ last.event_sequence > s.sequence
              \/ pending /\ ~s.dirty
              \/ ~pending /\ s.dirty /\ last.status # "failed"

-----------------------------------------------------------------------------
NoJob == [work |-> "none", request |-> "auto", version |-> 0, type |-> "none", profile |-> "none",
          next |-> "idle", appended |-> 0, preview |-> "none", model |-> "none", high_water |-> 0,
          status |-> "none", staged |-> 0, base |-> 0, mode |-> "none", stale |-> FALSE]

\* The registers of a process that is not running.
NoState == [sequence |-> 0, dirty |-> TRUE, requested |-> "auto", selected |-> "process",
            last_checkpoint |-> NoCheckpoint]

\* The run as rcr start --no-checkpoint --profile request and one rcr output leave it.
Init ==
    /\ events = <<Event(1, "run.started", "none"), Event(2, "environment.observed", "none"),
                  Event(3, "workflow.output.declared", "none")>>
    /\ \E request \in Requests :
         state = [sequence |-> 3, dirty |-> TRUE, requested |-> request,
                  selected |-> IF request = "auto" THEN "process" ELSE request,
                  last_checkpoint |-> NoCheckpoint]
    /\ crate = [through |-> 0, profile |-> "none"]
    /\ lock = NoProc
    /\ ckptLock = NoProc
    /\ version = 1
    /\ changed = FALSE
    /\ pc = [p \in Proc |-> "idle"]
    /\ job = [p \in Proc |-> NoJob]
    /\ reg = [p \in Proc |-> NoState]
    /\ left = MaxCommands
    /\ upgrades = Upgrades
    /\ changes = Changes
    /\ shipped = [through |-> 0, base |-> 0]
    /\ released = [through |-> 0, base |-> 0]

Goto(p, point) == pc' = [pc EXCEPT ![p] = point]

\* EventWriter.append with job j at hand, and then on to next.
Call(p, j, type, profile, next) ==
    /\ Goto(p, "append")
    /\ job' = [job EXCEPT ![p] = [j EXCEPT !.type = type, !.profile = profile, !.next = next]]

-----------------------------------------------------------------------------
(* Every command: recovery, appends. *)

\* The process starts an rcr command with the materializer installed now; the mode
\* of the run matters to the Stop hook only.
Begin(p) ==
    /\ pc[p] = "idle"
    /\ left > 0
    /\ left' = left - 1
    /\ \E work \in Workload, request \in Requests, mode \in Modes :
         /\ request # "auto" => work = "checkpoint"
         /\ job' = [job EXCEPT ![p] = [NoJob EXCEPT !.work = work, !.request = request,
                                          !.version = version,
                                          !.mode = IF work = "stop" THEN mode ELSE "none"]]
    /\ Goto(p, "recover")
    /\ UNCHANGED <<files, environment, lock, ckptLock, reg, shipped, released>>

\* ensure_recovered, one step under the run lock: it finds a broken chain, a
\* lagging state.json or nothing to do, and its markers link to the stale state.
Recover(p) ==
    /\ pc[p] = "recover"
    /\ lock = NoProc
    /\ Goto(p, "ready")
    /\ \/ /\ Broken(events)
          /\ events' = Append(events, Event(state.sequence + 1, "journal.repair.failed", "none"))
          /\ state' = [state EXCEPT !.sequence = @ + 1, !.dirty = TRUE]
       \/ /\ ~Broken(events)
          /\ state.sequence # Len(events)
          /\ events' = events \o <<Event(state.sequence + 1, "journal.repair.started", "none"),
                                   Event(Len(events) + 1, "journal.repair.completed", "none")>>
          /\ state' = [state EXCEPT !.sequence = Len(events) + 1, !.dirty = TRUE]
       \/ ~Broken(events) /\ state.sequence = Len(events) /\ UNCHANGED <<events, state>>
    /\ UNCHANGED <<environment, crate, lock, ckptLock, job, reg, left, shipped, released>>

\* EventWriter.append under the run lock: link to state.json, write the line ...
AppendLine(p) ==
    /\ pc[p] = "append"
    /\ lock = NoProc
    /\ lock' = p
    /\ events' = Append(events, Event(state.sequence + 1, job[p].type, job[p].profile))
    /\ job' = [job EXCEPT ![p].appended = state.sequence + 1]
    /\ Goto(p, "bump")
    /\ UNCHANGED <<state, crate, environment, ckptLock, reg, left, shipped, released>>

\* ... load state.json again ...
BumpLoad(p) ==
    /\ pc[p] = "bump"
    /\ reg' = [reg EXCEPT ![p] = state]
    /\ Goto(p, "bumped")
    /\ UNCHANGED <<files, environment, lock, ckptLock, job, left, shipped, released>>

\* ... and write it with the new sequence and dirty flag.
BumpWrite(p) ==
    /\ pc[p] = "bumped"
    /\ state' = [reg[p] EXCEPT !.sequence = job[p].appended, !.dirty = DirtyAfter(job[p].type, @)]
    /\ lock' = NoProc
    /\ Goto(p, job[p].next)
    /\ UNCHANGED <<events, crate, environment, ckptLock, job, reg, left, shipped, released>>

\* A command that records one event.
Record(p) ==
    /\ pc[p] = "ready"
    /\ job[p].work \in {"human.note", "file.created"}
    /\ Call(p, job[p], job[p].work, "none", "exit")
    /\ UNCHANGED <<files, environment, lock, ckptLock, reg, left, shipped, released>>

VersionChanged(p, s) ==
    s.last_checkpoint # NoCheckpoint /\ s.last_checkpoint.version # job[p].version

\* rcr status: _refresh_run_dirty looks for a new materializer or changed outputs ...
Refresh(p) ==
    /\ pc[p] = "ready"
    /\ job[p].work = "status"
    /\ Goto(p, IF ~state.dirty /\ (VersionChanged(p, state) \/ changed) THEN "mark" ELSE "exit")
    /\ UNCHANGED <<files, environment, lock, ckptLock, job, reg, left, shipped, released>>

\* ... and sets dirty with update_state: load under the run lock, write.
MarkLoad(p) ==
    /\ pc[p] = "mark"
    /\ lock = NoProc
    /\ lock' = p
    /\ reg' = [reg EXCEPT ![p] = state]
    /\ Goto(p, "marked")
    /\ UNCHANGED <<files, environment, ckptLock, job, left, shipped, released>>

MarkWrite(p) ==
    /\ pc[p] = "marked"
    /\ state' = [reg[p] EXCEPT !.dirty = TRUE]
    /\ lock' = NoProc
    /\ Goto(p, "exit")
    /\ UNCHANGED <<events, crate, environment, ckptLock, job, reg, left, shipped, released>>

-----------------------------------------------------------------------------
(* rcr checkpoint. *)

\* Mutant: checkpoint does not take checkpoint.lock.
StartUnlocked(p) ==
    /\ \/ pc[p] = "ready" /\ job[p].work = "checkpoint"
       \/ pc[p] = "checkpoint"
    /\ ckptLock' = p
    /\ Goto(p, IF job[p].request = "auto" THEN "preview" ELSE "persist")
    /\ UNCHANGED <<files, environment, lock, job, reg, left, shipped, released>>

\* checkpoint takes checkpoint.lock.
StartCheckpoint(p) ==
    /\ \/ pc[p] = "ready" /\ job[p].work = "checkpoint"
       \/ pc[p] = "checkpoint"
    /\ ckptLock = NoProc
    /\ ckptLock' = p
    /\ Goto(p, IF job[p].request = "auto" THEN "preview" ELSE "persist")
    /\ UNCHANGED <<files, environment, lock, job, reg, left, shipped, released>>

\* The lock is still held after 30 s: the command fails.
LockTimeout(p) ==
    /\ \/ pc[p] = "ready" /\ job[p].work = "checkpoint"
       \/ pc[p] = "checkpoint"
    /\ ckptLock \notin {NoProc, p}
    /\ Goto(p, "exit")
    /\ UNCHANGED <<files, environment, lock, ckptLock, job, reg, left, shipped, released>>

\* The five unlocked read-modify-writes of a checkpoint, and validation's
\* context, begin with load_state.
Load(p) ==
    /\ reg' = [reg EXCEPT ![p] = state]
    /\ \/ pc[p] = "persist" /\ Goto(p, "persisted")
       \/ pc[p] = "confidence" /\ Goto(p, "confident")
       \/ pc[p] = "built" /\ Goto(p, "profiled")
       \/ pc[p] = "context" /\ Goto(p, "validate")
       \/ pc[p] = "complete" /\ Goto(p, "completed")
    /\ UNCHANGED <<files, environment, lock, ckptLock, job, left, shipped, released>>

\* _persist_requested_profile, _record_profile_selection (profile_confidence,
\* left out) and _build_and_write_crate write the state they loaded back.
Store(p) ==
    /\ \/ /\ pc[p] = "persisted"
          /\ state' = [reg[p] EXCEPT !.requested = job[p].request]
          /\ Goto(p, "preview")
       \/ /\ pc[p] = "confident"
          /\ state' = reg[p]
          /\ Goto(p, "drift")
       \/ /\ pc[p] = "profiled"
          /\ state' = [reg[p] EXCEPT !.selected = job[p].model]
          /\ Goto(p, "context")
    /\ UNCHANGED <<events, crate, environment, lock, ckptLock, job, reg, left, shipped, released>>

\* The preview model, whose profile goes by state.requested_profile, and the
\* recorded selection, which goes by the profile this checkpoint was asked for
\* and is appended when it differs from the last one recorded.
Preview(p) ==
    /\ pc[p] = "preview"
    /\ LET seen == Through(state.sequence)
           selection == Select(job[p].request, seen)
           j == [job[p] EXCEPT !.preview = Select(state.requested, seen)]
       IN  IF Selections # <<>> /\ Last(Selections).selected_profile = selection
           THEN Goto(p, "drift") /\ job' = [job EXCEPT ![p] = j]
           ELSE Call(p, j, "workflow.profile.selected", selection, "confidence")
    /\ UNCHANGED <<files, environment, lock, ckptLock, reg, left, shipped, released>>

\* A new materializer version or profile since the last checkpoint ...
Drift(p) ==
    /\ pc[p] = "drift"
    /\ reg' = [reg EXCEPT ![p] = state]
    /\ Goto(p, IF /\ state.last_checkpoint # NoCheckpoint
                  /\ VersionChanged(p, state) \/ state.selected # job[p].preview
               THEN "drifted" ELSE "highwater")
    /\ UNCHANGED <<files, environment, lock, ckptLock, job, left, shipped, released>>

\* Mutant: after marking the run, look for drift again.
MarkDriftAgain(p) ==
    /\ pc[p] = "drifted"
    /\ state' = [reg[p] EXCEPT !.dirty = TRUE]
    /\ Goto(p, "drift")
    /\ UNCHANGED <<events, crate, environment, lock, ckptLock, job, reg, left, shipped, released>>

\* ... makes the run dirty.
MarkDrift(p) ==
    /\ pc[p] = "drifted"
    /\ state' = [reg[p] EXCEPT !.dirty = TRUE]
    /\ Goto(p, "highwater")
    /\ UNCHANGED <<events, crate, environment, lock, ckptLock, job, reg, left, shipped, released>>

\* Mutant: off by one.
HighWaterShort(p) ==
    /\ pc[p] = "highwater"
    /\ Call(p, [job[p] EXCEPT !.high_water = state.sequence - 1],
            "crate.checkpoint.started", "none", "integrity")
    /\ UNCHANGED <<files, environment, lock, ckptLock, reg, left, shipped, released>>

\* The high-water mark, and crate.checkpoint.started.
HighWater(p) ==
    /\ pc[p] = "highwater"
    /\ Call(p, [job[p] EXCEPT !.high_water = state.sequence],
            "crate.checkpoint.started", "none", "integrity")
    /\ UNCHANGED <<files, environment, lock, ckptLock, reg, left, shipped, released>>

\* _assert_journal_integrity: a broken journal is not built.
Integrity(p) ==
    /\ pc[p] = "integrity"
    /\ IF Broken(events)
       THEN Call(p, job[p], "crate.checkpoint.failed", "none", "raise")
       ELSE Goto(p, "build") /\ UNCHANGED job
    /\ UNCHANGED <<files, environment, lock, ckptLock, reg, left, shipped, released>>

\* The crate of the events through the high-water mark is written; an exception
\* of write_crate comes before ro-crate-metadata.json, which it writes last.
Build(p) ==
    /\ pc[p] = "build"
    /\ \/ LET model == Select(state.requested, Through(job[p].high_water))
          IN  /\ crate' = [through |-> job[p].high_water, profile |-> model]
              /\ job' = [job EXCEPT ![p].model = model]
              /\ Goto(p, "built")
       \/ /\ BuildRaises
          /\ Call(p, job[p], "crate.checkpoint.failed", "none", "raise")
          /\ UNCHANGED crate
    /\ UNCHANGED <<events, state, environment, lock, ckptLock, reg, left, shipped, released>>

\* The exception leaves checkpoint, and the command.
Raise(p) ==
    /\ pc[p] = "raise"
    /\ ckptLock' = NoProc
    /\ Goto(p, "exit")
    /\ UNCHANGED <<files, environment, lock, job, reg, left, shipped, released>>

\* validate_run, given the state it loaded, reads the journal and concludes.  A
\* checkpoint records completion with the verdict; rcr validate and the export
\* gate record that a validation started.
Validate(p) ==
    /\ pc[p] = "validate"
    /\ ckptLock = p \/ job[p].work # "stop"
    /\ \E verdict \in Verdicts :
         LET status == IF Inconsistent(reg[p], events) THEN "failed" ELSE verdict
             j == [job[p] EXCEPT !.status = status]
         IN  IF ckptLock = p
             THEN Call(p, j, "crate.checkpoint.completed", "none", "complete")
             ELSE Call(p, j, "crate.validation.started", "none", "gated")
    /\ UNCHANGED <<files, environment, lock, ckptLock, reg, left, shipped, released>>

Completed(p) ==
    [reg[p] EXCEPT !.dirty = (job[p].status = "failed"),
                   !.last_checkpoint = [materialized_through |-> job[p].high_water,
                                        event_sequence |-> job[p].appended,
                                        status |-> job[p].status,
                                        version |-> job[p].version]]

AfterCheckpoint(p) ==
    CASE job[p].work = "finalize" -> "stage"
      [] job[p].work = "stop" /\ job[p].mode # "advisory" -> "context"
      [] OTHER -> "exit"

\* Mutant: completion clears dirty whatever the validation said.
CompleteClean(p) ==
    /\ pc[p] = "completed"
    /\ state' = [Completed(p) EXCEPT !.dirty = FALSE]
    /\ ckptLock' = NoProc
    /\ Goto(p, AfterCheckpoint(p))
    /\ UNCHANGED <<events, crate, environment, lock, job, reg, left, shipped, released>>

\* _record_checkpoint_completion after its append, and release of checkpoint.lock.
Complete(p) ==
    /\ pc[p] = "completed"
    /\ state' = Completed(p)
    /\ ckptLock' = NoProc
    /\ Goto(p, AfterCheckpoint(p))
    /\ UNCHANGED <<events, crate, environment, lock, job, reg, left, shipped, released>>

-----------------------------------------------------------------------------
(* rcr validate and rcr finalize (without --sign). *)

\* Mutant: finalize checkpoints only a run that never was.
FinalizeTrusting(p) ==
    /\ pc[p] = "ready"
    /\ job[p].work = "finalize"
    /\ job' = [job EXCEPT ![p].base = Len(events), ![p].request = state.requested]
    /\ Goto(p, IF state.last_checkpoint = NoCheckpoint THEN "checkpoint" ELSE "stage")
    /\ UNCHANGED <<files, environment, lock, ckptLock, reg, left, shipped, released>>

\* finalize checkpoints a dirty run; the checkpoint's return code is ignored.
Finalize(p) ==
    /\ pc[p] = "ready"
    /\ job[p].work = "finalize"
    /\ job' = [job EXCEPT ![p].base = Len(events), ![p].request = state.requested]
    /\ Goto(p, IF state.dirty \/ state.last_checkpoint = NoCheckpoint
               THEN "checkpoint" ELSE "stage")
    /\ UNCHANGED <<files, environment, lock, ckptLock, reg, left, shipped, released>>

\* _stage_crate copies the crate for the gate and the archive.
Stage(p) ==
    /\ pc[p] = "stage"
    /\ job' = [job EXCEPT ![p].staged = crate.through]
    /\ Goto(p, "context")
    /\ UNCHANGED <<files, environment, lock, ckptLock, reg, left, shipped, released>>

ValidateCommand(p) ==
    /\ pc[p] = "ready"
    /\ job[p].work = "validate"
    /\ Goto(p, "context")
    /\ UNCHANGED <<files, environment, lock, ckptLock, job, reg, left, shipped, released>>

\* validate_run's closing event; a failed gate blocks the export.
Gate(p) ==
    /\ pc[p] = "gated"
    /\ IF job[p].status = "failed"
       THEN Call(p, job[p], "crate.validation.failed", "none",
                 IF job[p].work = "finalize" THEN "blocked" ELSE "exit")
       ELSE Call(p, job[p], "crate.validation.completed", "none",
                 IF job[p].work = "finalize" THEN "finalized" ELSE "exit")
    /\ UNCHANGED <<files, environment, lock, ckptLock, reg, left, shipped, released>>

\* run.export.blocked, or run.finalized and crate.finalized.
RecordExport(p) ==
    /\ \/ pc[p] = "blocked" /\ Call(p, job[p], "run.export.blocked", "none", "exit")
       \/ pc[p] = "finalized" /\ Call(p, job[p], "run.finalized", "none", "finalized2")
       \/ pc[p] = "finalized2" /\ Call(p, job[p], "crate.finalized", "none", "ship")
    /\ UNCHANGED <<files, environment, lock, ckptLock, reg, left, shipped, released>>

\* export_zip of the staged copy.
Ship(p) ==
    /\ pc[p] = "ship"
    /\ shipped' = [through |-> job[p].staged, base |-> job[p].base]
    /\ Goto(p, "exit")
    /\ UNCHANGED <<files, environment, lock, ckptLock, job, reg, left, released>>

-----------------------------------------------------------------------------
(* The Stop hook. *)

\* Mutant: only a run without a checkpoint is stale.
NeverCheckpointed(s) == s.last_checkpoint = NoCheckpoint

\* Something was recorded after the last crate.checkpoint.completed.
IsStale(s) == s.last_checkpoint = NoCheckpoint \/ s.sequence > s.last_checkpoint.event_sequence

\* handle_hook loads the state; _on_stop records session.stop.requested ...
StopRequested(p) ==
    /\ pc[p] = "ready"
    /\ job[p].work = "stop"
    /\ Call(p, [job[p] EXCEPT !.base = Len(events), !.request = state.requested, !.stale = IsStale(state)],
            "session.stop.requested", "none", "stale")
    /\ UNCHANGED <<files, environment, lock, ckptLock, reg, left, shipped, released>>

\* ... and checkpoints a run that was stale before; in advisory mode that is all.
StopStale(p) ==
    /\ pc[p] = "stale"
    /\ Goto(p, CASE job[p].stale -> "checkpoint"
                 [] job[p].mode = "advisory" -> "exit"
                 [] OTHER -> "context")
    /\ UNCHANGED <<files, environment, lock, ckptLock, job, reg, left, shipped, released>>

\* validate_run without an event, and _stop_blockers: a failed checkpoint and a broken
\* journal or state block, other errors when critical or in enforced mode.
StopDecision(p) ==
    /\ pc[p] = "validate"
    /\ ckptLock # p
    /\ job[p].work = "stop"
    /\ \E verdict \in Verdicts, critical \in BOOLEAN :
         LET blocked == \/ job[p].status = "failed"
                        \/ Inconsistent(reg[p], events)
                        \/ verdict = "failed" /\ (critical \/ job[p].mode = "enforced")
         IN  released' = IF blocked THEN released ELSE [through |-> crate.through, base |-> job[p].base]
    /\ Goto(p, "exit")
    /\ UNCHANGED <<files, environment, lock, ckptLock, job, reg, left, shipped>>

-----------------------------------------------------------------------------
(* The environment. *)

\* The process is gone, and what it remembered with it.
Forget(p) ==
    /\ Goto(p, "idle")
    /\ job' = [job EXCEPT ![p] = NoJob]
    /\ reg' = [reg EXCEPT ![p] = NoState]

\* The command returns.
Exit(p) ==
    /\ pc[p] = "exit"
    /\ Forget(p)
    /\ UNCHANGED <<files, environment, lock, ckptLock, left, shipped, released>>

\* A kill between appends: the operating system drops the locks.
Crash(p) ==
    /\ pc[p] \in CrashAt
    /\ Forget(p)
    /\ lock' = IF lock = p THEN NoProc ELSE lock
    /\ ckptLock' = IF ckptLock = p THEN NoProc ELSE ckptLock
    /\ UNCHANGED <<files, environment, left, shipped, released>>

Upgrade ==
    /\ upgrades > 0
    /\ upgrades' = upgrades - 1
    /\ version' = version + 1
    /\ UNCHANGED <<files, changed, changes, lock, ckptLock, pc, job, reg, left, shipped, released>>

\* A known output is rewritten; only rcr output records its new hash.
ChangeOutput ==
    /\ changes > 0
    /\ changes' = changes - 1
    /\ changed' = TRUE
    /\ UNCHANGED <<files, version, upgrades, lock, ckptLock, pc, job, reg, left, shipped, released>>

ProcNext(p) ==
    \/ Begin(p) \/ Recover(p) \/ AppendLine(p) \/ BumpLoad(p) \/ BumpWrite(p) \/ Record(p)
    \/ Refresh(p) \/ MarkLoad(p) \/ MarkWrite(p) \/ StartCheckpoint(p) \/ LockTimeout(p)
    \/ Load(p) \/ Store(p) \/ Preview(p) \/ Drift(p) \/ MarkDrift(p) \/ HighWater(p)
    \/ Integrity(p) \/ Build(p) \/ Raise(p) \/ Validate(p) \/ Complete(p) \/ Finalize(p)
    \/ Stage(p) \/ ValidateCommand(p) \/ Gate(p) \/ RecordExport(p) \/ Ship(p) \/ Exit(p)
    \/ StopRequested(p) \/ StopStale(p) \/ StopDecision(p)

AllDone == left = 0 /\ \A p \in Proc : pc[p] = "idle"

\* Every process has issued its commands.
Done == AllDone /\ UNCHANGED vars

Next == Done \/ Upgrade \/ ChangeOutput \/ \E p \in Proc : ProcNext(p) \/ Crash(p)

Spec == Init /\ [][Next]_vars

\* A running process makes progress; FileLock.acquire polls.
FairSpec == Spec /\ \A p \in Proc : WF_vars(ProcNext(p))

-----------------------------------------------------------------------------
(* Properties. *)

\* Nobody is appending or checkpointing.
Quiet == lock = NoProc /\ ckptLock = NoProc

\* A run that is not dirty has every provenance event in its crate on disk: what
\* rcr status, the Stop hook and finalize read the flag for.
FreshIsMaterialized == Quiet /\ ~state.dirty => ~Pending(events, crate.through)

\* SPEC 12.2: dirty is false only after a successful checkpoint and validation
\* whose high-water mark covers every provenance event.
FreshIsValidated ==
    Quiet /\ ~state.dirty => /\ state.last_checkpoint.status = "passed"
                             /\ ~Pending(events, state.last_checkpoint.materialized_through)

\* What finalize ships holds every provenance event recorded before it was asked.
ShippedIsCurrent ==
    \A i \in 1 .. shipped.base : Sets(events[i].event_type) => events[i].sequence <= shipped.through

\* A session that the Stop hook lets go in monitored or enforced mode leaves a crate
\* that holds every provenance event recorded before the hook ran.
StopIsCurrent ==
    \A i \in 1 .. released.base : Sets(events[i].event_type) => events[i].sequence <= released.through

\* last_checkpoint never goes back to an older high-water mark or forgets one.
CheckpointNeverRegresses ==
    [][/\ state'.last_checkpoint.materialized_through >= state.last_checkpoint.materialized_through
       /\ state'.last_checkpoint.event_sequence >= state.last_checkpoint.event_sequence]_state

\* No state the commands produce is itself an error to the validation they run: a
\* checkpoint, a gate or rcr validate fails for what is in the crate only.
SoundBookkeeping == \A p \in Proc : pc[p] = "validate" => ~Inconsistent(reg[p], events)

\* Every command ends, whatever the kills, the exceptions and the other processes.
AllCommandsEnd == <>AllDone
=============================================================================
