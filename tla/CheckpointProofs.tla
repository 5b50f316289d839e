-------------------------- MODULE CheckpointProofs --------------------------
(* One process, killed and started again at will: what a fresh run, a shipped *)
(* crate and a session that was let go hold, for every number of commands.   *)
EXTENDS Checkpoint, SequenceTheorems, TLAPS

-----------------------------------------------------------------------------
(* Types.                                                                   *)

\* What the text fields hold: control points, commands, profiles, modes, verdicts, events.
Words ==
    ControlPoints \cup Commands \cup Profiles \cup Modes \cup Verdicts \cup Requests
        \cup {"auto", "none", "failed", "run.started", "environment.observed", "workflow.output.declared",
              "journal.repair.failed", "journal.repair.started", "journal.repair.completed",
              "workflow.profile.selected", "crate.checkpoint.started", "crate.checkpoint.failed",
              "crate.checkpoint.completed", "crate.validation.started", "crate.validation.failed",
              "crate.validation.completed", "run.export.blocked", "run.finalized", "crate.finalized",
              "session.stop.requested"}

Flags == BOOLEAN

Lines == [sequence : Nat, event_type : Words, selected_profile : Words]

Checkpoints == [materialized_through : Nat, event_sequence : Nat, status : Words, version : Nat]

States == [sequence : Nat, dirty : Flags, requested : Words, selected : Words,
           last_checkpoint : Checkpoints]

Jobs == [work : Words, request : Words, version : Nat, type : Words, profile : Words,
         next : Words, appended : Nat, preview : Words, model : Words, high_water : Nat,
         status : Words, staged : Nat, base : Nat, mode : Words, stale : Flags]

\* Every variable has its type.
Shape ==
    /\ events \in Seq(Lines)
    /\ state \in States
    /\ crate \in [through : Nat, profile : Words]
    /\ lock \in Proc \cup {NoProc}
    /\ ckptLock \in Proc \cup {NoProc}
    /\ version \in Nat
    /\ pc \in [Proc -> ControlPoints]
    /\ job \in [Proc -> Jobs]
    /\ reg \in [Proc -> States]
    /\ shipped \in [through : Nat, base : Nat]
    /\ released \in [through : Nat, base : Nat]

-----------------------------------------------------------------------------
(* The invariant. *)

\* One process: the unlocked writers of a checkpoint undo what another records.
OneProcess == Proc # {} /\ \A p, q \in Proc : p = q

\* No kill between crate.checkpoint.completed and the record of its verdict.
VerdictIsRecorded == CrashAt \cap {"complete", "completed"} = {}

\* The first n events are in a crate of the first k.
Covered(n, k) == \A i \in 1 .. n : Sets(events[i].event_type) => i <= k

\* Where the process is in its command, an append under way left out.
At(p) == IF pc[p] \in {"append", "bump", "bumped"} THEN job[p].next ELSE pc[p]

\* Control points only a checkpoint has, and those it shares with other validations.
Checkpointing ==
    {"persist", "persisted", "preview", "confidence", "confident", "drift", "drifted", "highwater",
     "integrity", "build", "built", "profiled", "complete", "completed", "raise"}

Validating == {"context", "validate"}

AfterAppend == {"exit", "confidence", "integrity", "raise", "complete", "gated", "stale", "blocked",
                "finalized", "finalized2", "ship"}

\* The locks follow the control point, and an append is for what comes after it.
Control(p) ==
    /\ lock = p <=> pc[p] \in Appending
    /\ pc[p] \in {"append", "bump", "bumped"} => job[p].next \in AfterAppend
    /\ At(p) \in Checkpointing => ckptLock = p
    /\ ckptLock = p => At(p) \in Checkpointing \cup Validating
    /\ pc[p] = "stage" => job[p].work = "finalize"
    /\ At(p) = "stale" => job[p].work = "stop"
    /\ pc[p] \in {"append", "bump", "bumped"} =>
         /\ job[p].next = "integrity" => job[p].type = "crate.checkpoint.started"
         /\ job[p].next = "complete" <=> job[p].type = "crate.checkpoint.completed"
    /\ At(p) \in {"complete", "completed"} => job[p].status \in {"passed", "failed"}

\* The journal is numbered by its places, and state.json and what the process loaded
\* of it are up to date but for the event whose append is not over.
Current(p) ==
    /\ \A i \in 1 .. Len(events) : events[i].sequence = i
    /\ IF pc[p] \in {"bump", "bumped"}
       THEN /\ Len(events) = state.sequence + 1
            /\ job[p].appended = Len(events)
            /\ events[Len(events)].event_type = job[p].type
       ELSE Len(events) = state.sequence
    /\ pc[p] \in {"bumped", "marked", "persisted", "confident", "drifted", "profiled", "completed"} =>
         reg[p] = state
    /\ pc[p] \in {"complete", "completed"} => job[p].appended = Len(events)
    /\ job[p].appended <= Len(events)
    /\ job[p].base <= Len(events)

\* An event that makes the run dirty, before state.json says so.
Unmarked(p) == pc[p] \in {"bump", "bumped"} /\ Sets(job[p].type)

\* What is recorded after the high-water mark does not belong in the crate, and the
\* last checkpoint is behind the mark.
HighWaterMark(p) ==
    /\ \/ At(p) \in {"integrity", "build", "built", "profiled", "complete", "completed"}
       \/ At(p) \in Validating /\ ckptLock = p
       => /\ Covered(Len(events), job[p].high_water)
          /\ state.last_checkpoint.materialized_through <= job[p].high_water
          /\ job[p].high_water <= Len(events)
    /\ \/ At(p) \in {"built", "profiled", "complete", "completed"}
       \/ At(p) \in Validating /\ ckptLock = p
       => crate.through = job[p].high_water

\* The crate holds what the flag and the last checkpoint say it holds.
Materialized(p) ==
    /\ state.dirty \/ Covered(Len(events), crate.through) \/ Unmarked(p)
    /\ Covered(state.last_checkpoint.event_sequence, crate.through)
    /\ state.last_checkpoint.event_sequence <= Len(events)
    /\ state.last_checkpoint.materialized_through <= Len(events)

\* From its question for the flag on, finalize and the Stop hook have a crate that
\* holds what was recorded before them; so has the archive.
Answered(p) ==
    /\ pc[p] = "stage" => Covered(job[p].base, crate.through)
    /\ \/ At(p) \in Validating \cup {"gated"} /\ ckptLock # p /\ job[p].work = "finalize"
       \/ At(p) \in {"finalized", "finalized2", "ship"}
       => Covered(job[p].base, job[p].staged)
    /\ At(p) = "stale" /\ ~job[p].stale => Covered(job[p].base, crate.through)
    /\ At(p) \in Validating /\ ckptLock # p /\ job[p].work = "stop" =>
         Covered(job[p].base, crate.through)
    /\ shipped.base <= Len(events) /\ Covered(shipped.base, shipped.through)
    /\ released.base <= Len(events) /\ Covered(released.base, released.through)

Own(p) == Control(p) /\ Current(p) /\ HighWaterMark(p) /\ Materialized(p) /\ Answered(p)

Inv == Shape /\ \A p \in Proc : Own(p)

\* Without a kill before the verdict is recorded, a clean flag means it was good.
Validated(p) ==
    \/ state.dirty
    \/ pc[p] \in {"complete", "completed"} \/ Unmarked(p)
    \/ /\ state.last_checkpoint.status = "passed"
       /\ Covered(Len(events), state.last_checkpoint.materialized_through)

-----------------------------------------------------------------------------
(* Records. *)

\* The words the actions write are words.
LEMMA WordFacts ==
    /\ \A w \in ControlPoints \cup Commands \cup Profiles \cup Modes \cup Verdicts \cup Requests : w \in Words
    /\ \A w \in {"auto", "none", "failed", "run.started", "environment.observed", "workflow.output.declared",
                 "workflow.profile.selected", "crate.checkpoint.started", "crate.checkpoint.failed",
                 "crate.checkpoint.completed", "crate.validation.started", "crate.validation.failed",
                 "crate.validation.completed", "run.export.blocked", "run.finalized", "crate.finalized",
                 "session.stop.requested"} : w \in Words
  BY DEF Words

\* The fields of a job and of a state.
LEMMA Fields ==
    /\ \A j \in Jobs :
         /\ j.base \in Nat /\ j.staged \in Nat /\ j.high_water \in Nat /\ j.appended \in Nat
         /\ j.version \in Nat /\ j.work \in Words /\ j.request \in Words /\ j.type \in Words
         /\ j.profile \in Words /\ j.next \in Words /\ j.status \in Words /\ j.model \in Words
    /\ \A s \in States :
         /\ s.sequence \in Nat /\ s.requested \in Words /\ s.selected \in Words
         /\ s.last_checkpoint \in Checkpoints
         /\ s.last_checkpoint.materialized_through \in Nat
         /\ s.last_checkpoint.event_sequence \in Nat
  BY DEF Jobs, States, Checkpoints

\* A process that is not running remembers nothing.
LEMMA NothingRemembered ==
    /\ NoJob \in Jobs /\ NoJob.base = 0 /\ NoJob.appended = 0
    /\ NoState \in States /\ NoCheckpoint \in Checkpoints
  BY WordFacts DEF NoJob, NoState, NoCheckpoint, Jobs, States, Checkpoints, Flags, Profiles, ControlPoints

\* One field of a job at a time.
LEMMA JobFieldSet ==
    ASSUME NEW j \in Jobs
    PROVE  /\ \A w \in Words : /\ [j EXCEPT !.work = w] \in Jobs /\ [j EXCEPT !.request = w] \in Jobs
                               /\ [j EXCEPT !.type = w] \in Jobs /\ [j EXCEPT !.profile = w] \in Jobs
                               /\ [j EXCEPT !.next = w] \in Jobs /\ [j EXCEPT !.preview = w] \in Jobs
                               /\ [j EXCEPT !.model = w] \in Jobs /\ [j EXCEPT !.status = w] \in Jobs
                               /\ [j EXCEPT !.mode = w] \in Jobs
           /\ \A n \in Nat : /\ [j EXCEPT !.version = n] \in Jobs /\ [j EXCEPT !.appended = n] \in Jobs
                             /\ [j EXCEPT !.high_water = n] \in Jobs /\ [j EXCEPT !.staged = n] \in Jobs
                             /\ [j EXCEPT !.base = n] \in Jobs
           /\ \A b \in Flags : [j EXCEPT !.stale = b] \in Jobs
<1>1. \A w \in Words : [j EXCEPT !.work = w] \in Jobs
  BY DEF Jobs
<1>2. \A w \in Words : [j EXCEPT !.request = w] \in Jobs
  BY DEF Jobs
<1>3. \A w \in Words : [j EXCEPT !.type = w] \in Jobs
  BY DEF Jobs
<1>4. \A w \in Words : [j EXCEPT !.profile = w] \in Jobs
  BY DEF Jobs
<1>5. \A w \in Words : [j EXCEPT !.next = w] \in Jobs
  BY DEF Jobs
<1>6. \A w \in Words : [j EXCEPT !.preview = w] \in Jobs
  BY DEF Jobs
<1>7. \A w \in Words : [j EXCEPT !.model = w] \in Jobs
  BY DEF Jobs
<1>8. \A w \in Words : [j EXCEPT !.status = w] \in Jobs
  BY DEF Jobs
<1>9. \A w \in Words : [j EXCEPT !.mode = w] \in Jobs
  BY DEF Jobs
<1>10. \A n \in Nat : [j EXCEPT !.version = n] \in Jobs
  BY DEF Jobs
<1>11. \A n \in Nat : [j EXCEPT !.appended = n] \in Jobs
  BY DEF Jobs
<1>12. \A n \in Nat : [j EXCEPT !.high_water = n] \in Jobs
  BY DEF Jobs
<1>13. \A n \in Nat : [j EXCEPT !.staged = n] \in Jobs
  BY DEF Jobs
<1>14. \A n \in Nat : [j EXCEPT !.base = n] \in Jobs
  BY DEF Jobs
<1>15. \A b \in Flags : [j EXCEPT !.stale = b] \in Jobs
  BY DEF Jobs
<1> QED
  BY <1>1, <1>2, <1>3, <1>4, <1>5, <1>6, <1>7, <1>8, <1>9, <1>10, <1>11, <1>12, <1>13, <1>14, <1>15

\* An append is asked for with the job at hand.
LEMMA CallEffect ==
    ASSUME Shape, NEW p \in Proc, NEW j \in Jobs, NEW type \in Words, NEW profile \in Words,
           NEW next \in AfterAppend, Call(p, j, type, profile, next)
    PROVE  /\ pc' = [pc EXCEPT ![p] = "append"]
           /\ job' \in [Proc -> Jobs]
           /\ job'[p].type = type /\ job'[p].next = next
           /\ job'[p].work = j.work /\ job'[p].status = j.status /\ job'[p].stale = j.stale
           /\ job'[p].high_water = j.high_water /\ job'[p].appended = j.appended
           /\ job'[p].base = j.base /\ job'[p].staged = j.staged
<1>1. next \in Words
  BY WordFacts DEF AfterAppend, ControlPoints
<1>2. PICK k : k = [j EXCEPT !.type = type, !.profile = profile, !.next = next]
  OBVIOUS
<1>3. job' = [job EXCEPT ![p] = k] /\ pc' = [pc EXCEPT ![p] = "append"]
  BY <1>2 DEF Call, Goto
<1>4. k \in Jobs
  BY <1>1, <1>2, JobFieldSet
<1>5. /\ k.type = type /\ k.next = next /\ k.work = j.work /\ k.status = j.status
      /\ k.high_water = j.high_water /\ k.appended = j.appended /\ k.base = j.base /\ k.staged = j.staged
  BY <1>2 DEF Jobs
<1>6. k.stale = j.stale
  BY <1>2, Zenon DEF Jobs
<1>7. job' \in [Proc -> Jobs] /\ job'[p] = k
  BY <1>3, <1>4 DEF Shape
<1> QED
  BY <1>3, <1>5, <1>6, <1>7

\* Recovery has nothing to do.
LEMMA RecoverFindsNothing ==
    ASSUME Shape, NEW p \in Proc, Own(p), Recover(p)
    PROVE  UNCHANGED <<events, state>>
  BY DEF Shape, Own, Recover, Current, Broken

\* What an append that is asked for leaves as it was, and what it needs of the job for
\* what comes after it.
CallFits(p, j, type, next) ==
    /\ pc[p] \notin {"append", "bump", "bumped"} \cup Appending
    /\ j.appended = job[p].appended /\ j.base <= Len(events)
    /\ next \in Checkpointing <=> ckptLock = p
    /\ next = "integrity" => type = "crate.checkpoint.started"
    /\ next = "complete" <=> type = "crate.checkpoint.completed"
    /\ next = "complete" => j.status \in {"passed", "failed"} /\ crate.through = j.high_water
    /\ next \in {"integrity", "complete"} =>
         /\ Covered(Len(events), j.high_water)
         /\ state.last_checkpoint.materialized_through <= j.high_water
         /\ j.high_water <= Len(events)
    /\ next = "stale" => j.work = "stop" /\ (~j.stale => Covered(j.base, crate.through))
    /\ next \in {"finalized", "finalized2", "ship"} => Covered(j.base, j.staged)
    /\ next = "gated" /\ j.work = "finalize" => Covered(j.base, j.staged)

\* An append that is asked for keeps the invariant.
LEMMA CallKeeps ==
    ASSUME Shape, NEW p \in Proc, Own(p),
           NEW j \in Jobs, NEW type \in Words, NEW profile \in Words, NEW next \in AfterAppend,
           Call(p, j, type, profile, next), CallFits(p, j, type, next),
           UNCHANGED <<files, environment, lock, ckptLock, reg, left, shipped, released>>
    PROVE  Shape' /\ Own(p)'
<1>1. /\ pc' = [pc EXCEPT ![p] = "append"]
      /\ job' \in [Proc -> Jobs]
      /\ job'[p].type = type /\ job'[p].next = next
      /\ job'[p].work = j.work /\ job'[p].status = j.status /\ job'[p].stale = j.stale
      /\ job'[p].high_water = j.high_water /\ job'[p].appended = j.appended
      /\ job'[p].base = j.base /\ job'[p].staged = j.staged
  BY CallEffect
<1>2. Shape'
  BY <1>1 DEF Shape, files, environment, ControlPoints
<1>3. Control(p)' /\ Current(p)' /\ Materialized(p)'
  BY <1>1 DEF CallFits, Own, Shape, Control, Current, Materialized, Covered, Unmarked, At,
              Checkpointing, Validating, AfterAppend, Appending, files, environment
<1>4. HighWaterMark(p)' /\ Answered(p)'
  BY <1>1 DEF CallFits, Own, Shape, Control, Current, Answered, HighWaterMark, Covered, At,
              Checkpointing, Validating, AfterAppend, files, environment
<1> QED
  BY <1>2, <1>3, <1>4 DEF Own

\* Each append a command asks for.
LEMMA CallsKeep ==
    ASSUME Shape, NEW p \in Proc, Own(p),
           \/ Record(p) \/ HighWater(p) \/ Gate(p) \/ RecordExport(p)
           \/ StopRequested(p) \/ Validate(p)
    PROVE  Shape' /\ Own(p)'
<1> USE WordFacts, Fields DEF AfterAppend
<1>1. CASE Record(p)
  <2>1. CallFits(p, job[p], job[p].work, "exit")
    BY <1>1 DEF Record, CallFits, Own, Shape, Control, Current, At, Checkpointing, Validating, Appending
  <2>2. job[p] \in Jobs
    BY DEF Shape
  <2> QED
    BY <1>1, <2>1, <2>2, CallKeeps DEF Record
<1>2. CASE HighWater(p)
  <2>1. PICK j : j = [job[p] EXCEPT !.high_water = state.sequence]
    OBVIOUS
  <2>2. job[p] \in Jobs /\ state.sequence \in Nat
    BY DEF Shape
  <2>3. j \in Jobs
    BY <2>1, <2>2, JobFieldSet
  <2>4. j.high_water = state.sequence /\ j.appended = job[p].appended /\ j.base = job[p].base
    BY <2>1, <2>2 DEF Jobs
  <2>5. CallFits(p, j, "crate.checkpoint.started", "integrity")
    BY <1>2, <2>2, <2>4
    DEF HighWater, Covered, Materialized, CallFits, Own, Shape, Control, Current, At, Checkpointing,
        Validating, Appending
  <2> QED
    BY <1>2, <2>1, <2>3, <2>5, CallKeeps DEF HighWater
<1>3. CASE Gate(p)
  <2>1. job[p] \in Jobs
    BY DEF Shape
  <2>2. CASE job[p].status = "failed"
    <3>1. PICK next \in {"blocked", "exit"} : Call(p, job[p], "crate.validation.failed", "none", next)
      BY <1>3, <2>2 DEF Gate
    <3>2. CallFits(p, job[p], "crate.validation.failed", next)
      BY <1>3 DEF Gate, CallFits, Own, Shape, Control, Current, At, Checkpointing, Validating, Appending
    <3> QED
      BY <1>3, <2>1, <3>1, <3>2, CallKeeps DEF Gate
  <2>3. CASE job[p].status # "failed" /\ job[p].work = "finalize"
    <3>1. Call(p, job[p], "crate.validation.completed", "none", "finalized")
      BY <1>3, <2>3 DEF Gate
    <3>2. CallFits(p, job[p], "crate.validation.completed", "finalized")
      BY <1>3, <2>3
      DEF Gate, Answered, Covered, CallFits, Own, Shape, Control, Current, At, Checkpointing,
          Validating, Appending
    <3> QED
      BY <1>3, <2>1, <3>1, <3>2, CallKeeps DEF Gate
  <2>4. CASE job[p].status # "failed" /\ job[p].work # "finalize"
    <3>1. Call(p, job[p], "crate.validation.completed", "none", "exit")
      BY <1>3, <2>4 DEF Gate
    <3>2. CallFits(p, job[p], "crate.validation.completed", "exit")
      BY <1>3 DEF Gate, CallFits, Own, Shape, Control, Current, At, Checkpointing, Validating, Appending
    <3> QED
      BY <1>3, <2>1, <3>1, <3>2, CallKeeps DEF Gate
  <2> QED
    BY <2>2, <2>3, <2>4
<1>4. CASE RecordExport(p)
  <2>1. PICK type \in {"run.export.blocked", "run.finalized", "crate.finalized"},
             next \in {"exit", "finalized2", "ship"} :
           /\ Call(p, job[p], type, "none", next)
           /\ pc[p] \in {"blocked", "finalized", "finalized2"}
           /\ next # "exit" => pc[p] \in {"finalized", "finalized2"}
    BY <1>4 DEF RecordExport
  <2>2. CallFits(p, job[p], type, next)
    BY <1>4, <2>1
    DEF RecordExport, Answered, Covered, CallFits, Own, Shape, Control, Current, At, Checkpointing,
        Validating, Appending
  <2> QED
    BY <1>4, <2>1, <2>2, CallKeeps DEF RecordExport, Shape
<1>5. CASE StopRequested(p)
  <2>1. PICK j : j = [job[p] EXCEPT !.base = Len(events), !.request = state.requested, !.stale = IsStale(state)]
    OBVIOUS
  <2>2. job[p] \in Jobs /\ Len(events) \in Nat /\ state.requested \in Words /\ IsStale(state) \in Flags
    BY DEF Shape, IsStale, Flags
  <2>3. j \in Jobs
    BY <2>1, <2>2, JobFieldSet
  <2>4. j.base = Len(events) /\ j.appended = job[p].appended /\ j.work = job[p].work
    BY <2>1, <2>2 DEF Jobs
  <2>5. j.stale = IsStale(state)
    BY <2>1, <2>2, Zenon DEF Jobs
  <2>6. ~IsStale(state) => Covered(Len(events), crate.through)
    BY <1>5
    DEF StopRequested, IsStale, Materialized, Covered, CallFits, Own, Shape, Control, Current, At,
        Checkpointing, Validating, Appending
  <2>7. CallFits(p, j, "session.stop.requested", "stale")
    BY <1>5, <2>2, <2>4, <2>5, <2>6
    DEF StopRequested, CallFits, Own, Shape, Control, Current, At, Checkpointing, Validating, Appending
  <2> QED
    BY <1>5, <2>1, <2>3, <2>7, CallKeeps DEF StopRequested
<1>6. CASE Validate(p)
  <2>1. PICK verdict, status, j :
           /\ verdict \in Verdicts
           /\ status = IF Inconsistent(reg[p], events) THEN "failed" ELSE verdict
           /\ j = [job[p] EXCEPT !.status = status]
           /\ IF ckptLock = p
              THEN Call(p, j, "crate.checkpoint.completed", "none", "complete")
              ELSE Call(p, j, "crate.validation.started", "none", "gated")
    BY <1>6 DEF Validate
  <2>2. job[p] \in Jobs /\ status \in {"passed", "failed"} /\ status \in Words
    BY <2>1, ConstantsAssumption DEF Shape
  <2>3. j \in Jobs
    BY <2>1, <2>2, JobFieldSet
  <2>4. /\ j.status = status /\ j.appended = job[p].appended /\ j.base = job[p].base
        /\ j.work = job[p].work /\ j.high_water = job[p].high_water /\ j.staged = job[p].staged
    BY <2>1, <2>2 DEF Jobs
  <2>5. CASE ckptLock = p
    <3>1. CallFits(p, j, "crate.checkpoint.completed", "complete")
      BY <1>6, <2>2, <2>4, <2>5
      DEF Validate, HighWaterMark, Covered, CallFits, Own, Shape, Control, Current, At, Checkpointing,
          Validating, Appending
    <3> QED
      BY <1>6, <2>1, <2>3, <2>5, <3>1, CallKeeps DEF Validate
  <2>6. CASE ckptLock # p
    <3>1. CallFits(p, j, "crate.validation.started", "gated")
      BY <1>6, <2>2, <2>4, <2>6
      DEF Validate, Answered, Covered, CallFits, Own, Shape, Control, Current, At, Checkpointing,
          Validating, Appending
    <3> QED
      BY <1>6, <2>1, <2>3, <2>6, <3>1, CallKeeps DEF Validate
  <2> QED
    BY <2>5, <2>6
<1> QED
  BY <1>1, <1>2, <1>3, <1>4, <1>5, <1>6

\* The steps that move on, take or free a lock, or load the state, and write nothing.
LEMMA MovesKeep ==
    ASSUME Shape, NEW p \in Proc, Own(p),
           \/ Recover(p) \/ BumpLoad(p) \/ Refresh(p) \/ MarkLoad(p) \/ StartCheckpoint(p)
           \/ LockTimeout(p) \/ Load(p) \/ Drift(p) \/ Raise(p) \/ StopStale(p)
           \/ ValidateCommand(p) \/ Ship(p) \/ StopDecision(p)
    PROVE  Shape' /\ Own(p)'
<1>1. Shape'
  <2> USE Fields DEF Shape, Goto, files, environment, ControlPoints
  <2>1. CASE Recover(p)
    BY <2>1, RecoverFindsNothing DEF Recover
  <2>2. CASE BumpLoad(p)
    BY <2>2 DEF BumpLoad
  <2>3. CASE Refresh(p)
    BY <2>3 DEF Refresh
  <2>4. CASE MarkLoad(p)
    BY <2>4 DEF MarkLoad
  <2>5. CASE StartCheckpoint(p)
    BY <2>5 DEF StartCheckpoint
  <2>6. CASE LockTimeout(p)
    BY <2>6 DEF LockTimeout
  <2>7. CASE Load(p)
    BY <2>7 DEF Load
  <2>8. CASE Drift(p)
    BY <2>8 DEF Drift
  <2>9. CASE Raise(p)
    BY <2>9 DEF Raise
  <2>10. CASE StopStale(p)
    BY <2>10 DEF StopStale
  <2>11. CASE ValidateCommand(p)
    BY <2>11 DEF ValidateCommand
  <2>12. CASE Ship(p)
    BY <2>12 DEF Ship
  <2>13. CASE StopDecision(p)
    BY <2>13 DEF StopDecision
  <2> QED
    BY <2>1, <2>2, <2>3, <2>4, <2>5, <2>6, <2>7, <2>8, <2>9, <2>10, <2>11, <2>12, <2>13
<1>2. Own(p)'
  <2> USE ConstantsAssumption DEF Own, Shape, Control, Current, HighWaterMark, Materialized,
          Answered, Covered, Unmarked, At, Checkpointing, Validating, AfterAppend, Appending, Goto,
          files, environment
  <2>1. CASE Recover(p)
    <3>1. /\ pc[p] = "recover" /\ pc' = [pc EXCEPT ![p] = "ready"]
          /\ UNCHANGED <<events, state, crate, lock, ckptLock, job, reg, shipped, released>>
      BY <2>1, RecoverFindsNothing DEF Recover
    <3> QED
      BY <3>1
  <2>2. CASE BumpLoad(p)
    <3>1. /\ pc[p] = "bump" /\ pc'[p] = "bumped" /\ reg'[p] = state
          /\ UNCHANGED <<events, state, crate, lock, ckptLock, job, shipped, released>>
      BY <2>2 DEF BumpLoad
    <3>2. Control(p)' /\ Current(p)'
      BY <3>1
    <3>3. HighWaterMark(p)' /\ Materialized(p)' /\ Answered(p)'
      BY <3>1
    <3> QED
      BY <3>2, <3>3
  <2>3. CASE Refresh(p)
    BY <2>3 DEF Refresh
  <2>4. CASE MarkLoad(p)
    BY <2>4 DEF MarkLoad
  <2>5. CASE StartCheckpoint(p)
    BY <2>5 DEF StartCheckpoint
  <2>6. CASE LockTimeout(p)
    BY <2>6 DEF LockTimeout
  <2>7. CASE Load(p)
    BY <2>7 DEF Load
  <2>8. CASE Drift(p)
    BY <2>8 DEF Drift
  <2>9. CASE Raise(p)
    BY <2>9 DEF Raise
  <2>10. CASE StopStale(p)
    BY <2>10 DEF StopStale
  <2>11. CASE ValidateCommand(p)
    BY <2>11 DEF ValidateCommand
  <2>12. CASE Ship(p)
    BY <2>12 DEF Ship
  <2>13. CASE StopDecision(p)
    <3>1. /\ released' = released \/ released' = [through |-> crate.through, base |-> job[p].base]
          /\ pc[p] = "validate" /\ ckptLock # p /\ job[p].work = "stop"
          /\ pc' = [pc EXCEPT ![p] = "exit"]
          /\ UNCHANGED <<events, state, crate, lock, ckptLock, job, reg, shipped>>
      BY <2>13 DEF StopDecision
    <3> QED
      BY <3>1
  <2> QED
    BY <2>1, <2>2, <2>3, <2>4, <2>5, <2>6, <2>7, <2>8, <2>9, <2>10, <2>11, <2>12, <2>13
<1> QED
  BY <1>1, <1>2

\* The line of an append is the next of the journal, and the job is otherwise the same.
LEMMA AppendLineKeeps ==
    ASSUME Shape, NEW p \in Proc, Own(p), AppendLine(p)
    PROVE  Shape' /\ Own(p)'
<1> DEFINE line == Event(state.sequence + 1, job[p].type, job[p].profile)
<1>1. /\ events' = Append(events, line) /\ events \in Seq(Lines) /\ job[p] \in Jobs /\ state.sequence \in Nat
      /\ line \in Lines /\ line.sequence = Len(events) + 1 /\ line.event_type = job[p].type
      /\ state.sequence = Len(events)
  <2>1. /\ events' = Append(events, line) /\ events \in Seq(Lines) /\ job[p] \in Jobs
        /\ state.sequence \in Nat /\ state.sequence = Len(events)
    BY Fields DEF AppendLine, Shape, Own, Current
  <2>2. job[p].type \in Words /\ job[p].profile \in Words
    BY <2>1, Fields
  <2> QED
    BY <2>1, <2>2 DEF Event, Lines
<1> HIDE DEF line
<1>2. /\ events' \in Seq(Lines) /\ Len(events') = Len(events) + 1
      /\ \A i \in 1 .. Len(events) : events'[i] = events[i]
      /\ events'[Len(events')] = line
  BY <1>1, AppendProperties
<1>3. PICK j : j = [job[p] EXCEPT !.appended = Len(events')]
  OBVIOUS
<1>4. job' = [job EXCEPT ![p] = j]
  BY <1>1, <1>2, <1>3 DEF AppendLine
<1>5. j \in Jobs
  <2>1. Len(events') \in Nat
    BY <1>2
  <2> QED
    BY <1>1, <1>3, <2>1, JobFieldSet
<1>6. /\ j.type = job[p].type /\ j.next = job[p].next /\ j.work = job[p].work /\ j.status = job[p].status
      /\ j.high_water = job[p].high_water /\ j.appended = Len(events') /\ j.base = job[p].base
      /\ j.staged = job[p].staged
  BY <1>1, <1>3 DEF Jobs
<1>7. j.stale = job[p].stale
  BY <1>1, <1>3, Zenon DEF Jobs
<1>8. job' \in [Proc -> Jobs] /\ job'[p] = j
  BY <1>4, <1>5 DEF Shape
<1>9. Shape'
  BY <1>2, <1>8 DEF AppendLine, Shape, Goto, environment, ControlPoints
<1>10. Control(p)'
  BY <1>6, <1>8 DEF AppendLine, Own, Shape, Control, At, Appending, Goto
<1>11. Current(p)'
  <2>1. pc'[p] = "bump" /\ state' = state
    BY DEF AppendLine, Goto, Shape
  <2>2. \A i \in 1 .. Len(events') : events'[i].sequence = i
    <3>1. \A i \in 1 .. Len(events) : events[i].sequence = i
      BY DEF Own, Current
    <3>2. \A i \in 1 .. Len(events') : i \in 1 .. Len(events) \/ i = Len(events')
      BY <1>1, <1>2
    <3> QED
      BY <1>1, <1>2, <3>1, <3>2
  <2>3. /\ Len(events') = state'.sequence + 1 /\ job'[p].appended = Len(events')
        /\ events'[Len(events')].event_type = job'[p].type
    BY <1>1, <1>2, <1>6, <1>8, <2>1
  <2>4. job'[p].base <= Len(events') /\ job'[p].appended <= Len(events')
    <3>1. job[p].base \in Nat /\ job[p].base <= Len(events) /\ Len(events) \in Nat
      BY <1>1, Fields DEF Own, Current
    <3> QED
      BY <1>2, <1>6, <1>8, <3>1
  <2> QED
    BY <2>1, <2>2, <2>3, <2>4 DEF Current
<1>12. /\ UNCHANGED <<crate, state, ckptLock, shipped, released>> /\ pc[p] = "append" /\ pc'[p] = "bump"
       /\ crate.through \in Nat /\ Len(events) \in Nat
       /\ \A i \in 1 .. Len(events) : Sets(events'[i].event_type) <=> Sets(events[i].event_type)
       /\ \A i \in 1 .. Len(events') : i \in 1 .. Len(events) \/ i = Len(events')
  BY <1>1, <1>2 DEF AppendLine, Shape, Goto
<1>13. Materialized(p)'
  <2>1. (state.dirty \/ Covered(Len(events), crate.through) \/ Unmarked(p))'
    <3>1. CASE Sets(line.event_type)
      BY <1>1, <1>6, <1>8, <1>12, <3>1 DEF Unmarked
    <3>2. CASE ~Sets(line.event_type)
      BY <1>2, <1>12, <3>2 DEF Own, Materialized, Unmarked, Covered
    <3> QED
      BY <3>1, <3>2
  <2>2. /\ state.last_checkpoint.event_sequence \in Nat /\ state.last_checkpoint.event_sequence <= Len(events)
        /\ state.last_checkpoint.materialized_through \in Nat
        /\ state.last_checkpoint.materialized_through <= Len(events)
    BY Fields DEF Own, Shape, Materialized
  <2>3. \A i \in 1 .. state.last_checkpoint.event_sequence : i \in 1 .. Len(events)
    BY <1>12, <2>2
  <2>4. Covered(state.last_checkpoint.event_sequence, crate.through)'
    BY <1>12, <2>3 DEF Own, Materialized, Covered
  <2> QED
    BY <1>2, <1>12, <2>1, <2>2, <2>4 DEF Materialized
<1>14. HighWaterMark(p)'
  <2>1. job[p].next \in {"integrity", "complete"} => ~Sets(line.event_type)
    BY <1>1, <1>12 DEF Own, Control, Sets, Preserving
  <2>2. job[p].next \in {"integrity", "complete"} => Covered(Len(events), job[p].high_water)
    BY <1>12 DEF Own, HighWaterMark, At
  <2>3. (job[p].next \in {"integrity", "complete"} => Covered(Len(events), job[p].high_water))'
    BY <1>2, <1>6, <1>8, <1>12, <2>1, <2>2 DEF Covered
  <2>4. At(p)' = At(p) /\ At(p) = job[p].next /\ job[p].next \in AfterAppend
    BY <1>6, <1>8, <1>12 DEF At, Own, Control
  <2>5. job[p].high_water \in Nat
    BY <1>1, Fields
  <2> QED
    BY <1>2, <1>6, <1>8, <1>12, <2>3, <2>4, <2>5 DEF Own, HighWaterMark, Validating, AfterAppend
<1>15. Answered(p)'
  <2>1. At(p)' = At(p) /\ job'[p].work = job[p].work /\ (job'[p].stale <=> job[p].stale)
    BY <1>6, <1>7, <1>8, <1>12 DEF At
  <2>2. /\ \A i \in 1 .. job[p].base : i \in 1 .. Len(events)
        /\ \A i \in 1 .. shipped.base : i \in 1 .. Len(events)
        /\ \A i \in 1 .. released.base : i \in 1 .. Len(events)
    BY <1>1, <1>12, Fields DEF Own, Shape, Current, Answered
  <2>3. /\ \A k : (Covered(job[p].base, k)' <=> Covered(job[p].base, k))
        /\ shipped.base <= Len(events') /\ Covered(shipped.base, shipped.through)'
        /\ released.base <= Len(events') /\ Covered(released.base, released.through)'
    BY <1>2, <1>6, <1>8, <1>12, <2>2 DEF Own, Answered, Covered, Shape
  <2> QED
    BY <1>6, <1>8, <1>12, <2>1, <2>3 DEF Own, Answered, Validating
<1> QED
  BY <1>9, <1>10, <1>11, <1>13, <1>14, <1>15 DEF Own

\* What the bump writes.
LEMMA BumpWriteEffect ==
    ASSUME Shape, NEW p \in Proc, Own(p), BumpWrite(p)
    PROVE  /\ pc[p] = "bumped" /\ state' \in States
           /\ state'.sequence = job[p].appended /\ state'.last_checkpoint = state.last_checkpoint
           /\ state'.dirty = DirtyAfter(job[p].type, state.dirty)
<1> DEFINE d == DirtyAfter(job[p].type, state.dirty)
<1>1. /\ state' = [state EXCEPT !.sequence = job[p].appended, !.dirty = d]
      /\ state \in States /\ job[p] \in Jobs /\ pc[p] = "bumped" /\ d \in Flags
  BY DEF BumpWrite, Own, Shape, Current, DirtyAfter, Flags
<1> HIDE DEF d
<1>2. state' \in States
  <2>1. \A s \in States : [s EXCEPT !.sequence = job[p].appended] \in States
    BY <1>1, Fields DEF States
  <2>2. \A s \in States : [s EXCEPT !.dirty = d] \in States
    BY <1>1 DEF States
  <2> QED
    BY <1>1, <2>1, <2>2
<1>3. state'.sequence = job[p].appended /\ state'.last_checkpoint = state.last_checkpoint
  BY <1>1 DEF States
<1>4. state'.dirty = d
  BY <1>1, Zenon DEF States
<1> QED
  BY <1>1, <1>2, <1>3, <1>4 DEF d

\* The bump makes state.json the journal's tip again; crate.checkpoint.completed clears
\* the flag when the crate is whole.
LEMMA BumpWriteKeeps ==
    ASSUME Shape, NEW p \in Proc, Own(p), BumpWrite(p)
    PROVE  Shape' /\ Own(p)'
<1>1. Shape'
  BY BumpWriteEffect DEF BumpWrite, Shape, Own, Control, AfterAppend, Goto, environment, ControlPoints
<1>2. /\ pc' = [pc EXCEPT ![p] = job[p].next] /\ job[p].next \in AfterAppend
      /\ UNCHANGED <<events, crate, ckptLock, job, reg>> /\ lock' # p
  BY BumpWriteEffect, ConstantsAssumption DEF BumpWrite, Own, Control, Goto
<1>3. Control(p)'
  BY <1>2, BumpWriteEffect DEF Own, Shape, Control, At, AfterAppend, Appending
<1>4. Current(p)'
  BY <1>2, BumpWriteEffect DEF Own, Shape, Current, AfterAppend
<1>5. Materialized(p)'
  <2>1. DirtyAfter(job[p].type, state.dirty) \/ Covered(Len(events), crate.through)
    BY DEF DirtyAfter, Own, Shape, BumpWrite, Materialized, Unmarked, HighWaterMark, Control, At
  <2> QED
    BY <2>1, BumpWriteEffect, Fields DEF BumpWrite, Own, Shape, Materialized, Covered, Goto
<1>6. HighWaterMark(p)' /\ Answered(p)'
  BY BumpWriteEffect
  DEF BumpWrite, Own, Shape, Control, HighWaterMark, Answered, Covered, At, Validating, AfterAppend, Goto
<1> QED
  BY <1>1, <1>3, <1>4, <1>5, <1>6 DEF Own

\* What the writers that make the run dirty, or store a profile, change.
LEMMA WritersEffect ==
    ASSUME Shape, NEW p \in Proc, Own(p), MarkWrite(p) \/ MarkDrift(p) \/ Store(p)
    PROVE  /\ state' \in States
           /\ state'.sequence = state.sequence /\ state'.last_checkpoint = state.last_checkpoint
           /\ state'.dirty \/ (state'.dirty <=> state.dirty)
<1>1. state \in States /\ job[p] \in Jobs /\ reg[p] = state /\ TRUE \in Flags
  BY DEF MarkWrite, MarkDrift, Store, Own, Shape, Current, Flags
<1>2. CASE state' = [state EXCEPT !.dirty = TRUE]
  BY <1>1, <1>2 DEF States
<1>3. CASE \E w \in Words : state' = [state EXCEPT !.requested = w]
  BY <1>1, <1>3 DEF States
<1>4. CASE \E w \in Words : state' = [state EXCEPT !.selected = w]
  BY <1>1, <1>4 DEF States
<1>5. CASE state' = state
  BY <1>1, <1>5
<1> QED
  BY <1>1, <1>2, <1>3, <1>4, <1>5, Fields DEF MarkWrite, MarkDrift, Store

\* They keep the invariant.
LEMMA WritersKeep ==
    ASSUME Shape, NEW p \in Proc, Own(p), MarkWrite(p) \/ MarkDrift(p) \/ Store(p)
    PROVE  Shape' /\ Own(p)'
<1>1. Shape'
  BY WritersEffect DEF MarkWrite, MarkDrift, Store, Shape, Goto, environment, ControlPoints
<1>2. Control(p)' /\ Current(p)'
  BY WritersEffect, ConstantsAssumption
  DEF MarkWrite, MarkDrift, Store, Own, Shape, Control, Current, At, Checkpointing,
      Validating, Appending, Goto, environment
<1>3. Materialized(p)' /\ HighWaterMark(p)' /\ Answered(p)'
  BY WritersEffect
  DEF MarkWrite, MarkDrift, Store, Own, Shape, Control, Materialized, Unmarked, HighWaterMark,
      Answered, Covered, At, Checkpointing, Validating, Goto
<1> QED
  BY <1>1, <1>2, <1>3 DEF Own

\* The profile is previewed, and the selection recorded when it changed.
LEMMA PreviewKeeps ==
    ASSUME Shape, NEW p \in Proc, Own(p), Preview(p)
    PROVE  Shape' /\ Own(p)'
<1>1. PICK seen, selection, j :
         /\ selection = Select(job[p].request, seen)
         /\ j = [job[p] EXCEPT !.preview = Select(state.requested, seen)]
         /\ \/ Goto(p, "drift") /\ job' = [job EXCEPT ![p] = j]
            \/ Call(p, j, "workflow.profile.selected", selection, "confidence")
  BY DEF Preview
<1>2. job[p] \in Jobs /\ state \in States
  BY DEF Shape
<1>3. \A w \in Words : Select(w, seen) \in Words
  BY WordFacts DEF Select, Profiles
<1>4. selection \in Words /\ j \in Jobs
  BY <1>1, <1>2, <1>3, Fields, JobFieldSet
<1>5. /\ j.work = job[p].work /\ j.status = job[p].status /\ j.appended = job[p].appended
      /\ j.high_water = job[p].high_water /\ j.base = job[p].base /\ j.staged = job[p].staged
  BY <1>1, <1>2 DEF Jobs
<1>6. CASE Goto(p, "drift") /\ job' = [job EXCEPT ![p] = j]
  <2>1. job' \in [Proc -> Jobs] /\ job'[p] = j /\ pc' = [pc EXCEPT ![p] = "drift"]
    BY <1>4, <1>6 DEF Shape, Goto
  <2>2. Shape'
    BY <2>1 DEF Preview, Shape, files, environment, ControlPoints
  <2>3. Own(p)'
    BY <1>5, <2>1 DEF Preview, Own, Shape, Control, Current, HighWaterMark, Materialized, Answered,
              Covered, Unmarked, At, Checkpointing, Validating, Appending, files, environment
  <2> QED
    BY <2>2, <2>3
<1>7. CASE Call(p, j, "workflow.profile.selected", selection, "confidence")
  <2>1. CallFits(p, j, "workflow.profile.selected", "confidence")
    BY <1>5 DEF Preview, CallFits, Own, Shape, Control, Current, At, Checkpointing, Validating, Appending
  <2> QED
    BY <1>4, <1>7, <2>1, CallKeeps, WordFacts DEF Preview, AfterAppend
<1> QED
  BY <1>1, <1>6, <1>7

\* A build, or its failure.
LEMMA BuildKeeps ==
    ASSUME Shape, NEW p \in Proc, Own(p), Integrity(p) \/ Build(p)
    PROVE  Shape' /\ Own(p)'
<1>1. job[p] \in Jobs /\ ~Broken(events) /\ pc[p] \in {"integrity", "build"}
  BY DEF Integrity, Build, Own, Shape, Current, Broken
<1>2. CASE Integrity(p)
  <2>1. Shape'
    BY <1>1, <1>2 DEF Integrity, Shape, Goto, files, environment, ControlPoints
  <2>2. Own(p)'
    BY <1>1, <1>2 DEF Integrity, Own, Shape, Control, Current, HighWaterMark, Materialized, Answered,
              Covered, Unmarked, At, Checkpointing, Validating, AfterAppend, Appending, Goto, files, environment
  <2> QED
    BY <2>1, <2>2
<1>3. CASE Build(p) /\ BuildRaises /\ Call(p, job[p], "crate.checkpoint.failed", "none", "raise") /\ UNCHANGED crate
  <2>1. CallFits(p, job[p], "crate.checkpoint.failed", "raise")
    BY <1>1, <1>3
    DEF Build, CallFits, Own, Shape, Control, Current, At, Checkpointing, Validating, Appending
  <2> QED
    BY <1>1, <1>3, <2>1, CallKeeps, WordFacts DEF Build, AfterAppend, files
<1>4. ASSUME Build(p), NEW model, model = Select(state.requested, Through(job[p].high_water)),
             crate' = [through |-> job[p].high_water, profile |-> model],
             job' = [job EXCEPT ![p].model = model], Goto(p, "built")
      PROVE  Shape' /\ Own(p)'
  <2>1. PICK j : j = [job[p] EXCEPT !.model = model]
    OBVIOUS
  <2>2. model \in Words
    BY <1>4, WordFacts, Fields DEF Select, Profiles, Shape
  <2>3. j \in Jobs
    BY <1>1, <2>1, <2>2, JobFieldSet
  <2>4. /\ j.type = job[p].type /\ j.next = job[p].next /\ j.work = job[p].work /\ j.status = job[p].status
        /\ j.high_water = job[p].high_water /\ j.appended = job[p].appended /\ j.base = job[p].base
        /\ j.staged = job[p].staged
    BY <1>1, <2>1 DEF Jobs
  <2>5. job' \in [Proc -> Jobs] /\ job'[p] = j
    BY <1>4, <2>1, <2>3 DEF Shape
  <2>6. /\ crate' \in [through : Nat, profile : Words] /\ crate'.through = job[p].high_water
        /\ pc' = [pc EXCEPT ![p] = "built"]
    BY <1>1, <1>4, <2>2, Fields DEF Goto
  <2>7. Shape'
    BY <1>4, <2>5, <2>6 DEF Build, Shape, environment, ControlPoints
  <2>8. Control(p)' /\ Current(p)' /\ HighWaterMark(p)' /\ Answered(p)'
    BY <1>4, <2>4, <2>5, <2>6
    DEF Build, Own, Shape, Control, Current, HighWaterMark, Materialized, Answered,
              Covered, Unmarked, At, Checkpointing, Validating, AfterAppend, Appending, Goto, files, environment
  <2>9. Materialized(p)'
    BY <1>4, <2>4, <2>5, <2>6, Fields
    DEF Build, Own, Shape, Control, Current, HighWaterMark, Materialized, Answered,
              Covered, Unmarked, At, Checkpointing, Validating, AfterAppend, Appending, Goto, files, environment
  <2> QED
    BY <2>7, <2>8, <2>9 DEF Own
<1> QED
  BY <1>2, <1>3, <1>4 DEF Build

\* The verdict and the high-water mark are recorded ...
LEMMA CompleteEffect ==
    ASSUME Shape, NEW p \in Proc, Own(p), Complete(p)
    PROVE  /\ state' \in States /\ state'.sequence = state.sequence
           /\ state'.dirty = (job[p].status = "failed")
           /\ state'.last_checkpoint.materialized_through = job[p].high_water
           /\ state'.last_checkpoint.event_sequence = job[p].appended
           /\ state'.last_checkpoint.status = job[p].status
<1> DEFINE last == [materialized_through |-> job[p].high_water, event_sequence |-> job[p].appended,
                    status |-> job[p].status, version |-> job[p].version]
           d == job[p].status = "failed"
<1>1. /\ state' = [state EXCEPT !.dirty = d, !.last_checkpoint = last]
      /\ state \in States /\ job[p] \in Jobs /\ d \in Flags
  BY DEF Complete, Completed, Own, Shape, Current, Flags
<1>2. last \in Checkpoints
  BY <1>1, Fields DEF Checkpoints
<1>3. /\ last.materialized_through = job[p].high_water /\ last.event_sequence = job[p].appended
      /\ last.status = job[p].status
  OBVIOUS
<1> HIDE DEF last, d
<1>4. state' \in States
  <2>1. \A s \in States : [s EXCEPT !.dirty = d] \in States
    BY <1>1 DEF States
  <2>2. \A s \in States : [s EXCEPT !.last_checkpoint = last] \in States
    BY <1>2 DEF States
  <2> QED
    BY <1>1, <2>1, <2>2
<1>5. state'.sequence = state.sequence /\ state'.last_checkpoint = last
  BY <1>1, <1>2 DEF States
<1>6. state'.dirty = d
  BY <1>1, Zenon DEF States
<1> QED
  BY <1>3, <1>4, <1>5, <1>6 DEF d

\* ... and checkpoint.lock is released.
LEMMA CompleteKeeps ==
    ASSUME Shape, NEW p \in Proc, Own(p), Complete(p)
    PROVE  Shape' /\ Own(p)'
<1>1. PICK next \in {"stage", "context", "exit"} :
         /\ pc' = [pc EXCEPT ![p] = next]
         /\ next = "stage" => job[p].work = "finalize"
         /\ next = "context" => job[p].work = "stop"
  BY DEF Complete, AfterCheckpoint, Goto
<1>2. Shape'
  BY CompleteEffect, <1>1 DEF Complete, Shape, environment, ControlPoints
<1>3. Control(p)' /\ Current(p)' /\ HighWaterMark(p)'
  <2>1. /\ pc'[p] = next /\ ckptLock' # p /\ pc[p] = "completed"
        /\ UNCHANGED <<events, crate, lock, job, reg>>
    BY <1>1, ConstantsAssumption DEF Complete, Shape
  <2>2. Control(p)'
    BY <1>1, <2>1 DEF Own, Control, At, Checkpointing, Appending
  <2>3. Current(p)' /\ HighWaterMark(p)'
    BY <1>1, <2>1, CompleteEffect DEF Own, Current, HighWaterMark, At
  <2> QED
    BY <2>2, <2>3
<1>4. /\ Covered(Len(events), crate.through) /\ job[p].appended = Len(events)
      /\ job[p].high_water <= Len(events) /\ job[p].base <= Len(events)
      /\ job[p].base \in Nat /\ Len(events) \in Nat
  BY Fields DEF Complete, Own, Shape, Current, HighWaterMark, At
<1>5. Covered(job[p].base, crate.through)
  BY <1>4 DEF Covered
<1>6. Materialized(p)'
  BY CompleteEffect, <1>4 DEF Complete, Materialized, Covered
<1>7. Answered(p)'
  BY <1>1, <1>5, ConstantsAssumption DEF Complete, Own, Shape, Answered, Covered, At, Validating
<1> QED
  BY <1>2, <1>3, <1>6, <1>7 DEF Own

\* finalize asks for the flag, and stages what it then has.
LEMMA FinalizeKeeps ==
    ASSUME Shape, NEW p \in Proc, Own(p), Finalize(p) \/ Stage(p)
    PROVE  Shape' /\ Own(p)'
<1>1. job[p] \in Jobs /\ Len(events) \in Nat /\ state.requested \in Words /\ crate.through \in Nat
  BY Fields DEF Shape
<1>2. CASE Finalize(p)
  <2>1. PICK j : j = [job[p] EXCEPT !.base = Len(events), !.request = state.requested]
    OBVIOUS
  <2>2. j \in Jobs
    BY <1>1, <2>1, JobFieldSet
  <2>3. /\ j.base = Len(events) /\ j.work = job[p].work /\ j.appended = job[p].appended
    BY <1>1, <2>1 DEF Jobs
  <2>4. PICK next \in {"checkpoint", "stage"} :
           pc' = [pc EXCEPT ![p] = next] /\ (next = "stage" => ~state.dirty)
    BY <1>2 DEF Finalize, Goto
  <2>5. job' = [job EXCEPT ![p] = j]
    BY <1>2, <2>1 DEF Finalize
  <2>6. job' \in [Proc -> Jobs] /\ job'[p] = j
    BY <2>2, <2>5 DEF Shape
  <2>7. Shape'
    BY <1>2, <2>4, <2>6 DEF Finalize, Shape, files, environment, ControlPoints
  <2>8. Own(p)'
    BY <1>1, <1>2, <2>3, <2>4, <2>6
    DEF Finalize, Own, Shape, Control, Current, HighWaterMark, Materialized, Answered,
              Covered, Unmarked, At, Checkpointing, Validating, AfterAppend, Appending, Goto, files, environment
  <2> QED
    BY <2>7, <2>8
<1>3. CASE Stage(p)
  <2>1. PICK j : j = [job[p] EXCEPT !.staged = crate.through]
    OBVIOUS
  <2>2. j \in Jobs
    BY <1>1, <2>1, JobFieldSet
  <2>3. /\ j.base = job[p].base /\ j.work = job[p].work /\ j.appended = job[p].appended
        /\ j.staged = crate.through
    BY <1>1, <2>1 DEF Jobs
  <2>4. pc' = [pc EXCEPT ![p] = "context"] /\ job' = [job EXCEPT ![p] = j]
    BY <1>3, <2>1 DEF Stage, Goto
  <2>5. job' \in [Proc -> Jobs] /\ job'[p] = j
    BY <2>2, <2>4 DEF Shape
  <2>6. Shape'
    BY <1>3, <2>4, <2>5 DEF Stage, Shape, files, environment, ControlPoints
  <2>7. Own(p)'
    BY <1>1, <1>3, <2>3, <2>4, <2>5
    DEF Stage, Own, Shape, Control, Current, HighWaterMark, Materialized, Answered,
              Covered, Unmarked, At, Checkpointing, Validating, AfterAppend, Appending, Goto, files, environment
  <2> QED
    BY <2>6, <2>7
<1> QED
  BY <1>2, <1>3

\* A command begins, returns or is killed.
LEMMA ComingsAndGoings ==
    ASSUME Shape, NEW p \in Proc, Begin(p) \/ Exit(p) \/ Crash(p)
    PROVE  /\ Shape'
           /\ pc'[p] \in {"idle", "recover"}
           /\ job'[p].base = 0 /\ job'[p].appended = 0
<1>1. /\ job' \in [Proc -> Jobs] /\ reg' \in [Proc -> States]
      /\ job'[p].base = 0 /\ job'[p].appended = 0
  <2>1. CASE Begin(p)
    <3>1. PICK work \in Workload, request \in Requests, mode \in Modes :
             job' = [job EXCEPT ![p] = [NoJob EXCEPT !.work = work, !.request = request, !.version = version,
                                                     !.mode = IF work = "stop" THEN mode ELSE "none"]]
      BY <2>1 DEF Begin
    <3>2. /\ work \in Words /\ request \in Words /\ mode \in Words /\ "none" \in Words
          /\ version \in Nat
      BY WordFacts, ConstantsAssumption DEF Shape
    <3>3. PICK j : j = [NoJob EXCEPT !.work = work, !.request = request, !.version = version,
                                     !.mode = IF work = "stop" THEN mode ELSE "none"]
      OBVIOUS
    <3>4. j \in Jobs
      BY <3>2, <3>3, NothingRemembered, JobFieldSet
    <3>5. j.base = 0 /\ j.appended = 0
      BY <3>3 DEF NoJob
    <3> QED
      BY <2>1, <3>1, <3>4, <3>5, <3>3 DEF Begin, Shape
  <2>2. CASE Exit(p) \/ Crash(p)
    BY <2>2, NothingRemembered DEF Exit, Crash, Forget, Shape
  <2> QED
    BY <2>1, <2>2
<1>2. PICK next \in {"idle", "recover"} : pc' = [pc EXCEPT ![p] = next]
  BY DEF Begin, Exit, Crash, Forget, Goto
<1>3. Shape'
  BY <1>1, <1>2 DEF Begin, Exit, Crash, Shape, files, environment, ControlPoints
<1> QED
  BY <1>1, <1>2, <1>3 DEF Shape

\* It holds nothing then.
LEMMA ComingsAndGoingsKeep ==
    ASSUME Shape, NEW p \in Proc, Own(p), Begin(p) \/ Exit(p) \/ Crash(p)
    PROVE  Shape' /\ Own(p)'
<1>1. /\ job'[p].base = 0 /\ job'[p].appended = 0 /\ Shape'
  BY ComingsAndGoings
<1>2. PICK next \in {"idle", "recover"} : pc'[p] = next
  BY ComingsAndGoings
<1>3. Shape'
  BY <1>1
<1>4. pc'[p] = next /\ At(p)' = next
  BY <1>2 DEF At
<1>5. /\ UNCHANGED <<events, state, crate, shipped, released>>
      /\ pc[p] \notin {"bump", "bumped"} /\ lock' # p /\ ckptLock' # p
  BY ConstantsAssumption DEF Begin, Exit, Crash, Own, Shape, Control, At, Checkpointing, Validating,
     Appending, files
<1>6. Control(p)' /\ Current(p)'
  BY <1>1, <1>4, <1>5 DEF Own, Control, Current, Checkpointing, Validating, Appending, Shape
<1>7. HighWaterMark(p)' /\ Materialized(p)' /\ Answered(p)'
  BY <1>4, <1>5 DEF Own, HighWaterMark, Materialized, Unmarked, Answered, Covered, Validating
<1> QED
  BY <1>3, <1>6, <1>7 DEF Own

-----------------------------------------------------------------------------
(* The theorems. *)

\* What a process holds is its own: a step that leaves it and the files alone keeps it.
LEMMA Undisturbed ==
    ASSUME NEW p \in Proc, Own(p), UNCHANGED <<files, shipped, released>>,
           pc'[p] = pc[p], job'[p] = job[p], reg'[p] = reg[p],
           lock' = p <=> lock = p, ckptLock' = p <=> ckptLock = p
    PROVE  Own(p)'
<1>1. At(p)' = At(p) /\ (Unmarked(p)' <=> Unmarked(p))
  BY DEF At, Unmarked
<1>2. UNCHANGED <<events, state, crate, shipped, released>>
  BY DEF files
<1>3. Control(p)' /\ Current(p)'
  BY <1>1, <1>2 DEF Own, Control, Current
<1>4. HighWaterMark(p)' /\ Materialized(p)' /\ Answered(p)'
  BY <1>1, <1>2 DEF Own, HighWaterMark, Materialized, Answered, Covered
<1> QED
  BY <1>3, <1>4 DEF Own

\* A materializer version or an output that changes changes nothing of this.
LEMMA EnvironmentKeeps ==
    ASSUME Inv, Upgrade \/ ChangeOutput \/ UNCHANGED vars
    PROVE  Inv'
<1>1. UNCHANGED <<files, lock, ckptLock, pc, job, reg, shipped, released>> /\ version' \in Nat
  BY DEF Inv, Shape, Upgrade, ChangeOutput, vars, environment
<1>2. Shape'
  BY <1>1 DEF Inv, Shape, files
<1>3. \A p \in Proc : Own(p)'
  BY <1>1, Undisturbed DEF Inv
<1> QED
  BY <1>2, <1>3 DEF Inv

\* The run starts as the invariant says.
LEMMA InitInv == Init => Inv
<1> SUFFICES ASSUME Init PROVE Inv
  OBVIOUS
<1>1. Shape
  <2>1. /\ Event(1, "run.started", "none") \in Lines
        /\ Event(2, "environment.observed", "none") \in Lines
        /\ Event(3, "workflow.output.declared", "none") \in Lines
    BY WordFacts DEF Event, Lines
  <2>2. events \in Seq(Lines)
    BY <2>1 DEF Init
  <2>3. state \in States
    BY WordFacts, NothingRemembered, ConstantsAssumption DEF Init, States, Flags, Profiles
  <2> QED
    BY <2>2, <2>3, NothingRemembered, WordFacts, ConstantsAssumption DEF Init, Shape, ControlPoints
<1>2. Len(events) = 3 /\ \A i \in 1 .. 3 : events[i].sequence = i
  BY DEF Init, Event
<1>3. /\ state.sequence = 3 /\ state.dirty /\ state.last_checkpoint = NoCheckpoint
      /\ NoCheckpoint.event_sequence = 0 /\ NoCheckpoint.materialized_through = 0
      /\ shipped.base = 0 /\ released.base = 0
      /\ \A p \in Proc : pc[p] = "idle" /\ job[p] = NoJob /\ lock # p /\ ckptLock # p
  BY ConstantsAssumption DEF Init, NoCheckpoint
<1>4. \A p \in Proc : Own(p)
  BY <1>2, <1>3, NothingRemembered DEF Own, Control, Current, HighWaterMark, Materialized, Answered,
     Covered, Unmarked, At, Checkpointing, Validating, Appending
<1> QED
  BY <1>1, <1>4 DEF Inv

\* Every step of the one process keeps the invariant.
LEMMA StepInv == ASSUME OneProcess, Inv, [Next]_vars PROVE Inv'
<1>1. CASE Upgrade \/ ChangeOutput \/ UNCHANGED vars
  BY <1>1, EnvironmentKeeps
<1>2. ASSUME NEW p \in Proc, ProcNext(p) \/ Crash(p) PROVE Inv'
  <2>1. Shape /\ Own(p)
    BY DEF Inv
  <2>2. Shape' /\ Own(p)'
    BY <1>2, <2>1, MovesKeep, CallsKeep, AppendLineKeeps, BumpWriteKeeps, WritersKeep, PreviewKeeps,
       BuildKeeps, CompleteKeeps, FinalizeKeeps, ComingsAndGoingsKeep DEF ProcNext
  <2>3. \A q \in Proc : q = p
    BY DEF OneProcess
  <2> QED
    BY <2>2, <2>3 DEF Inv
<1> QED
  BY <1>1, <1>2 DEF Next, Done

\* The inductive invariant holds in every state, for every number of commands, with
\* kills wherever a process is not inside an append.
THEOREM CheckpointInvariant == ASSUME OneProcess PROVE Spec => []Inv
<1>1. Inv /\ [Next]_vars => Inv'
  BY StepInv
<1> QED
  BY <1>1, InitInv, PTL DEF Spec

\* A process that owns the run vouches for the flag.
LEMMA OwnsFresh ==
    ASSUME Shape, NEW p \in Proc, Own(p)
    PROVE  FreshIsMaterialized
<1> SUFFICES ASSUME Quiet, ~state.dirty, NEW i \in 1 .. Len(events), events[i].sequence > crate.through,
                    Sets(events[i].event_type)
             PROVE  FALSE
  BY DEF FreshIsMaterialized, Pending
<1>1. ~Unmarked(p)
  BY ConstantsAssumption DEF Quiet, Own, Control, Unmarked, Appending
<1>2. Covered(Len(events), crate.through) /\ events[i].sequence = i /\ crate.through \in Nat
  BY <1>1 DEF Own, Materialized, Current, Shape
<1> QED
  BY <1>2 DEF Covered

\* What rcr status, the Stop hook and finalize read the flag for: a run that is not dirty
\* has every provenance event in its crate on disk.
THEOREM FreshRunsAreMaterialized == ASSUME OneProcess PROVE Spec => []FreshIsMaterialized
<1>1. Inv => FreshIsMaterialized
  BY OwnsFresh DEF OneProcess, Inv
<1> QED
  BY <1>1, CheckpointInvariant, PTL

\* Finalize ships a crate that holds every provenance event recorded before it was asked,
\* whichever way it came by the crate.
THEOREM ShippedCratesAreCurrent == ASSUME OneProcess PROVE Spec => []ShippedIsCurrent
<1>1. Inv => ShippedIsCurrent
  <2> SUFFICES ASSUME Inv PROVE ShippedIsCurrent
    OBVIOUS
  <2>1. PICK p \in Proc : Own(p)
    BY DEF OneProcess, Inv
  <2>2. /\ Covered(shipped.base, shipped.through) /\ shipped.base <= Len(events)
        /\ shipped.base \in Nat /\ Len(events) \in Nat
        /\ \A i \in 1 .. Len(events) : events[i].sequence = i
    BY <2>1 DEF Own, Answered, Current, Inv, Shape
  <2> QED
    BY <2>2 DEF ShippedIsCurrent, Covered
<1> QED
  BY <1>1, CheckpointInvariant, PTL

\* The Stop hook lets a session go only with a crate that holds every provenance event
\* recorded before the hook ran.
THEOREM StoppedSessionsAreCurrent == ASSUME OneProcess PROVE Spec => []StopIsCurrent
<1>1. Inv => StopIsCurrent
  <2> SUFFICES ASSUME Inv PROVE StopIsCurrent
    OBVIOUS
  <2>1. PICK p \in Proc : Own(p)
    BY DEF OneProcess, Inv
  <2>2. /\ Covered(released.base, released.through) /\ released.base <= Len(events)
        /\ released.base \in Nat /\ Len(events) \in Nat
        /\ \A i \in 1 .. Len(events) : events[i].sequence = i
    BY <2>1 DEF Own, Answered, Current, Inv, Shape
  <2> QED
    BY <2>2 DEF StopIsCurrent, Covered
<1> QED
  BY <1>1, CheckpointInvariant, PTL

\* Only the end of a checkpoint writes last_checkpoint.
LEMMA LastCheckpointKept ==
    ASSUME Shape, NEW p \in Proc, Own(p), ProcNext(p) \/ Crash(p), ~Complete(p)
    PROVE  state'.last_checkpoint = state.last_checkpoint
<1>1. CASE UNCHANGED state
  BY <1>1
<1>2. CASE BumpWrite(p)
  BY <1>2, BumpWriteEffect
<1>3. CASE MarkWrite(p) \/ MarkDrift(p) \/ Store(p)
  BY <1>3, WritersEffect
<1>4. CASE Recover(p)
  BY <1>4, RecoverFindsNothing
<1> QED
  BY <1>1, <1>2, <1>3, <1>4
  DEF ProcNext, Begin, AppendLine, BumpLoad, Record, Refresh, MarkLoad, StartCheckpoint, LockTimeout, Load,
      Preview, Drift, HighWater, Integrity, Build, Raise, Validate, Finalize, Stage, ValidateCommand, Gate,
      RecordExport, Ship, Exit, StopRequested, StopStale, StopDecision, Crash, files

Advances ==
    /\ state'.last_checkpoint.materialized_through >= state.last_checkpoint.materialized_through
    /\ state'.last_checkpoint.event_sequence >= state.last_checkpoint.event_sequence

\* That end goes forward.
LEMMA OwnsAdvance ==
    ASSUME Shape, NEW p \in Proc, Own(p), ProcNext(p) \/ Crash(p)
    PROVE  Advances
<1>1. /\ state.last_checkpoint.materialized_through \in Nat
      /\ state.last_checkpoint.event_sequence \in Nat
  BY Fields DEF Shape
<1>2. CASE Complete(p)
  <2>1. /\ state.last_checkpoint.materialized_through <= job[p].high_water
        /\ state.last_checkpoint.event_sequence <= job[p].appended
        /\ job[p].high_water \in Nat /\ job[p].appended \in Nat
    BY <1>2, Fields DEF Complete, Own, Shape, Current, HighWaterMark, Materialized, At
  <2> QED
    BY <1>1, <1>2, <2>1, CompleteEffect DEF Advances
<1>3. CASE ~Complete(p)
  BY <1>1, <1>3, LastCheckpointKept DEF Advances
<1> QED
  BY <1>2, <1>3

\* The last checkpoint never goes back, neither its high-water mark nor its event.
THEOREM CheckpointsOnlyAdvance == ASSUME OneProcess PROVE Spec => CheckpointNeverRegresses
<1>1. Inv /\ [Next]_vars => [Advances]_state
  <2> SUFFICES ASSUME Inv, Next, state' # state PROVE Advances
    BY DEF vars, files
  <2>1. PICK p \in Proc : ProcNext(p) \/ Crash(p)
    BY DEF Next, Done, Upgrade, ChangeOutput, vars, files
  <2> QED
    BY <2>1, OwnsAdvance DEF Inv
<1> QED
  BY <1>1, CheckpointInvariant, PTL DEF Spec, CheckpointNeverRegresses, Advances

-----------------------------------------------------------------------------
(* The verdict of a fresh run. *)

\* No step clears the flag but with a good verdict on everything recorded.
LEMMA OwnsValidated ==
    ASSUME VerdictIsRecorded, Shape, NEW p \in Proc, Own(p), Validated(p), ProcNext(p) \/ Crash(p)
    PROVE  Validated(p)'
<1>1. CASE AppendLine(p)
  <2>1. /\ events' = Append(events, Event(state.sequence + 1, job[p].type, job[p].profile))
        /\ pc[p] = "append" /\ pc'[p] = "bump" /\ job'[p].type = job[p].type /\ state' = state
        /\ events \in Seq(Lines) /\ job[p] \in Jobs
    <3>1. job[p] \in Jobs
      BY DEF Shape
    <3>2. [job[p] EXCEPT !.appended = state.sequence + 1].type = job[p].type
      BY <3>1 DEF Jobs
    <3> QED
      BY <1>1, <3>1, <3>2 DEF AppendLine, Shape, Goto
  <2>2. Event(state.sequence + 1, job[p].type, job[p].profile) \in Lines
    BY <2>1, Fields DEF Event, Lines, Shape
  <2>3. /\ Len(events') = Len(events) + 1 /\ \A i \in 1 .. Len(events) : events'[i] = events[i]
        /\ events'[Len(events) + 1].event_type = job[p].type
    BY <2>1, <2>2, AppendProperties DEF Event
  <2>4. \A i \in 1 .. Len(events') : i \in 1 .. Len(events) \/ i = Len(events) + 1
    BY <2>1, <2>3
  <2> QED
    BY <2>1, <2>3, <2>4 DEF Validated, Unmarked, Covered
<1>2. CASE BumpWrite(p)
  <2>1. /\ state'.last_checkpoint = state.last_checkpoint /\ pc[p] = "bumped"
        /\ state'.dirty = DirtyAfter(job[p].type, state.dirty)
    BY <1>2, BumpWriteEffect
  <2>2. UNCHANGED <<events, job>> /\ pc'[p] = job[p].next
    BY <1>2 DEF BumpWrite, Shape, Goto
  <2>3. job[p].type = "crate.checkpoint.completed" => job[p].next = "complete"
    BY <2>1 DEF Own, Control
  <2>4. CASE Sets(job[p].type)
    BY <2>1, <2>4 DEF DirtyAfter, Validated
  <2>5. CASE job[p].type = "crate.checkpoint.completed"
    BY <2>2, <2>3, <2>5 DEF Validated
  <2>6. CASE ~Sets(job[p].type) /\ job[p].type # "crate.checkpoint.completed"
    BY <2>1, <2>2, <2>6 DEF DirtyAfter, Validated, Unmarked, Covered
  <2> QED
    BY <2>4, <2>5, <2>6
<1>3. CASE MarkWrite(p) \/ MarkDrift(p) \/ Store(p)
  <2>1. /\ state'.last_checkpoint = state.last_checkpoint
        /\ state'.dirty \/ (state'.dirty <=> state.dirty)
    BY <1>3, WritersEffect
  <2>2. /\ UNCHANGED <<events, job>>
        /\ pc[p] \notin {"complete", "completed", "bump", "bumped"}
    BY <1>3 DEF MarkWrite, MarkDrift, Store
  <2> QED
    BY <2>1, <2>2 DEF Validated, Unmarked, Covered
<1>4. CASE Complete(p)
  <2>1. /\ job[p].status \in {"passed", "failed"} /\ Covered(Len(events), job[p].high_water)
        /\ UNCHANGED events
    BY <1>4 DEF Complete, Own, Control, HighWaterMark, At
  <2> QED
    BY <1>4, <2>1, CompleteEffect DEF Validated, Covered
<1>5. CASE UNCHANGED <<events, state>> /\ ~Load(p) /\ ~BumpWrite(p) /\ ~Complete(p)
  <2>1. pc[p] \notin {"complete", "completed", "bump", "bumped"} \/ BumpLoad(p)
    BY <1>5, ConstantsAssumption
    DEF VerdictIsRecorded, Appending, ProcNext, Begin, Recover, AppendLine, BumpLoad, BumpWrite,
       Record, Refresh, MarkLoad, MarkWrite, StartCheckpoint, LockTimeout, Store, Preview, Drift, MarkDrift,
       HighWater, Integrity, Build, Raise, Validate, Complete, Finalize, Stage, ValidateCommand, Gate,
       RecordExport, Ship, Exit, StopRequested, StopStale, StopDecision, Crash
  <2>2. CASE BumpLoad(p)
    BY <1>5, <2>2 DEF BumpLoad, Goto, Shape, Validated, Unmarked, Covered
  <2> QED
    BY <1>5, <2>1, <2>2 DEF Validated, Unmarked, Covered
<1>6. CASE Load(p)
  BY <1>6 DEF Load, Goto, Shape, Validated, Unmarked, Covered, files
<1>7. UNCHANGED <<events, state>> \/ AppendLine(p) \/ BumpWrite(p) \/ MarkWrite(p) \/ MarkDrift(p)
        \/ Store(p) \/ Complete(p)
  BY RecoverFindsNothing
  DEF ProcNext, Begin, BumpLoad, Record, Refresh, MarkLoad, StartCheckpoint, LockTimeout, Load,
      Preview, Drift, HighWater, Integrity, Build, Raise, Validate, Finalize, Stage, ValidateCommand,
      Gate, RecordExport, Ship, Exit, StopRequested, StopStale, StopDecision, Crash, files
<1> QED
  BY <1>1, <1>2, <1>3, <1>4, <1>5, <1>6, <1>7

\* No step of the one process, and nothing around it, does.
LEMMA ValidatedStep ==
    ASSUME OneProcess, VerdictIsRecorded, Inv, NEW p \in Proc, Validated(p), [Next]_vars
    PROVE  Validated(p)'
<1>1. CASE UNCHANGED <<events, state, pc, job>>
  BY <1>1 DEF Validated, Unmarked, Covered
<1>2. CASE ProcNext(p) \/ Crash(p)
  BY <1>2, OwnsValidated DEF Inv
<1> QED
  BY <1>1, <1>2 DEF OneProcess, Next, Done, Upgrade, ChangeOutput, vars, files

\* A process that owns the run vouches for the verdict.
LEMMA OwnsVerdict ==
    ASSUME Shape, NEW p \in Proc, Own(p), Validated(p)
    PROVE  FreshIsValidated
<1> SUFFICES ASSUME Quiet, ~state.dirty PROVE
                /\ state.last_checkpoint.status = "passed"
                /\ ~Pending(events, state.last_checkpoint.materialized_through)
  BY DEF FreshIsValidated
<1>1. ~Unmarked(p) /\ pc[p] \notin {"complete", "completed"}
  BY ConstantsAssumption DEF Quiet, Own, Control, Unmarked, Appending, At, Checkpointing
<1>2. /\ state.last_checkpoint.status = "passed"
      /\ Covered(Len(events), state.last_checkpoint.materialized_through)
      /\ \A i \in 1 .. Len(events) : events[i].sequence = i
      /\ state.last_checkpoint.materialized_through \in Nat
  BY <1>1, Fields DEF Validated, Own, Current, Shape
<1> QED
  BY <1>2 DEF Pending, Covered

\* SPEC 12.2: dirty is false only after a validation that passed, of a crate whose
\* high-water mark covers every provenance event.
THEOREM FreshRunsAreValidated == ASSUME OneProcess, VerdictIsRecorded PROVE Spec => []FreshIsValidated
<1> DEFINE VInv == Inv /\ \A p \in Proc : Validated(p)
<1>1. Init => VInv
  <2> SUFFICES ASSUME Init PROVE VInv
    OBVIOUS
  <2>1. state.dirty
    BY DEF Init
  <2> QED
    BY <2>1, InitInv DEF Validated
<1>2. VInv /\ [Next]_vars => VInv'
  BY StepInv, ValidatedStep
<1>3. VInv => FreshIsValidated
  BY OwnsVerdict DEF OneProcess, Inv
<1> QED
  BY <1>1, <1>2, <1>3, PTL DEF Spec

-----------------------------------------------------------------------------
(* Validation finds nothing wrong with the bookkeeping.                     *)

\* No new materializer, no output rewritten, no profile asked for: a drift marks a run
\* dirty that owes its crate no event, which validation reports.
NoDrift == Upgrades = 0 /\ Changes = 0 /\ Requests = {"auto"}

\* The agent edited a file, among the first n events.
Edited(n) == \E i \in 1 .. n : events[i].event_type = "file.created"

ProfileOf(n) == IF Edited(n) THEN "workflow" ELSE "process"

\* Events the last checkpoint does not cover.
Owed == ~Covered(Len(events), state.last_checkpoint.materialized_through)

Marked ==
    \/ ~state.dirty
    \/ state.last_checkpoint = NoCheckpoint
    \/ state.last_checkpoint.status = "failed"
    \/ Owed

\* Nothing but recorded events makes the run dirty.
Steady(p) ==
    /\ version = 1 /\ ~changed /\ upgrades = 0 /\ changes = 0
    /\ state.requested = "auto" /\ job[p].request = "auto"
    /\ state.last_checkpoint # NoCheckpoint => state.last_checkpoint.version = 1
    /\ pc[p] # "idle" => job[p].version = 1
    /\ pc[p] \notin {"mark", "marked", "persist", "persisted"}
    /\ pc[p] = "validate" => reg[p] = state
    /\ events # <<>>

\* The selected profile is that of the last build or an earlier one.
Selected(p) ==
    /\ state.selected \in Profiles
    /\ state.selected = "workflow" => Edited(Len(events))
    /\ Edited(state.last_checkpoint.materialized_through) => state.selected = "workflow"
    /\ pc[p] \in {"append", "bump", "bumped"} /\ job[p].type = "file.created" => job[p].next = "exit"
    /\ At(p) \in {"confidence", "confident", "drift"} => job[p].preview = ProfileOf(Len(events))
    /\ pc[p] \in {"built", "profiled"} => job[p].model = ProfileOf(job[p].high_water)
    /\ \/ At(p) \in {"complete", "completed"}
       \/ pc[p] \in Validating /\ ckptLock = p
       => (Edited(job[p].high_water) => state.selected = "workflow")

Books(p) ==
    /\ Steady(p)
    /\ Selected(p)
    /\ pc[p] = "drifted" \/ Unmarked(p) => Owed
    /\ Marked

\* The fields of a job that the profile and the version are kept in, with others changed.
LEMMA OtherJobFields ==
    ASSUME NEW j \in Jobs, NEW x, NEW y, NEW z
    PROVE  /\ LET k == [j EXCEPT !.type = x, !.profile = y, !.next = z] IN
                k.request = j.request /\ k.version = j.version
           /\ LET k == [j EXCEPT !.type = x, !.profile = y, !.next = z] IN
                k.preview = j.preview /\ k.model = j.model
           /\ LET k == [j EXCEPT !.appended = x] IN
                /\ k.request = j.request /\ k.version = j.version /\ k.preview = j.preview
                /\ k.model = j.model /\ k.high_water = j.high_water
                /\ k.type = j.type /\ k.next = j.next
<1>1. LET k == [j EXCEPT !.type = x, !.profile = y, !.next = z] IN
        k.request = j.request /\ k.version = j.version
  BY DEF Jobs
<1>2. LET k == [j EXCEPT !.type = x, !.profile = y, !.next = z] IN
        k.preview = j.preview /\ k.model = j.model
  BY DEF Jobs
<1>3. LET k == [j EXCEPT !.appended = x] IN
        /\ k.request = j.request /\ k.version = j.version /\ k.preview = j.preview
        /\ k.model = j.model /\ k.high_water = j.high_water
        /\ k.type = j.type /\ k.next = j.next
  BY DEF Jobs
<1> QED
  BY <1>1, <1>2, <1>3

\* The events a profile goes by.
LEMMA Profiling ==
    ASSUME Shape, \A i \in 1 .. Len(events) : events[i].sequence = i,
           NEW n \in Nat, n <= Len(events)
    PROVE  Select("auto", Through(n)) = ProfileOf(n)
<1>1. Len(events) \in Nat
  BY DEF Shape
<1>2. (\E e \in Through(n) : e.event_type = "file.created") <=> Edited(n)
  BY <1>1 DEF Through, Edited
<1> QED
  BY <1>2 DEF Select, ProfileOf

\* A command is asked for no profile, and one is selected by the events only.
Prepared(p) ==
    /\ At(p) \in {"confidence", "confident", "drift"} => job[p].preview = ProfileOf(Len(events))
    /\ pc[p] \in {"built", "profiled"} => job[p].model = ProfileOf(job[p].high_water)
    /\ \/ At(p) \in {"complete", "completed"}
       \/ pc[p] \in Validating /\ ckptLock = p
       => (Edited(job[p].high_water) => state.selected = "workflow")

\* The books after a step that writes neither the journal nor the state.
LEMMA BooksSame ==
    ASSUME NEW p \in Proc, Books(p), UNCHANGED <<events, state, environment>>,
           job'[p].request = "auto", pc'[p] = "idle" \/ job'[p].version = 1,
           pc'[p] \notin {"mark", "marked", "persist", "persisted"},
           pc'[p] = "validate" => reg'[p] = state,
           pc'[p] \in {"append", "bump", "bumped"} /\ job'[p].type = "file.created"
             => job'[p].next = "exit",
           pc'[p] = "drifted" \/ Unmarked(p)' => Owed,
           Prepared(p)'
    PROVE  Books(p)'
<1>1. Steady(p)'
  BY DEF Books, Steady, environment
<1>2. Owed' <=> Owed
  BY DEF Owed, Covered
<1>3. Marked'
  BY <1>2 DEF Books, Marked
<1>4. Selected(p)'
  <2>1. \A n : Edited(n)' <=> Edited(n)
    BY DEF Edited
  <2> QED
    BY <2>1 DEF Books, Selected, Prepared
<1> QED
  BY <1>1, <1>2, <1>3, <1>4 DEF Books

\* An append is asked for.
LEMMA CallBooks ==
    ASSUME Shape, NEW p \in Proc, Books(p), UNCHANGED <<events, state, environment>>,
           NEW j \in Jobs, NEW type \in Words, NEW profile \in Words, NEW next \in AfterAppend,
           Call(p, j, type, profile, next), j.request = "auto", j.version = 1,
           type = "file.created" => next = "exit",
           next = "confidence" => j.preview = ProfileOf(Len(events)),
           next = "complete" => (Edited(j.high_water) => state.selected = "workflow")
    PROVE  Books(p)'
<1>1. /\ pc' = [pc EXCEPT ![p] = "append"]
      /\ job'[p].type = type /\ job'[p].next = next /\ job'[p].high_water = j.high_water
  BY CallEffect
<1>2. pc'[p] = "append"
  BY <1>1 DEF Shape
<1>3. job'[p].request = "auto" /\ job'[p].version = 1 /\ job'[p].preview = j.preview
  <2>1. job'[p] = [j EXCEPT !.type = type, !.profile = profile, !.next = next]
    BY DEF Call, Shape
  <2> QED
    BY <2>1, OtherJobFields
<1>4. At(p)' = next
  BY <1>1, <1>2 DEF At
<1>5. \A n : Edited(n)' <=> Edited(n)
  BY DEF Edited
<1>6. ProfileOf(Len(events))' = ProfileOf(Len(events))
  BY <1>5 DEF ProfileOf, Edited
<1>7. Prepared(p)'
  BY <1>1, <1>2, <1>3, <1>4, <1>5, <1>6 DEF Prepared, AfterAppend, Validating
<1>8. ~Unmarked(p)'
  BY <1>2 DEF Unmarked
<1> QED
  BY <1>1, <1>2, <1>3, <1>7, <1>8, BooksSame

\* The appends a command asks for.
LEMMA CallsBooks ==
    ASSUME Shape, NEW p \in Proc, Own(p), Books(p),
           \/ Record(p) \/ HighWater(p) \/ Gate(p) \/ RecordExport(p)
           \/ StopRequested(p) \/ Validate(p)
    PROVE  Books(p)'
<1> USE WordFacts, Fields DEF AfterAppend
<1>0. /\ job[p] \in Jobs /\ state \in States /\ job[p].request = "auto"
      /\ pc[p] # "idle" => job[p].version = 1
      /\ state.requested = "auto"
  BY DEF Shape, Books, Steady
<1>1. CASE Record(p)
  BY <1>0, <1>1, CallBooks DEF Record, files
<1>2. CASE HighWater(p)
  <2>1. PICK j : j = [job[p] EXCEPT !.high_water = state.sequence]
    OBVIOUS
  <2>2. j \in Jobs /\ j.request = "auto" /\ j.version = 1
    <3>1. j \in Jobs
      BY <1>0, <2>1, JobFieldSet
    <3>2. j.request = job[p].request /\ j.version = job[p].version
      BY <1>0, <2>1 DEF Jobs
    <3> QED
      BY <1>0, <1>2, <3>1, <3>2 DEF HighWater
  <2> QED
    BY <1>2, <2>1, <2>2, CallBooks DEF HighWater, files
<1>3. CASE Gate(p)
  <2>1. \E type \in Words, next \in AfterAppend :
          /\ Call(p, job[p], type, "none", next) /\ type # "file.created"
          /\ next # "confidence" /\ next # "complete"
    BY <1>3 DEF Gate
  <2>2. pc[p] # "idle" /\ UNCHANGED <<events, state, environment>>
    BY <1>3 DEF Gate, files
  <2> QED
    BY <1>0, <2>1, <2>2, CallBooks
<1>4. CASE RecordExport(p)
  <2>1. \E type \in Words, next \in AfterAppend :
          /\ Call(p, job[p], type, "none", next) /\ type # "file.created"
          /\ next # "confidence" /\ next # "complete"
    BY <1>4 DEF RecordExport
  <2>2. pc[p] # "idle" /\ UNCHANGED <<events, state, environment>>
    BY <1>4 DEF RecordExport, files
  <2> QED
    BY <1>0, <2>1, <2>2, CallBooks
<1>5. CASE StopRequested(p)
  <2>1. PICK j : j = [job[p] EXCEPT !.base = Len(events), !.request = state.requested,
                                    !.stale = IsStale(state)]
    OBVIOUS
  <2>2. pc[p] # "idle" /\ UNCHANGED <<events, state, environment>>
    BY <1>5 DEF StopRequested, files
  <2>3. j \in Jobs
    <3>1. IsStale(state) \in Flags
      BY DEF IsStale, Flags
    <3>2. PICK k : k = [job[p] EXCEPT !.base = Len(events)]
      OBVIOUS
    <3>3. k \in Jobs
      <4>1. Len(events) \in Nat
        BY DEF Shape
      <4> QED
        BY <1>0, <3>2, <4>1, JobFieldSet
    <3>4. PICK l : l = [k EXCEPT !.request = state.requested]
      OBVIOUS
    <3>5. l \in Jobs
      BY <1>0, <3>3, <3>4, JobFieldSet
    <3>6. [l EXCEPT !.stale = IsStale(state)] \in Jobs
      BY <3>1, <3>5, JobFieldSet
    <3> QED
      BY <2>1, <3>2, <3>4, <3>6
  <2>4. j.request = "auto" /\ j.version = 1
    <3>1. j.request = state.requested /\ j.version = job[p].version
      BY <1>0, <2>1 DEF Jobs
    <3> QED
      BY <1>0, <2>2, <3>1
  <2> QED
    BY <1>5, <2>1, <2>2, <2>3, <2>4, CallBooks DEF StopRequested
<1>6. CASE Validate(p)
  <2>1. PICK status \in Words :
          LET j == [job[p] EXCEPT !.status = status]
          IN  IF ckptLock = p
              THEN Call(p, j, "crate.checkpoint.completed", "none", "complete")
              ELSE Call(p, j, "crate.validation.started", "none", "gated")
    BY <1>6 DEF Validate
  <2>2. PICK j :
          /\ j = [job[p] EXCEPT !.status = status]
          /\ \/ ckptLock = p /\ Call(p, j, "crate.checkpoint.completed", "none", "complete")
             \/ Call(p, j, "crate.validation.started", "none", "gated")
    BY <2>1
  <2>3. j \in Jobs
    BY <1>0, <2>2, JobFieldSet
  <2>4. /\ pc[p] = "validate" /\ UNCHANGED <<events, state, environment>>
    BY <1>6 DEF Validate, files
  <2>5. j.request = "auto" /\ j.version = 1 /\ j.high_water = job[p].high_water
    <3>1. j.request = job[p].request /\ j.version = job[p].version /\ j.high_water = job[p].high_water
      BY <1>0, <2>2 DEF Jobs
    <3> QED
      BY <1>0, <2>4, <3>1
  <2>6. ckptLock = p => (Edited(j.high_water) => state.selected = "workflow")
    BY <2>4, <2>5 DEF Books, Selected, Validating
  <2> QED
    BY <2>2, <2>3, <2>4, <2>5, <2>6, CallBooks
<1> QED
  BY <1>1, <1>2, <1>3, <1>4, <1>5, <1>6

\* The steps that move on, take or free a lock, or load the state, and write nothing.
LEMMA MovesBooks ==
    ASSUME Shape, NEW p \in Proc, Own(p), Books(p),
           \/ Recover(p) \/ BumpLoad(p) \/ Refresh(p) \/ MarkLoad(p) \/ StartCheckpoint(p)
           \/ LockTimeout(p) \/ Load(p) \/ Drift(p) \/ Raise(p) \/ StopStale(p)
           \/ ValidateCommand(p) \/ Ship(p) \/ StopDecision(p) \/ Integrity(p)
    PROVE  Books(p)'
<1>0. /\ job[p].request = "auto" /\ (pc[p] # "idle" => job[p].version = 1)
      /\ ~changed /\ (state.last_checkpoint # NoCheckpoint => state.last_checkpoint.version = 1)
      /\ pc[p] \notin {"mark", "marked", "persist", "persisted"}
      /\ pc \in [Proc -> ControlPoints] /\ ~Broken(events)
      /\ reg \in [Proc -> States] /\ ckptLock \in Proc \cup {NoProc}
  BY DEF Shape, Books, Steady, Own, Current, Broken
<1>1. /\ UNCHANGED <<events, state, environment>> /\ job' = job
      /\ pc[p] # "idle"
  BY <1>0, RecoverFindsNothing
  DEF Recover, BumpLoad, Refresh, MarkLoad, StartCheckpoint, LockTimeout, Load, Drift, Raise, StopStale,
      ValidateCommand, Ship, StopDecision, Integrity, files
<1>2. ~VersionChanged(p, state)
  BY <1>0, <1>1 DEF VersionChanged
<1>3. Prepared(p) /\ (pc[p] = "drifted" \/ Unmarked(p) => Owed)
      /\ (pc[p] \in {"append", "bump", "bumped"} /\ job[p].type = "file.created"
            => job[p].next = "exit")
  BY DEF Books, Selected, Prepared
<1>4. \A n : Edited(n)' <=> Edited(n)
  BY <1>1 DEF Edited
<1>5. ProfileOf(Len(events))' = ProfileOf(Len(events))
      /\ ProfileOf(job[p].high_water)' = ProfileOf(job[p].high_water)
      /\ (Edited(job[p].high_water)' <=> Edited(job[p].high_water))
  BY <1>1, <1>4 DEF ProfileOf
<1> DEFINE Rest ==
      {"ready", "exit", "preview", "confident", "profiled", "context", "validate", "completed",
       "highwater", "drifted", "checkpoint", "build", "bumped"}
<1>6. /\ pc'[p] \in Rest
      /\ pc'[p] = "validate" => reg'[p] = state /\ pc[p] = "context" /\ ckptLock' = ckptLock
      /\ pc'[p] # "drift"
      /\ pc'[p] = "confident" => pc[p] = "confidence"
      /\ pc'[p] = "profiled" => pc[p] = "built"
      /\ pc'[p] = "completed" => pc[p] = "complete"
      /\ pc'[p] = "bumped" => pc[p] = "bump"
      /\ pc'[p] = "drifted" => pc[p] = "drift" /\ state.selected # job[p].preview
      /\ pc'[p] = "context" => ckptLock' # p
  <2>1. CASE Recover(p) \/ BumpLoad(p) \/ Refresh(p) \/ MarkLoad(p) \/ StartCheckpoint(p)
    BY <1>0, <1>2, <2>1 DEF Recover, BumpLoad, Refresh, MarkLoad, StartCheckpoint, Goto
  <2>2. CASE LockTimeout(p) \/ Raise(p) \/ Ship(p) \/ StopDecision(p) \/ Integrity(p)
    BY <1>0, <2>2 DEF LockTimeout, Raise, Ship, StopDecision, Integrity, Goto
  <2>3. CASE Load(p)
    BY <1>0, <2>3 DEF Load, Goto
  <2>4. CASE Drift(p)
    BY <1>0, <1>2, <2>4 DEF Drift, Goto
  <2>5. CASE StopStale(p) \/ ValidateCommand(p)
    <3>1. ckptLock # p
      BY <2>5 DEF StopStale, ValidateCommand, Own, Control, At, Checkpointing, Validating
    <3>2. ckptLock' = ckptLock
      BY <2>5 DEF StopStale, ValidateCommand
    <3> QED
      BY <1>0, <2>5, <3>1, <3>2 DEF StopStale, ValidateCommand, Goto
  <2> QED
    BY <2>1, <2>2, <2>3, <2>4, <2>5
<1>7. Prepared(p)'
  <2>1. CASE pc'[p] = "bumped"
    <3>1. At(p)' = At(p)
      BY <1>1, <1>6, <2>1 DEF At
    <3> QED
      BY <1>1, <1>3, <1>4, <1>5, <2>1, <3>1 DEF Prepared, Validating
  <2>2. CASE pc'[p] # "bumped"
    <3>1. At(p)' = pc'[p]
      BY <1>6, <2>2 DEF At
    <3>2. At(p) = pc[p] \/ pc[p] \in {"append", "bump", "bumped"}
      BY DEF At
    <3> QED
      BY <1>1, <1>3, <1>4, <1>5, <1>6, <3>1, <3>2 DEF Prepared, Validating
  <2> QED
    BY <2>1, <2>2
<1>8. pc'[p] = "drifted" => Owed
  <2> SUFFICES ASSUME pc'[p] = "drifted" PROVE Owed
    OBVIOUS
  <2> DEFINE m == state.last_checkpoint.materialized_through
  <2>1. state.selected # ProfileOf(Len(events))
    BY <1>3, <1>6 DEF Prepared, At
  <2>2. /\ state.selected \in {"process", "workflow"}
        /\ state.selected = "workflow" => Edited(Len(events))
        /\ Edited(m) => state.selected = "workflow"
    BY DEF Books, Selected, Profiles
  <2>3. Edited(Len(events)) /\ ~Edited(m)
    BY <2>1, <2>2 DEF ProfileOf
  <2>4. m \in Nat /\ Len(events) \in Nat
    BY Fields DEF Shape
  <2> HIDE DEF m
  <2>5. PICK i \in 1 .. Len(events) : events[i].event_type = "file.created"
    BY <2>3 DEF Edited
  <2>6. i > m
    BY <2>3, <2>4, <2>5 DEF Edited
  <2>7. Sets("file.created")
    BY DEF Sets, Preserving
  <2> QED
    BY <2>4, <2>5, <2>6, <2>7 DEF Owed, Covered, m
<1>9. Unmarked(p)' => Owed
  BY <1>1, <1>3, <1>6 DEF Unmarked
<1>10. pc'[p] \in {"append", "bump", "bumped"} /\ job'[p].type = "file.created"
         => job'[p].next = "exit"
  BY <1>1, <1>3, <1>6
<1> QED
  BY <1>0, <1>1, <1>6, <1>7, <1>8, <1>9, <1>10, BooksSame

\* The line of an append: what it says is owed to the crate, and was not there before.
LEMMA LineBooks ==
    ASSUME Shape, NEW p \in Proc, Own(p), Books(p), AppendLine(p)
    PROVE  Books(p)'
<1> DEFINE n == Len(events)
<1> DEFINE m == state.last_checkpoint.materialized_through
<1>0. job[p] \in Jobs /\ m \in Nat /\ n \in Nat /\ m <= n
  BY Fields DEF Shape, Own, Materialized
<1>1. /\ state' = state /\ reg' = reg /\ ckptLock' = ckptLock /\ UNCHANGED environment
      /\ pc[p] = "append" /\ pc'[p] = "bump"
  BY DEF AppendLine, Goto, Shape
<1>2. /\ job'[p].request = job[p].request /\ job'[p].version = job[p].version
      /\ job'[p].preview = job[p].preview /\ job'[p].model = job[p].model
      /\ job'[p].high_water = job[p].high_water
      /\ job'[p].type = job[p].type /\ job'[p].next = job[p].next
  <2>1. job'[p] = [job[p] EXCEPT !.appended = state.sequence + 1]
    BY DEF AppendLine, Shape
  <2> QED
    BY <1>0, <2>1, OtherJobFields
<1>3. /\ Len(events') = n + 1 /\ \A i \in 1 .. n : events'[i] = events[i]
      /\ events'[n + 1].event_type = job[p].type
  <2>1. events' = Append(events, Event(state.sequence + 1, job[p].type, job[p].profile))
    BY DEF AppendLine
  <2>2. Event(state.sequence + 1, job[p].type, job[p].profile) \in Lines
    BY <1>0, Fields DEF Event, Lines, Shape
  <2> QED
    BY <2>1, <2>2, AppendProperties DEF Event, Shape
<1>4. \A k \in Nat : k <= n => (Edited(k)' <=> Edited(k))
  BY <1>0, <1>3 DEF Edited
<1>5. Edited(n) => Edited(Len(events))'
  BY <1>0, <1>3 DEF Edited
<1>6. job[p].type # "file.created" => (Edited(Len(events))' <=> Edited(n))
  <2>1. \A i \in 1 .. n + 1 : i \in 1 .. n \/ i = n + 1
    BY <1>0
  <2> QED
    BY <1>0, <1>3, <2>1 DEF Edited
<1>7. At(p)' = At(p) /\ At(p) = job[p].next
  BY <1>1, <1>2 DEF At
<1>8. Owed => Owed'
  BY <1>0, <1>1, <1>3 DEF Owed, Covered
<1>9. Sets(job[p].type) => Owed'
  BY <1>0, <1>1, <1>3 DEF Owed, Covered
<1>10. Steady(p)'
  <2>1. events' # <<>>
    BY <1>0, <1>3
  <2> QED
    BY <1>1, <1>2, <2>1 DEF Books, Steady, environment
<1>11. Selected(p)'
  <2>1. /\ state.selected \in Profiles
        /\ state.selected = "workflow" => Edited(n)
        /\ Edited(m) => state.selected = "workflow"
        /\ job[p].type = "file.created" => job[p].next = "exit"
        /\ At(p) \in {"confidence", "confident", "drift"} => job[p].preview = ProfileOf(n)
        /\ At(p) \in {"complete", "completed"}
             => (Edited(job[p].high_water) => state.selected = "workflow")
    BY <1>1 DEF Books, Selected
  <2>2. Edited(m)' <=> Edited(m)
    <3>1. PICK k : k = m
      OBVIOUS
    <3>2. m' = k
      BY <1>1, <3>1
    <3>3. Edited(k)' <=> Edited(k)
      BY <1>0, <1>4, <3>1
    <3> QED
      BY <3>1, <3>2, <3>3
  <2>3. At(p) \in {"confidence", "confident", "drift"} => job[p].preview = ProfileOf(Len(events))'
    <3>1. At(p) \in {"confidence", "confident", "drift"} => job[p].type # "file.created"
      BY <1>7, <2>1
    <3> QED
      BY <1>6, <2>1, <3>1 DEF ProfileOf
  <2>4. At(p) \in {"complete", "completed"} =>
          (Edited(job[p].high_water)' => state.selected = "workflow")
    <3>1. At(p) \in {"complete", "completed"} => job[p].high_water \in Nat /\ job[p].high_water <= n
      BY <1>0, Fields DEF Own, HighWaterMark
    <3>2. PICK k : k = job[p].high_water
      OBVIOUS
    <3>3. job'[p].high_water = k
      BY <1>2, <3>2
    <3>4. At(p) \in {"complete", "completed"} => (Edited(k)' <=> Edited(k))
      BY <1>4, <3>1, <3>2
    <3> QED
      BY <2>1, <3>2, <3>3, <3>4
  <2>5. Edited(state.last_checkpoint.materialized_through)' => state.selected = "workflow"
    BY <1>1, <2>1, <2>2
  <2> QED
    BY <1>1, <1>2, <1>5, <1>7, <2>1, <2>3, <2>4, <2>5 DEF Selected, Validating
<1>12. Unmarked(p)' => Owed'
  BY <1>1, <1>2, <1>9 DEF Unmarked
<1>13. Marked'
  BY <1>1, <1>8 DEF Books, Marked
<1> QED
  BY <1>1, <1>10, <1>11, <1>12, <1>13 DEF Books

\* A state written back with another sequence or flag.
LEMMA StateBooks ==
    ASSUME NEW p \in Proc, Books(p), UNCHANGED <<events, environment>>, job' = job,
           state'.requested = state.requested, state'.selected = state.selected,
           state'.last_checkpoint = state.last_checkpoint,
           ~state'.dirty \/ state.dirty \/ Owed,
           pc[p] # "idle",
           pc'[p] \notin {"mark", "marked", "persist", "persisted", "validate", "drifted",
                          "append", "bump", "bumped"},
           Prepared(p)'
    PROVE  Books(p)'
<1>1. Steady(p)'
  BY DEF Books, Steady, environment
<1>2. Owed' <=> Owed
  BY DEF Owed, Covered
<1>3. Marked'
  BY <1>2 DEF Books, Marked
<1>4. Selected(p)'
  <2>1. \A n : Edited(n)' <=> Edited(n)
    BY DEF Edited
  <2>2. /\ state'.selected \in Profiles
        /\ state'.selected = "workflow" => Edited(Len(events))'
        /\ Edited(state.last_checkpoint.materialized_through)' => state'.selected = "workflow"
    BY <2>1 DEF Books, Selected, Edited
  <2> QED
    BY <2>2 DEF Selected, Prepared
<1>5. ~Unmarked(p)'
  BY DEF Unmarked
<1> QED
  BY <1>1, <1>3, <1>4, <1>5 DEF Books

\* The end of an append, and the other writers of the state.
LEMMA WritersBooks ==
    ASSUME Shape, NEW p \in Proc, Own(p), Books(p),
           \/ BumpWrite(p) \/ MarkWrite(p) \/ MarkDrift(p) \/ Store(p)
    PROVE  Books(p)'
<1>0. /\ pc \in [Proc -> ControlPoints] /\ state \in States /\ job[p] \in Jobs
      /\ pc[p] \notin {"mark", "marked", "persist", "persisted"}
  BY DEF Shape, Books, Steady
<1>1. UNCHANGED <<events, environment>> /\ job' = job /\ ckptLock' = ckptLock /\ pc[p] # "idle"
  BY <1>0 DEF BumpWrite, MarkWrite, MarkDrift, Store
<1>2. Prepared(p)
  BY DEF Books, Selected, Prepared
<1>3. \A n : Edited(n)' <=> Edited(n)
  BY <1>1 DEF Edited
<1>4. /\ ProfileOf(Len(events))' = ProfileOf(Len(events))
      /\ (Edited(job[p].high_water)' <=> Edited(job[p].high_water))
  BY <1>1, <1>3 DEF ProfileOf
<1>5. CASE BumpWrite(p)
  <2>1. /\ pc[p] = "bumped" /\ pc'[p] = job[p].next /\ job[p].next \in AfterAppend
        /\ reg[p] = state
    BY <1>0, <1>5 DEF BumpWrite, Goto, Own, Control, Current
  <2>2. /\ state'.requested = state.requested /\ state'.selected = state.selected
        /\ state'.last_checkpoint = state.last_checkpoint
    <3>1. PICK dirty :
            state' = [state EXCEPT !.sequence = job[p].appended, !.dirty = dirty]
      BY <1>5, <2>1 DEF BumpWrite
    <3> QED
      BY <1>0, <3>1 DEF States
  <2>3. ~state'.dirty \/ state.dirty \/ Owed
    <3>1. state'.dirty = DirtyAfter(job[p].type, state.dirty)
      BY <1>5, BumpWriteEffect
    <3>2. Sets(job[p].type) => Owed
      BY <2>1 DEF Books, Unmarked
    <3> QED
      BY <3>1, <3>2 DEF DirtyAfter
  <2>4. At(p)' = At(p) /\ At(p) = job[p].next
    BY <1>1, <2>1 DEF At, AfterAppend
  <2>5. Prepared(p)'
    BY <1>1, <1>2, <1>4, <2>1, <2>4, <2>2 DEF Prepared, AfterAppend, Validating
  <2> QED
    BY <1>1, <2>1, <2>2, <2>3, <2>5, StateBooks DEF AfterAppend
<1>6. CASE MarkWrite(p)
  BY <1>0, <1>6 DEF MarkWrite
<1>7. CASE MarkDrift(p)
  <2>1. /\ pc[p] = "drifted" /\ pc'[p] = "highwater" /\ state' = [state EXCEPT !.dirty = TRUE]
    BY <1>0, <1>7 DEF MarkDrift, Goto, Own, Current
  <2>2. /\ state'.requested = state.requested /\ state'.selected = state.selected
        /\ state'.last_checkpoint = state.last_checkpoint
    BY <1>0, <2>1 DEF States
  <2>3. Owed
    BY <2>1 DEF Books
  <2>4. Prepared(p)'
    BY <2>1 DEF Prepared, At, Validating
  <2> QED
    BY <1>1, <2>1, <2>2, <2>3, <2>4, StateBooks
<1>8. CASE Store(p) /\ pc[p] = "confident"
  <2>1. pc'[p] = "drift" /\ state' = state
    BY <1>0, <1>8 DEF Store, Goto, Own, Current
  <2>2. job[p].preview = ProfileOf(Len(events))
    BY <1>2, <1>8 DEF Prepared, At
  <2>3. Prepared(p)'
    BY <1>1, <1>4, <2>1, <2>2 DEF Prepared, At, Validating
  <2> QED
    BY <1>1, <2>1, <2>3, StateBooks
<1>9. CASE Store(p) /\ pc[p] = "profiled"
  <2> DEFINE h == job[p].high_water
  <2> DEFINE m == state.last_checkpoint.materialized_through
  <2>1. /\ pc'[p] = "context" /\ state' = [state EXCEPT !.selected = job[p].model]
    BY <1>0, <1>9 DEF Store, Goto, Own, Current
  <2>2. /\ state'.requested = state.requested /\ state'.selected = job[p].model
        /\ state'.last_checkpoint = state.last_checkpoint
    BY <1>0, <2>1 DEF States
  <2>3. state'.dirty = state.dirty
    BY <1>0, <2>1, Zenon DEF States
  <2>4. job[p].model = ProfileOf(h) /\ m <= h /\ h <= Len(events)
    BY <1>2, <1>9 DEF Prepared, Own, HighWaterMark, At
  <2>5. h \in Nat /\ m \in Nat /\ Len(events) \in Nat
    BY <1>0, Fields DEF Shape
  <2>6. (Edited(m) => Edited(h)) /\ (Edited(h) => Edited(Len(events)))
    BY <2>4, <2>5 DEF Edited
  <2>7. /\ state'.selected \in Profiles
        /\ state'.selected = "workflow" => Edited(Len(events))
        /\ Edited(m) => state'.selected = "workflow"
        /\ Edited(h) => state'.selected = "workflow"
    BY <2>2, <2>4, <2>6 DEF ProfileOf, Profiles
  <2>8. Selected(p)'
    <3>1. m' = m /\ h' = h /\ (Edited(m)' <=> Edited(m)) /\ (Edited(h)' <=> Edited(h))
          /\ (Edited(Len(events))' <=> Edited(Len(events)))
      BY <1>1, <2>2 DEF Edited
    <3> QED
      BY <2>1, <2>7, <3>1 DEF Selected, At
  <2>9. Steady(p)'
    BY <1>1, <2>1, <2>2 DEF Books, Steady, environment
  <2>10. Marked'
    <3>1. Owed' <=> Owed
      BY <1>1, <2>2 DEF Owed, Covered
    <3> QED
      BY <2>2, <2>3, <3>1 DEF Books, Marked
  <2> QED
    BY <2>1, <2>8, <2>9, <2>10 DEF Books, Unmarked
<1> QED
  BY <1>0, <1>5, <1>6, <1>7, <1>8, <1>9 DEF Store

\* The preview, the build and their failure.
LEMMA BuildBooks ==
    ASSUME Shape, NEW p \in Proc, Own(p), Books(p), Preview(p) \/ Build(p)
    PROVE  Books(p)'
<1>0. /\ job[p] \in Jobs /\ state \in States /\ job[p].request = "auto" /\ job[p].version = 1
      /\ state.requested = "auto" /\ pc \in [Proc -> ControlPoints]
      /\ \A i \in 1 .. Len(events) : events[i].sequence = i
      /\ pc[p] # "idle"
  BY DEF Shape, Books, Steady, Own, Current, Preview, Build
<1>1. UNCHANGED <<events, state, environment>>
  BY DEF Preview, Build, files
<1>2. \A n : Edited(n)' <=> Edited(n)
  BY <1>1 DEF Edited
<1>3. CASE Preview(p)
  <2>1. PICK seen : seen = Through(state.sequence)
    OBVIOUS
  <2>2. Select("auto", seen) = ProfileOf(Len(events))
    <3>1. state.sequence = Len(events) /\ Len(events) \in Nat
      BY <1>3 DEF Shape, Own, Current, Preview
    <3> QED
      BY <1>0, <2>1, <3>1, Profiling
  <2>3. PICK j : j = [job[p] EXCEPT !.preview = Select(state.requested, seen)]
    OBVIOUS
  <2>4. \/ Goto(p, "drift") /\ job' = [job EXCEPT ![p] = j]
        \/ Call(p, j, "workflow.profile.selected", Select(job[p].request, seen), "confidence")
    BY <1>3, <2>1, <2>3 DEF Preview
  <2>5. ProfileOf(Len(events)) \in Words
    BY WordFacts DEF ProfileOf, Profiles
  <2>6. j \in Jobs
    BY <1>0, <2>2, <2>3, <2>5, JobFieldSet
  <2>7. j.request = "auto" /\ j.version = 1 /\ j.preview = ProfileOf(Len(events))
    BY <1>0, <2>2, <2>3 DEF Jobs
  <2>8. CASE Goto(p, "drift") /\ job' = [job EXCEPT ![p] = j]
    <3>1. pc'[p] = "drift" /\ job'[p] = j
      BY <1>0, <2>8 DEF Goto, Shape
    <3>2. ProfileOf(Len(events))' = ProfileOf(Len(events))
      BY <1>1, <1>2 DEF ProfileOf
    <3>3. Prepared(p)'
      BY <2>7, <3>1, <3>2 DEF Prepared, At, Validating
    <3> QED
      BY <1>1, <2>7, <3>1, <3>3, BooksSame DEF Unmarked
  <2>9. CASE Call(p, j, "workflow.profile.selected", Select(job[p].request, seen), "confidence")
    BY <1>0, <1>1, <2>2, <2>5, <2>6, <2>7, <2>9, WordFacts, CallBooks DEF AfterAppend
  <2> QED
    BY <2>4, <2>8, <2>9
<1>4. CASE Build(p) /\ Call(p, job[p], "crate.checkpoint.failed", "none", "raise")
  BY <1>0, <1>1, <1>4, WordFacts, CallBooks DEF AfterAppend
<1>5. CASE Build(p) /\ ~Call(p, job[p], "crate.checkpoint.failed", "none", "raise")
  <2>1. PICK model : /\ model = Select(state.requested, Through(job[p].high_water))
                     /\ job' = [job EXCEPT ![p].model = model]
                     /\ Goto(p, "built")
    BY <1>5 DEF Build
  <2>2. model = ProfileOf(job[p].high_water)
    <3>1. job[p].high_water \in Nat /\ job[p].high_water <= Len(events)
      BY <1>0, <1>5, Fields DEF Build, Own, HighWaterMark, At
    <3> QED
      BY <1>0, <2>1, <3>1, Profiling
  <2>3. PICK j : j = [job[p] EXCEPT !.model = model]
    OBVIOUS
  <2>4. /\ j.request = "auto" /\ j.version = 1 /\ j.model = model
        /\ j.high_water = job[p].high_water
    BY <1>0, <2>3 DEF Jobs
  <2>5. pc'[p] = "built" /\ job'[p] = j
    BY <1>0, <2>1, <2>3 DEF Goto, Shape
  <2>6. ProfileOf(job[p].high_water)' = ProfileOf(job[p].high_water)
    <3>1. PICK h : h = job[p].high_water
      OBVIOUS
    <3>2. job'[p].high_water = h
      BY <2>4, <2>5, <3>1
    <3> QED
      BY <1>2, <3>1, <3>2 DEF ProfileOf
  <2>7. Prepared(p)'
    BY <2>2, <2>4, <2>5, <2>6 DEF Prepared, At, Validating
  <2> QED
    BY <1>1, <2>4, <2>5, <2>7, BooksSame DEF Unmarked
<1> QED
  BY <1>3, <1>4, <1>5

\* finalize asks for the profile the run was started with, and stages the crate.
LEMMA FinalizeBooks ==
    ASSUME Shape, NEW p \in Proc, Own(p), Books(p), Finalize(p) \/ Stage(p)
    PROVE  Books(p)'
<1>0. /\ job[p] \in Jobs /\ job[p].request = "auto" /\ job[p].version = 1
      /\ state.requested = "auto" /\ UNCHANGED <<events, state, environment, ckptLock>>
  BY DEF Shape, Books, Steady, Finalize, Stage, files
<1>1. PICK j : /\ job' = [job EXCEPT ![p] = j] /\ j.request = "auto" /\ j.version = 1
  <2>1. CASE Finalize(p)
    <3>1. PICK j : j = [job[p] EXCEPT !.base = Len(events), !.request = state.requested]
      OBVIOUS
    <3>2. j.request = "auto" /\ j.version = 1
      BY <1>0, <3>1 DEF Jobs
    <3> QED
      BY <2>1, <3>1, <3>2 DEF Finalize
  <2>2. CASE Stage(p)
    <3>1. PICK j : j = [job[p] EXCEPT !.staged = crate.through]
      OBVIOUS
    <3>2. j.request = "auto" /\ j.version = 1
      BY <1>0, <3>1 DEF Jobs
    <3> QED
      BY <2>2, <3>1, <3>2 DEF Stage
  <2> QED
    BY <2>1, <2>2
<1>2. job'[p] = j
  BY <1>1 DEF Shape
<1>3. pc'[p] \in {"checkpoint", "stage", "context"} /\ ckptLock' # p
  BY DEF Finalize, Stage, Goto, Shape, Own, Control, At, Checkpointing, Validating
<1>4. Prepared(p)'
  BY <1>3 DEF Prepared, At
<1> QED
  BY <1>0, <1>1, <1>2, <1>3, <1>4, BooksSame DEF Unmarked

\* A command begins, returns or is killed.
LEMMA ComingsAndGoingsBooks ==
    ASSUME NoDrift, Shape, NEW p \in Proc, Books(p), Begin(p) \/ Exit(p) \/ Crash(p)
    PROVE  Books(p)'
<1>1. PICK j : /\ job' = [job EXCEPT ![p] = j] /\ j.request = "auto"
               /\ pc'[p] = "idle" \/ (pc'[p] = "recover" /\ j.version = 1)
  <2>1. CASE Begin(p)
    <3>1. PICK work, mode, j :
            /\ job' = [job EXCEPT ![p] = j]
            /\ j = [NoJob EXCEPT !.work = work, !.request = "auto", !.version = version,
                                 !.mode = IF work = "stop" THEN mode ELSE "none"]
      BY <2>1 DEF Begin, NoDrift
    <3>2. j.request = "auto" /\ j.version = 1
      BY <3>1 DEF NoJob, Books, Steady
    <3>3. pc'[p] = "recover"
      BY <2>1 DEF Begin, Goto, Shape
    <3> QED
      BY <3>1, <3>2, <3>3
  <2>2. CASE Exit(p) \/ Crash(p)
    <3>1. job' = [job EXCEPT ![p] = NoJob] /\ pc'[p] = "idle"
      BY <2>2 DEF Exit, Crash, Forget, Goto, Shape
    <3> QED
      BY <3>1 DEF NoJob
  <2> QED
    BY <2>1, <2>2
<1>2. job'[p] = j /\ UNCHANGED <<events, state, environment>>
  BY <1>1 DEF Begin, Exit, Crash, Shape, files
<1>3. Prepared(p)'
  BY <1>1 DEF Prepared, At, Validating
<1> QED
  BY <1>1, <1>2, <1>3, BooksSame DEF Unmarked

\* The verdict and the high-water mark are recorded.
LEMMA CompleteBooks ==
    ASSUME Shape, NEW p \in Proc, Own(p), Books(p), Complete(p)
    PROVE  Books(p)'
<1> DEFINE h == job[p].high_water
<1> DEFINE last == [materialized_through |-> h, event_sequence |-> job[p].appended,
                    status |-> job[p].status, version |-> job[p].version]
<1> DEFINE d == job[p].status = "failed"
<1>1. /\ state' = [state EXCEPT !.dirty = d, !.last_checkpoint = last]
      /\ state \in States /\ pc[p] = "completed" /\ job' = job /\ UNCHANGED <<events, environment>>
  BY DEF Complete, Completed, Own, Shape, Current
<1>2. /\ state'.requested = state.requested /\ state'.selected = state.selected
      /\ state'.last_checkpoint = last
  BY <1>1 DEF States
<1>3. last.materialized_through = h /\ last.version = job[p].version /\ last.status = job[p].status
  OBVIOUS
<1>4. pc'[p] \in {"stage", "context", "exit"} /\ ckptLock' # p
  BY ConstantsAssumption DEF Complete, AfterCheckpoint, Goto, Shape
<1> HIDE DEF h, last, d
<1>5. \A n : Edited(n)' <=> Edited(n)
  BY <1>1 DEF Edited
<1>6. /\ state.selected \in Profiles
      /\ state.selected = "workflow" => Edited(Len(events))
      /\ Edited(h) => state.selected = "workflow"
  BY <1>1 DEF Books, Selected, At, h
<1>7. Selected(p)'
  <2>1. PICK n : n = Len(events)
    OBVIOUS
  <2>2. (state.selected = "workflow" => Edited(n)') /\ (Edited(h)' => state.selected = "workflow")
    <3>1. PICK k : k = h
      OBVIOUS
    <3>2. h' = k
      BY <1>1, <3>1 DEF h
    <3> QED
      BY <1>5, <1>6, <2>1, <3>1, <3>2
  <2>3. state'.last_checkpoint.materialized_through = h' /\ Len(events') = n
    BY <1>1, <1>2, <1>3, <2>1 DEF h
  <2> QED
    BY <1>1, <1>2, <1>4, <1>6, <2>1, <2>2, <2>3 DEF Selected, At
<1>8. Steady(p)'
  BY <1>1, <1>2, <1>3, <1>4 DEF Books, Steady, environment
<1>9. Marked'
  <2>1. state'.dirty = (job[p].status = "failed")
    BY CompleteEffect
  <2> QED
    BY <1>2, <1>3, <2>1 DEF Marked
<1> QED
  BY <1>4, <1>7, <1>8, <1>9 DEF Books, Unmarked

\* A run starts with an open book.
LEMMA BooksInit == ASSUME NoDrift, Init, NEW p \in Proc PROVE Books(p)
<1>1. /\ Len(events) = 3 /\ events # <<>>
      /\ \A i \in 1 .. 3 : events[i].event_type # "file.created"
  BY DEF Init, Event
<1>2. /\ state.requested = "auto" /\ state.selected = "process" /\ state.last_checkpoint = NoCheckpoint
      /\ NoCheckpoint.materialized_through = 0
      /\ pc[p] = "idle" /\ job[p] = NoJob /\ version = 1 /\ changed = FALSE
      /\ upgrades = 0 /\ changes = 0
  BY DEF Init, NoDrift, NoCheckpoint
<1>3. ~Edited(0)
  BY DEF Edited
<1>4. Steady(p)
  BY <1>1, <1>2 DEF Steady, NoJob
<1>5. Selected(p)
  BY <1>2, <1>3 DEF Selected, At, Profiles, Validating
<1> QED
  BY <1>2, <1>4, <1>5 DEF Books, Marked, Unmarked

\* Every step keeps the books.
LEMMA BooksStep ==
    ASSUME OneProcess, NoDrift, Inv, NEW p \in Proc, Books(p), [Next]_vars
    PROVE  Books(p)'
<1>1. Shape /\ Own(p)
  BY DEF Inv
<1>2. CASE UNCHANGED vars
  <2>1. UNCHANGED <<events, state, environment, pc, job, reg, ckptLock>>
    BY <1>2 DEF vars, files
  <2>2. \A n : Edited(n)' <=> Edited(n)
    BY <2>1 DEF Edited
  <2>3. ProfileOf(Len(events))' = ProfileOf(Len(events))
        /\ ProfileOf(job[p].high_water)' = ProfileOf(job[p].high_water)
        /\ (Edited(job[p].high_water)' <=> Edited(job[p].high_water))
    BY <2>1, <2>2 DEF ProfileOf
  <2>4. At(p)' = At(p)
    BY <2>1 DEF At
  <2>5. Prepared(p)'
    BY <2>1, <2>3, <2>4 DEF Books, Selected, Prepared
  <2> QED
    BY <2>1, <2>5, BooksSame DEF Books, Steady, Selected, Unmarked
<1>3. CASE Upgrade \/ ChangeOutput
  BY <1>3 DEF Upgrade, ChangeOutput, Books, Steady
<1>4. CASE ProcNext(p) \/ Crash(p)
  BY <1>1, <1>4, MovesBooks, CallsBooks, LineBooks, WritersBooks, BuildBooks, CompleteBooks,
     FinalizeBooks, ComingsAndGoingsBooks DEF ProcNext
<1> QED
  BY <1>2, <1>3, <1>4 DEF OneProcess, Next, Done

\* Validation by the same process that writes never finds fault with the bookkeeping:
\* what it reports is about the crate.
THEOREM BookkeepingIsSound ==
    ASSUME OneProcess, VerdictIsRecorded, NoDrift PROVE Spec => []SoundBookkeeping
<1> DEFINE BInv == Inv /\ \A p \in Proc : Validated(p) /\ Books(p)
<1>1. Init => BInv
  <2> SUFFICES ASSUME Init PROVE BInv
    OBVIOUS
  <2>1. state.dirty
    BY DEF Init
  <2> QED
    BY <2>1, InitInv, BooksInit DEF Validated
<1>2. BInv /\ [Next]_vars => BInv'
  BY StepInv, ValidatedStep, BooksStep
<1>3. BInv => SoundBookkeeping
  <2> SUFFICES ASSUME BInv, NEW p \in Proc, pc[p] = "validate"
               PROVE  ~Inconsistent(reg[p], events)
    BY DEF SoundBookkeeping
  <2> DEFINE m == state.last_checkpoint.materialized_through
  <2>1. Shape /\ Own(p) /\ Validated(p) /\ Books(p)
    BY DEF Inv
  <2>2. reg[p] = state /\ events # <<>> /\ Marked
    BY <2>1 DEF Books, Steady
  <2>3. /\ \A i \in 1 .. Len(events) : events[i].sequence = i
        /\ Len(events) = state.sequence
        /\ state.last_checkpoint.event_sequence <= Len(events)
        /\ m <= Len(events)
    BY <2>1 DEF Own, Current, Materialized
  <2>4. /\ m \in Nat /\ Len(events) \in Nat /\ state.last_checkpoint.event_sequence \in Nat
        /\ Len(events) > 0
    BY <2>1, <2>2, Fields DEF Shape
  <2>5. ~state.dirty => Covered(Len(events), m)
    BY <2>1 DEF Validated, Unmarked
  <2> HIDE DEF m
  <2>6. Pending(events, m) <=> Owed
    BY <2>3, <2>4 DEF Pending, Owed, Covered, m
  <2>7. ~Broken(events) /\ state.sequence = events[Len(events)].sequence
    BY <2>3, <2>4 DEF Broken
  <2>8. ~Pending(events, m) \/ state.dirty
    BY <2>5, <2>6 DEF Owed, m
  <2>9. Pending(events, m) \/ ~state.dirty \/ state.last_checkpoint.status = "failed"
          \/ state.last_checkpoint = NoCheckpoint
    BY <2>2, <2>6 DEF Marked
  <2>10. m <= state.sequence /\ state.last_checkpoint.event_sequence <= state.sequence
    BY <2>3
  <2> QED
    BY <2>2, <2>3, <2>4, <2>7, <2>8, <2>9, <2>10 DEF Inconsistent, m
<1> QED
  BY <1>1, <1>2, <1>3, PTL DEF Spec

-----------------------------------------------------------------------------
(* Any number of processes that run rcr checkpoint, killed and started again at *)
(* will: checkpoint.lock keeps them apart, so each finds the run as a process  *)
(* alone would.                                                                *)

\* Only rcr checkpoint is run.
OnlyCheckpoints == Proc # {} /\ Workload \subseteq {"checkpoint"}

\* Where a checkpoint is before it takes checkpoint.lock and after it has let it go.
Outside == {"idle", "recover", "ready", "exit"}

\* What holds of every process, whoever has checkpoint.lock.
Waits(q) ==
    /\ pc[q] # "idle" => job[q].work = "checkpoint"
    /\ pc[q] \in Outside \/ ckptLock = q
    /\ job[q].appended <= Len(events)
    /\ job[q].base <= Len(events)

\* The holder of checkpoint.lock is alone with the run: what one process would own, the
\* holder owns, and everyone while there is none.
Serial ==
    /\ Shape
    /\ lock \in {NoProc, ckptLock}
    /\ \A q \in Proc : Waits(q)
    /\ \A q \in Proc : ckptLock \in {NoProc, q} => Own(q)

-----------------------------------------------------------------------------
(* A step of the process that has, or takes, checkpoint.lock. *)

\* Where a process that holds the lock can be.
LEMMA HolderInside ==
    ASSUME Shape, NEW p \in Proc, Own(p), Waits(p)
    PROVE  /\ pc[p] \in Outside \cup Checkpointing \cup {"append", "bump", "bumped"} \cup Validating
           /\ pc[p] \notin Outside => ckptLock = p
           /\ pc[p] = "ready" => job[p].work = "checkpoint"
           /\ pc[p] \in {"append", "bump", "bumped"} => job[p].next \in Checkpointing
           /\ pc[p] = "validate" => ckptLock = p
           /\ pc[p] \in Outside <=> ckptLock # p
<1>1. ckptLock = p => At(p) \in Checkpointing \cup Validating
  BY DEF Own, Control
<1>2. pc[p] \in {"append", "bump", "bumped"} => job[p].next \in AfterAppend /\ At(p) = job[p].next
  BY DEF Own, Control, At
<1>3. pc[p] \notin {"append", "bump", "bumped"} => At(p) = pc[p]
  BY DEF At
<1> QED
  BY <1>1, <1>2, <1>3 DEF Waits, Outside, Checkpointing, Validating, AfterAppend

\* The actions of a checkpoint.
LEMMA CheckpointActions ==
    ASSUME Shape, NEW p \in Proc, Own(p), Waits(p), ProcNext(p) \/ Crash(p)
    PROVE  \/ Begin(p) \/ Recover(p) \/ AppendLine(p) \/ BumpLoad(p) \/ BumpWrite(p)
           \/ StartCheckpoint(p) \/ LockTimeout(p) \/ Load(p) \/ Store(p) \/ Preview(p) \/ Drift(p)
           \/ MarkDrift(p) \/ HighWater(p) \/ Integrity(p) \/ Build(p) \/ Raise(p) \/ Validate(p)
           \/ Complete(p) \/ Exit(p) \/ Crash(p)
<1>1. /\ pc[p] \notin {"mark", "marked", "stage", "gated", "blocked", "finalized", "finalized2",
                       "ship", "stale"}
      /\ pc[p] = "ready" => job[p].work = "checkpoint"
      /\ pc[p] = "validate" => ckptLock = p
  BY HolderInside DEF Outside, Checkpointing, Validating
<1> QED
  BY <1>1 DEF ProcNext, Record, Refresh, MarkLoad, MarkWrite, Finalize, Stage, ValidateCommand, Gate,
              RecordExport, Ship, StopRequested, StopStale, StopDecision

\* What a step of a process leaves of the others'.
LEMMA OthersKept ==
    ASSUME Shape, NEW p \in Proc, ProcNext(p) \/ Crash(p), NEW q \in Proc, q # p
    PROVE  pc'[q] = pc[q] /\ job'[q] = job[q] /\ reg'[q] = reg[q]
<1>1. pc'[q] = pc[q]
  BY DEF Shape, ProcNext, Begin, Recover, AppendLine, BumpLoad, BumpWrite, Record, Refresh, MarkLoad, MarkWrite,
         StartCheckpoint, LockTimeout, Load, Store, Preview, Drift, MarkDrift, HighWater, Integrity, Build,
         Raise, Validate, Complete, Finalize, Stage, ValidateCommand, Gate, RecordExport, Ship, Exit,
         StopRequested, StopStale, StopDecision, Crash, Forget, Call, Goto
<1>2. job'[q] = job[q]
  BY DEF Shape, ProcNext, Begin, Recover, AppendLine, BumpLoad, BumpWrite, Record, Refresh, MarkLoad, MarkWrite,
         StartCheckpoint, LockTimeout, Load, Store, Preview, Drift, MarkDrift, HighWater, Integrity, Build,
         Raise, Validate, Complete, Finalize, Stage, ValidateCommand, Gate, RecordExport, Ship, Exit,
         StopRequested, StopStale, StopDecision, Crash, Forget, Call
<1>3. reg'[q] = reg[q]
  BY DEF Shape, ProcNext, Begin, Recover, AppendLine, BumpLoad, BumpWrite, Record, Refresh, MarkLoad, MarkWrite,
         StartCheckpoint, LockTimeout, Load, Store, Preview, Drift, MarkDrift, HighWater, Integrity, Build,
         Raise, Validate, Complete, Finalize, Stage, ValidateCommand, Gate, RecordExport, Ship, Exit,
         StopRequested, StopStale, StopDecision, Crash, Forget
<1> QED
  BY <1>1, <1>2, <1>3

\* A command that begins is a checkpoint.
LEMMA WorkBegun ==
    ASSUME OnlyCheckpoints, Shape, NEW p \in Proc, Begin(p) \/ Exit(p) \/ Crash(p)
    PROVE  pc'[p] # "idle" => job'[p].work = "checkpoint"
<1>1. CASE Begin(p)
  <2>1. PICK work \in Workload, request \in Requests, mode \in Modes :
           job' = [job EXCEPT ![p] = [NoJob EXCEPT !.work = work, !.request = request, !.version = version,
                                                   !.mode = IF work = "stop" THEN mode ELSE "none"]]
    BY <1>1 DEF Begin
  <2>2. PICK j : j = [NoJob EXCEPT !.work = work, !.request = request, !.version = version,
                                   !.mode = IF work = "stop" THEN mode ELSE "none"]
    OBVIOUS
  <2>3. j.work = "checkpoint"
    BY <2>2 DEF NoJob, OnlyCheckpoints
  <2> QED
    BY <2>1, <2>2, <2>3 DEF Shape
<1>2. CASE Exit(p) \/ Crash(p)
  BY <1>2 DEF Exit, Crash, Forget, Goto, Shape
<1> QED
  BY <1>1, <1>2

\* A command goes on for what it was started.
LEMMA WorkKept ==
    ASSUME OnlyCheckpoints, Shape, NEW p \in Proc, Own(p), Waits(p), ProcNext(p) \/ Crash(p)
    PROVE  pc'[p] # "idle" => job'[p].work = "checkpoint"
<1> USE Fields, WordFacts DEF AfterAppend
<1>0. job[p] \in Jobs /\ state \in States /\ (pc[p] # "idle" => job[p].work = "checkpoint")
  BY DEF Shape, Waits
<1>1. CASE Begin(p) \/ Exit(p) \/ Crash(p)
  BY <1>1, WorkBegun
<1>3. CASE job' = job /\ pc[p] # "idle"
  BY <1>0, <1>3
<1>4. CASE AppendLine(p)
  <2>1. job'[p] = [job[p] EXCEPT !.appended = state.sequence + 1] /\ pc[p] # "idle"
    BY <1>4 DEF AppendLine, Shape
  <2> QED
    BY <1>0, <2>1 DEF Jobs
<1>5. ASSUME pc[p] # "idle", NEW j \in Jobs, j.work = job[p].work, NEW type \in Words, NEW profile \in Words,
             NEW next \in AfterAppend, Call(p, j, type, profile, next)
      PROVE  job'[p].work = "checkpoint"
  BY <1>0, <1>5, CallEffect
<1>6. CASE HighWater(p)
  <2>1. PICK j : j = [job[p] EXCEPT !.high_water = state.sequence]
    OBVIOUS
  <2>2. j \in Jobs /\ j.work = job[p].work
    <3>1. j \in Jobs
      BY <1>0, <2>1, JobFieldSet
    <3>2. j.work = job[p].work
      BY <1>0, <2>1 DEF Jobs
    <3> QED
      BY <3>1, <3>2
  <2>3. Call(p, j, "crate.checkpoint.started", "none", "integrity") /\ pc[p] # "idle"
    BY <1>6, <2>1 DEF HighWater
  <2> QED
    BY <1>5, <2>2, <2>3
<1>7. CASE Validate(p)
  <2>1. PICK status \in Words, type \in Words, next \in AfterAppend :
          Call(p, [job[p] EXCEPT !.status = status], type, "none", next)
    BY <1>7 DEF Validate
  <2>2. PICK j : j = [job[p] EXCEPT !.status = status]
    OBVIOUS
  <2>3. j \in Jobs /\ j.work = job[p].work
    <3>1. j \in Jobs
      BY <1>0, <2>2, JobFieldSet
    <3>2. j.work = job[p].work
      BY <1>0, <2>2 DEF Jobs
    <3> QED
      BY <3>1, <3>2
  <2>4. Call(p, j, type, "none", next) /\ pc[p] # "idle"
    BY <1>7, <2>1, <2>2 DEF Validate
  <2> QED
    BY <1>5, <2>3, <2>4
<1>8. CASE Preview(p)
  <2>1. PICK seen : seen = Through(state.sequence)
    OBVIOUS
  <2>2. PICK j : j = [job[p] EXCEPT !.preview = Select(state.requested, seen)]
    OBVIOUS
  <2>3. \A w \in Words : Select(w, seen) \in Words
    BY DEF Select, Profiles
  <2>4. j \in Jobs
    BY <1>0, <2>2, <2>3, JobFieldSet
  <2>5. j.work = job[p].work
    BY <1>0, <2>2 DEF Jobs
  <2>6. \/ job' = [job EXCEPT ![p] = j]
        \/ Call(p, j, "workflow.profile.selected", Select(job[p].request, seen), "confidence")
    BY <1>8, <2>1, <2>2 DEF Preview
  <2>7. pc[p] # "idle" /\ Select(job[p].request, seen) \in Words
    BY <1>0, <1>8, <2>3 DEF Preview
  <2>8. CASE job' = [job EXCEPT ![p] = j]
    BY <1>0, <2>5, <2>7, <2>8 DEF Shape
  <2>9. CASE Call(p, j, "workflow.profile.selected", Select(job[p].request, seen), "confidence")
    BY <1>5, <2>4, <2>5, <2>7, <2>9
  <2> QED
    BY <2>6, <2>8, <2>9
<1>9. CASE Integrity(p)
  BY <1>0, <1>3, <1>5, <1>9 DEF Integrity
<1>10. CASE Build(p)
  <2>1. CASE Call(p, job[p], "crate.checkpoint.failed", "none", "raise")
    BY <1>0, <1>5, <1>10, <2>1 DEF Build
  <2>2. CASE ~Call(p, job[p], "crate.checkpoint.failed", "none", "raise")
    <3>1. PICK model : job' = [job EXCEPT ![p].model = model]
      BY <1>10, <2>2 DEF Build
    <3>2. job'[p] = [job[p] EXCEPT !.model = model] /\ pc[p] # "idle"
      BY <1>10, <3>1 DEF Build, Shape
    <3> QED
      BY <1>0, <3>2 DEF Jobs
  <2> QED
    BY <2>1, <2>2
<1>11. CASE \/ Recover(p) \/ BumpLoad(p) \/ BumpWrite(p) \/ StartCheckpoint(p) \/ LockTimeout(p) \/ Load(p)
            \/ Store(p) \/ Drift(p) \/ MarkDrift(p) \/ Raise(p) \/ Complete(p)
  BY <1>3, <1>11 DEF Recover, BumpLoad, BumpWrite, StartCheckpoint, LockTimeout, Load, Store, Drift, MarkDrift,
                     Raise, Complete
<1> QED
  BY <1>1, <1>4, <1>6, <1>7, <1>8, <1>9, <1>10, <1>11, CheckpointActions

\* The journal grows, and the locks are let go in the order they were taken.
LEMMA LocksNest ==
    ASSUME OnlyCheckpoints, Shape, NEW p \in Proc, Own(p), Waits(p), ProcNext(p) \/ Crash(p),
           lock \in {NoProc, p}, ckptLock \in {NoProc, p}
    PROVE  /\ Len(events) <= Len(events')
           /\ lock' \in {NoProc, p} /\ ckptLock' \in {NoProc, p}
           /\ ckptLock' = NoProc => pc'[p] \in Outside
<1>1. Len(events) <= Len(events')
  <2>1. Len(events) \in Nat
    BY DEF Shape
  <2>2. CASE AppendLine(p)
    BY <2>1, <2>2, AppendProperties DEF AppendLine
  <2>3. CASE ~AppendLine(p)
    <3>1. events' = events
      BY <2>3, CheckpointActions, RecoverFindsNothing
      DEF Begin, BumpLoad, BumpWrite, StartCheckpoint, LockTimeout, Load, Store, Preview, Drift, MarkDrift,
          HighWater, Integrity, Build, Raise, Validate, Complete, Exit, Crash, files
    <3> QED
      BY <2>1, <3>1
  <2> QED
    BY <2>2, <2>3
<1>2. lock' \in {NoProc, p} /\ ckptLock' \in {NoProc, p}
  BY CheckpointActions
  DEF Begin, Recover, AppendLine, BumpLoad, BumpWrite, StartCheckpoint, LockTimeout, Load, Store, Preview, Drift,
      MarkDrift, HighWater, Integrity, Build, Raise, Validate, Complete, Exit, Crash
<1>3. ASSUME ckptLock' = NoProc PROVE pc'[p] \in Outside
  <2>1. NoProc # p /\ pc \in [Proc -> ControlPoints]
    BY ConstantsAssumption DEF Shape
  <2>2. CASE Begin(p) \/ Exit(p) \/ Crash(p)
    BY <2>2, ComingsAndGoings DEF Outside
  <2>3. CASE Recover(p) \/ LockTimeout(p) \/ Raise(p) \/ StartCheckpoint(p)
    BY <1>3, <2>1, <2>3 DEF Recover, LockTimeout, Raise, StartCheckpoint, Goto, Outside
  <2>4. CASE Complete(p)
    <3>1. job[p].work = "checkpoint"
      BY <2>4 DEF Complete, Waits
    <3> QED
      BY <2>1, <2>4, <3>1 DEF Complete, AfterCheckpoint, Goto, Outside
  <2>5. CASE \/ AppendLine(p) \/ BumpLoad(p) \/ BumpWrite(p) \/ Load(p) \/ Store(p) \/ Preview(p)
             \/ Drift(p) \/ MarkDrift(p) \/ HighWater(p) \/ Integrity(p) \/ Build(p) \/ Validate(p)
    <3>1. ckptLock' = ckptLock /\ pc[p] \notin Outside
      BY <2>5 DEF AppendLine, BumpLoad, BumpWrite, Load, Store, Preview, Drift, MarkDrift, HighWater, Integrity,
                  Build, Validate, Outside
    <3> QED
      BY <1>3, <2>1, <3>1, HolderInside
  <2> QED
    BY <2>2, <2>3, <2>4, <2>5, CheckpointActions
<1> QED
  BY <1>1, <1>2, <1>3

\* Every step of a process keeps what it owns.
LEMMA OwnStep ==
    ASSUME Shape, NEW p \in Proc, Own(p), ProcNext(p) \/ Crash(p)
    PROVE  Shape' /\ Own(p)'
BY MovesKeep, CallsKeep, AppendLineKeeps, BumpWriteKeeps, WritersKeep, PreviewKeeps, BuildKeeps, CompleteKeeps,
   FinalizeKeeps, ComingsAndGoingsKeep DEF ProcNext

\* Whoever comes next to the lock finds the run as the last one left it.
LEMMA HandOver ==
    ASSUME NEW p \in Proc, NEW q \in Proc, Shape', Own(p)', pc'[p] \in Outside,
           Waits(q)', pc'[q] \in Outside, lock' = NoProc, ckptLock' = NoProc
    PROVE  Own(q)'
<1>1. NoProc \notin Proc
  BY ConstantsAssumption
<1>2. At(p)' = pc'[p] /\ At(q)' = pc'[q] /\ ~Unmarked(p)' /\ ~Unmarked(q)'
  BY DEF At, Outside, Unmarked
<1>3. Control(q)'
  BY <1>1, <1>2 DEF Control, Outside, Appending, Checkpointing
<1>4. Current(q)'
  BY DEF Own, Current, Outside, Waits
<1>5. HighWaterMark(q)' /\ Materialized(q)'
  BY <1>1, <1>2 DEF Own, HighWaterMark, Materialized, Outside, Validating
<1>6. Answered(q)'
  BY <1>2 DEF Own, Answered, Outside, Validating
<1> QED
  BY <1>3, <1>4, <1>5, <1>6 DEF Own

\* A step of the process that has or takes the lock.
LEMMA HolderStep ==
    ASSUME OnlyCheckpoints, Serial, NEW p \in Proc, ProcNext(p) \/ Crash(p), ckptLock \in {NoProc, p}
    PROVE  Serial'
<1>1. Shape /\ Own(p) /\ Waits(p) /\ lock \in {NoProc, p} /\ NoProc \notin Proc
  BY ConstantsAssumption DEF Serial
<1>2. Shape' /\ Own(p)'
  BY <1>1, OwnStep
<1>3. /\ Len(events) <= Len(events') /\ Len(events) \in Nat /\ Len(events') \in Nat
      /\ lock' \in {NoProc, p} /\ ckptLock' \in {NoProc, p}
      /\ ckptLock' = NoProc => pc'[p] \in Outside
  BY <1>1, <1>2, LocksNest DEF Shape
<1>4. lock' \in {NoProc, ckptLock'}
  <2>1. pc'[p] \in Outside => lock' # p
    BY <1>2 DEF Own, Control, Outside, Appending
  <2> QED
    BY <1>3, <2>1
<1>5. Waits(p)'
  BY <1>1, <1>2, <1>3, WorkKept DEF Waits, Own, Current
<1>6. ASSUME NEW q \in Proc, q # p PROVE Waits(q)' /\ pc'[q] \in Outside
  <2>1. Waits(q) /\ pc[q] \in Outside
    BY <1>1, <1>6 DEF Serial, Waits
  <2>2. pc'[q] = pc[q] /\ job'[q] = job[q]
    BY <1>1, <1>6, OthersKept
  <2>3. job[q].appended \in Nat /\ job[q].base \in Nat
    BY <1>1, Fields DEF Shape
  <2> QED
    BY <1>3, <2>1, <2>2, <2>3 DEF Waits
<1>7. ASSUME NEW q \in Proc, ckptLock' \in {NoProc, q} PROVE Own(q)'
  <2>1. CASE q = p
    BY <1>2, <2>1
  <2>2. CASE q # p
    BY <1>1, <1>2, <1>3, <1>4, <1>6, <1>7, <2>2, HandOver
  <2> QED
    BY <2>1, <2>2
<1> QED
  BY <1>2, <1>4, <1>5, <1>6, <1>7 DEF Serial

\* Meanwhile the others only come and go, and write nothing.
LEMMA WaiterWrites ==
    ASSUME OnlyCheckpoints, Serial, NEW p \in Proc, ProcNext(p) \/ Crash(p), ckptLock \notin {NoProc, p}
    PROVE  /\ Begin(p) \/ Recover(p) \/ LockTimeout(p) \/ Exit(p) \/ Crash(p)
           /\ UNCHANGED <<files, ckptLock, shipped, released>>
<1>1. PICK h \in Proc : ckptLock = h
  BY DEF Serial, Shape
<1>2. Shape /\ Own(h) /\ Waits(p) /\ lock # p /\ h # p /\ NoProc \notin Proc
  BY <1>1, ConstantsAssumption DEF Serial
<1>3. pc[p] \in Outside /\ (pc[p] # "idle" => job[p].work = "checkpoint")
  BY <1>1, <1>2 DEF Waits
<1>4. Begin(p) \/ Recover(p) \/ LockTimeout(p) \/ Exit(p) \/ Crash(p)
  BY <1>1, <1>2, <1>3
  DEF ProcNext, Outside, AppendLine, BumpLoad, BumpWrite, Record, Refresh, MarkLoad, MarkWrite, StartCheckpoint,
      Load, Store, Preview, Drift, MarkDrift, HighWater, Integrity, Build, Raise, Validate, Complete,
      Finalize, Stage, ValidateCommand, Gate, RecordExport, Ship, StopRequested, StopStale, StopDecision
<1>5. CASE Recover(p)
  <2>1. ~Broken(events) /\ state.sequence = Len(events)
    BY <1>2, <1>5, ConstantsAssumption DEF Recover, Own, Control, Current, Appending, Broken
  <2> QED
    BY <1>5, <2>1 DEF Recover, files
<1>6. CASE Begin(p) \/ LockTimeout(p) \/ Exit(p) \/ Crash(p)
  BY <1>1, <1>2, <1>6 DEF Begin, LockTimeout, Exit, Crash
<1> QED
  BY <1>4, <1>5, <1>6

\* Nothing of what the holder has is theirs to change.
LEMMA WaiterStep ==
    ASSUME OnlyCheckpoints, Serial, NEW p \in Proc, ProcNext(p) \/ Crash(p), ckptLock \notin {NoProc, p}
    PROVE  Serial'
<1>1. PICK h \in Proc : ckptLock = h
  BY DEF Serial, Shape
<1>2. Shape /\ Own(h) /\ Waits(p) /\ lock # p /\ h # p /\ NoProc \notin Proc
  BY <1>1, ConstantsAssumption DEF Serial
<1>3. pc[p] \in Outside /\ (pc[p] # "idle" => job[p].work = "checkpoint")
  BY <1>1, <1>2 DEF Waits
<1>4. /\ Begin(p) \/ Recover(p) \/ LockTimeout(p) \/ Exit(p) \/ Crash(p)
      /\ UNCHANGED <<files, ckptLock, shipped, released>>
  BY WaiterWrites
<1>5. CASE Recover(p) \/ LockTimeout(p)
  <2>1. UNCHANGED <<files, lock, ckptLock, job, reg, shipped, released>> /\ version' = version
    BY <1>4, <1>5 DEF Recover, LockTimeout, environment
  <2>2. PICK point \in {"ready", "exit"} : pc' = [pc EXCEPT ![p] = point]
    BY <1>5 DEF Recover, LockTimeout, Goto
  <2>3. pc[p] # "idle"
    BY <1>2, <1>3, <1>5 DEF Recover, LockTimeout
  <2>4. Shape'
    BY <1>2, <2>1, <2>2 DEF Shape, ControlPoints, files
  <2>5. Own(h)'
    BY <1>2, <2>1, <2>2, Undisturbed DEF Shape
  <2>6. \A q \in Proc : Waits(q)'
    BY <1>2, <2>1, <2>2, <2>3 DEF Serial, Waits, Outside, Shape, files
  <2> QED
    BY <1>1, <1>2, <2>1, <2>4, <2>5, <2>6 DEF Serial
<1>6. CASE Begin(p) \/ Exit(p) \/ Crash(p)
  <2>1. /\ Shape' /\ pc'[p] \in {"idle", "recover"} /\ job'[p].base = 0 /\ job'[p].appended = 0
        /\ UNCHANGED <<files, shipped, released>> /\ lock' = lock /\ ckptLock' = ckptLock
    BY <1>1, <1>2, <1>4, <1>6, ComingsAndGoings DEF Begin, Exit, Crash
  <2>2. \A q \in Proc : q # p => pc'[q] = pc[q] /\ job'[q] = job[q] /\ reg'[q] = reg[q]
    BY <1>2, OthersKept
  <2>3. Own(h)'
    BY <1>2, <2>1, <2>2, Undisturbed
  <2>4. pc'[p] # "idle" => job'[p].work = "checkpoint"
    BY <1>2, <1>6, WorkBegun
  <2>5. \A q \in Proc : Waits(q)'
    BY <1>2, <2>1, <2>2, <2>4 DEF Serial, Waits, Outside, Shape, files
  <2> QED
    BY <1>1, <1>2, <2>1, <2>3, <2>5 DEF Serial
<1> QED
  BY <1>4, <1>5, <1>6

\* The run starts with nobody holding anything.
LEMMA InitSerial == Init => Serial
<1> SUFFICES ASSUME Init PROVE Serial
  OBVIOUS
<1>1. Shape /\ \A q \in Proc : Own(q)
  BY InitInv DEF Inv
<1>2. lock = NoProc
  BY DEF Init
<1>3. \A q \in Proc : Waits(q)
  BY <1>1 DEF Init, Waits, Outside, Own, Current
<1> QED
  BY <1>1, <1>2, <1>3 DEF Serial

\* Every step keeps the holder alone.
LEMMA SerialStep == ASSUME OnlyCheckpoints, Serial, [Next]_vars PROVE Serial'
<1>1. CASE Upgrade \/ ChangeOutput \/ UNCHANGED vars
  <2>1. UNCHANGED <<files, lock, ckptLock, pc, job, reg, shipped, released>> /\ version' \in Nat
    BY <1>1 DEF Serial, Shape, Upgrade, ChangeOutput, vars, environment
  <2>2. Shape'
    BY <2>1 DEF Serial, Shape, files
  <2>3. \A q \in Proc : Own(q) => Own(q)'
    BY <2>1, Undisturbed
  <2>4. \A q \in Proc : Waits(q)'
    BY <2>1 DEF Serial, Waits, files
  <2> QED
    BY <2>1, <2>2, <2>3, <2>4 DEF Serial
<1>2. ASSUME NEW p \in Proc, ProcNext(p) \/ Crash(p) PROVE Serial'
  BY <1>2, HolderStep, WaiterStep
<1> QED
  BY <1>1, <1>2 DEF Next, Done

\* checkpoint.lock keeps any number of checkpoints apart, whatever the kills.
THEOREM CheckpointsAreSerial == ASSUME OnlyCheckpoints PROVE Spec => []Serial
<1>1. Serial /\ [Next]_vars => Serial'
  BY SerialStep
<1> QED
  BY <1>1, InitSerial, PTL DEF Spec

-----------------------------------------------------------------------------
(* What one process keeps, many keep that only checkpoint.                    *)

\* A run that is not dirty has every provenance event in its crate on disk, though
\* several processes checkpoint it.
THEOREM ConcurrentCheckpointsMaterialize == ASSUME OnlyCheckpoints PROVE Spec => []FreshIsMaterialized
<1>1. ASSUME Serial, Quiet PROVE FreshIsMaterialized
  <2>1. PICK p \in Proc : Own(p)
    BY <1>1 DEF OnlyCheckpoints, Serial, Quiet
  <2> QED
    BY <1>1, <2>1, OwnsFresh DEF Serial
<1>2. Serial => FreshIsMaterialized
  BY <1>1 DEF FreshIsMaterialized
<1> QED
  BY <1>2, CheckpointsAreSerial, PTL

\* The last checkpoint never goes back, though several processes write it.
THEOREM ConcurrentCheckpointsAdvance == ASSUME OnlyCheckpoints PROVE Spec => CheckpointNeverRegresses
<1>1. Serial /\ [Next]_vars => [Advances]_state
  <2> SUFFICES ASSUME Serial, Next, state' # state PROVE Advances
    BY DEF vars, files
  <2>1. PICK p \in Proc : ProcNext(p) \/ Crash(p)
    BY DEF Next, Done, Upgrade, ChangeOutput, vars, files
  <2>2. CASE ckptLock \in {NoProc, p}
    BY <2>1, <2>2, OwnsAdvance DEF Serial
  <2>3. CASE ckptLock \notin {NoProc, p}
    BY <2>1, <2>3, WaiterWrites DEF files
  <2> QED
    BY <2>2, <2>3
<1> QED
  BY <1>1, CheckpointsAreSerial, PTL DEF Spec, CheckpointNeverRegresses, Advances

\* dirty is false only after a validation that passed, of a crate that covers every
\* provenance event, though several processes checkpoint and validate it.
THEOREM ConcurrentCheckpointsAreValidated ==
    ASSUME OnlyCheckpoints, VerdictIsRecorded PROVE Spec => []FreshIsValidated
<1> DEFINE VInv == Serial /\ \A q \in Proc : ckptLock \in {NoProc, q} => Validated(q)
<1>1. Init => VInv
  <2> SUFFICES ASSUME Init PROVE VInv
    OBVIOUS
  <2>1. state.dirty
    BY DEF Init
  <2> QED
    BY <2>1, InitSerial DEF Validated
<1>2. ASSUME VInv, NEW p \in Proc, ProcNext(p) \/ Crash(p), NEW q \in Proc, ckptLock' \in {NoProc, q}
      PROVE  Validated(q)'
  <2>1. CASE ckptLock \in {NoProc, p}
    <3>1. Shape /\ Own(p) /\ Waits(p) /\ Validated(p) /\ lock \in {NoProc, p}
      BY <1>2, <2>1 DEF Serial
    <3>2. Validated(p)' /\ (ckptLock' = NoProc => pc'[p] \in Outside) /\ ckptLock' \in {NoProc, p}
      BY <1>2, <2>1, <3>1, OwnsValidated, LocksNest
    <3>3. CASE q # p
      <4>1. pc'[p] \in Outside
        BY <1>2, <3>2, <3>3, ConstantsAssumption
      <4> QED
        BY <3>2, <4>1 DEF Validated, Unmarked, Outside
    <3> QED
      BY <3>2, <3>3
  <2>2. CASE ckptLock \notin {NoProc, p}
    <3>1. UNCHANGED <<files, ckptLock>>
      BY <1>2, <2>2, WaiterWrites
    <3>2. q # p /\ Validated(q) /\ Shape
      BY <1>2, <2>2, <3>1 DEF Serial, Shape
    <3>3. pc'[q] = pc[q] /\ job'[q] = job[q]
      BY <1>2, <3>2, OthersKept
    <3> QED
      BY <3>1, <3>2, <3>3 DEF Validated, Unmarked, Covered, files
  <2> QED
    BY <2>1, <2>2
<1>3. ASSUME VInv, Upgrade \/ ChangeOutput \/ UNCHANGED vars, NEW q \in Proc, ckptLock' \in {NoProc, q}
      PROVE  Validated(q)'
  <2>1. UNCHANGED <<events, state, ckptLock, pc, job>>
    BY <1>3 DEF Upgrade, ChangeOutput, vars, files
  <2> QED
    BY <1>3, <2>1 DEF Validated, Unmarked, Covered
<1>4. VInv /\ [Next]_vars => VInv'
  BY <1>2, <1>3, SerialStep DEF Next, Done
<1>5. ASSUME VInv, Quiet PROVE FreshIsValidated
  <2>1. PICK p \in Proc : Own(p) /\ Validated(p)
    BY <1>5 DEF OnlyCheckpoints, Serial, Quiet
  <2> QED
    BY <1>5, <2>1, OwnsVerdict DEF Serial
<1>6. VInv => FreshIsValidated
  BY <1>5 DEF FreshIsValidated
<1> QED
  BY <1>1, <1>4, <1>6, PTL DEF Spec
=============================================================================
