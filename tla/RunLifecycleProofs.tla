------------------------- MODULE RunLifecycleProofs -------------------------
(***************************************************************************)
(* Proofs about module RunLifecycle, for any processes, names and scripts  *)
(* of commands.                                                            *)
(***************************************************************************)
EXTENDS RunLifecycle, SequenceTheorems, FiniteSetTheorems, TLAPS

-----------------------------------------------------------------------------
(* Types. *)

Labels == Names \cup {NoName}

\* The jobs that create a run, in their order: those of _archive_closed_run, then those
\* of _bootstrap_run up to the run's first event.
Creating == <<"events.ndjson", "state.json", "id-map.json", "ro-crate",
              "write_state", "write_id_map", "run.started">>

CreatingWords == Files \cup {"write_state", "write_id_map", "run.started"}

PlainWords ==
    {"environment.observed", "crate.checkpoint.started", "build", "crate.checkpoint.completed",
     "mark_checkpoint", "crate.checkpoint.failed", "recover", "session.started",
     "resume_if_active", "run.resumed", "human.note", "run.aborted",
     "workflow.phase.started", "workflow.phase.completed", "set_phase", "clear_phase",
     "workflow.step.started", "workflow.step.completed", "set_step", "clear_step",
     "workflow.input.declared", "set_declared", "gate", "run.finalized", "crate.finalized",
     "run.export.blocked", "save_state", "workflow.profile.selected", "tool.requested"}

EventTypes == PlainWords \cup {"run.started", "journal.repair.failed", "journal.repair.started",
                               "journal.repair.completed"}

Flags == BOOLEAN

Jobs == [job : CreatingWords \cup PlainWords, name : Labels]

Events == [run : Nat, sequence : Nat, event_hash : Nat, previous_event_hash : Nat,
           event_type : EventTypes, name : Labels]

States == [run : Nat, sequence : Nat, last_event_hash : Nat, phase : Labels, step : Labels,
           declared : SUBSET Labels, checkpointed : Flags]

Dirs == [events : Seq(Events), state : States, idMap : Nat, crate : Nat]

TypeOK ==
    /\ events \in Seq(Events)
    /\ state \in States
    /\ idMap \in Nat
    /\ crate \in Nat
    /\ archive \in Seq(Dirs)
    /\ pc \in [Proc -> {"idle", "ready", "busy"}]
    /\ todo \in [Proc -> Seq(Jobs)]
    /\ lock \in Proc \cup {NoProc}
    /\ reg \in [Proc -> States]
    /\ ran \in [Proc -> Nat]
    /\ runs \in Nat
    /\ minted \in Nat
    /\ undone \in SUBSET Nat

-----------------------------------------------------------------------------
(* The inductive invariant. *)

\* The remaining jobs create a run from the k-th of Creating on and then do plain jobs;
\* from stage 8 on they only do plain ones.
At(jobs, k) ==
    /\ Len(jobs) >= 8 - k
    /\ \A i \in 1 .. Len(jobs) :
         IF i <= 8 - k THEN jobs[i].job = Creating[k + i - 1] ELSE jobs[i].job \in PlainWords

EmptyDir == [events |-> <<>>, state |-> NoFile, idMap |-> NoRun, crate |-> NoRun]

\* Every process is somewhere in the creation of a run or past it.
Staged == \A p \in Proc :
    /\ \E k \in 1 .. 8 : At(todo[p], k)
    /\ todo[p] = <<>> <=> pc[p] # "busy"

\* Whoever creates a run is alone, and nobody works without one.
Lone == \A p \in Proc :
    /\ ~At(todo[p], 8) => \A q \in Proc \ {p} : pc[q] = "idle"
    /\ state = NoFile => pc[p] = "idle" \/ ~At(todo[p], 8)

\* The archiving fills a directory that is empty when it begins.
FreshDir == \A p \in Proc :
    /\ \A k \in 1 .. 4 : At(todo[p], k) => archive # <<>>
    /\ At(todo[p], 1) => archive[Len(archive)] = EmptyDir

\* The state file written is the newest run's.
RunNumbers == IF state = NoFile THEN TRUE ELSE state.run \in 1 .. runs

Minted(log, m) == \A i \in 1 .. Len(log) : log[i].event_hash \in 1 .. m

Distinct(log) == \A i, j \in 1 .. Len(log) : log[i].event_hash = log[j].event_hash => i = j

Has(log, hash) == \E i \in 1 .. Len(log) : log[i].event_hash = hash

Kept == \A hash \in 1 .. minted :
    Has(events, hash) \/ \E i \in 1 .. Len(archive) : Has(archive[i].events, hash)

\* Who holds the lock is in an append whose line is written, or has loaded the state it
\* updates; who has loaded the state is about to save it or holds the lock.  What was
\* loaded is the state of the run in place.
HeldOf(p) ==
    /\ lock = p => /\ todo[p] # <<>> /\ state # NoFile
                   /\ \/ Head(todo[p]).job \notin Steps /\ events # <<>>
                      \/ Head(todo[p]).job \in Updates /\ reg[p] # NoFile
    /\ reg[p] # NoFile => /\ todo[p] # <<>> /\ state # NoFile /\ reg[p].run = state.run
                          /\ lock = p \/ Head(todo[p]).job \in Saves

Held == \A p \in Proc : HeldOf(p)

OrderInv == TypeOK /\ Staged /\ Lone /\ FreshDir /\ RunNumbers /\ Held
HashInv == Minted(events, minted) /\ Distinct(events) /\ Kept

-----------------------------------------------------------------------------
(* What the disk holds at each stage. *)

SafelyKilled ==
    KillBefore \cap {"state.json", "id-map.json", "ro-crate", "write_id_map", "run.started"} = {}

Terminal(log) == Types(log) \cap RunTerminalEvents # {}

\* What JournalOf says of the journal alone.
Numbered(log, run) ==
    /\ Linked(log)
    /\ \A i \in 1 .. Len(log) : log[i].run = run /\ log[i].sequence = i
    /\ log # <<>> => log[1].event_type = "run.started"

\* The journal log of the run s describes, the chain unbroken but in the runs lost.
Chain(log, s, lost) == OfRun(log, s.run) /\ (s.run \notin lost => JournalOf(log, s))

\* A directory of the archive that holds one whole run, or nothing.
Whole(dir, lost) == dir.events # <<>> =>
    /\ Chain(dir.events, dir.state, lost)
    /\ Terminal(dir.events)
    /\ dir.idMap = dir.state.run
    /\ dir.crate \in {NoRun, dir.state.run}

\* An append has written its line and not yet the state.
Midway == \E p \in Proc : lock = p /\ Head(todo[p]).job \notin Steps

\* The files of one run, after its first event.
Sound ==
    /\ events # <<>> /\ OfRun(events, state.run)
    /\ state.run \notin undone =>
         IF Midway THEN Numbered(events, state.run) ELSE JournalOf(events, state)
    /\ idMap = state.run
    /\ crate \in {NoRun, state.run}
    /\ state.checkpointed => crate = state.run

\* No files.
Bare == events = <<>> /\ crate = NoRun

Last == archive[Len(archive)]

DiskAt(k) ==
    /\ k = 1 => state # NoFile /\ Sound /\ Terminal(events)
    /\ k \in 2 .. 4 => events = <<>> /\ archive # <<>>
    /\ k = 2 => /\ state # NoFile
                /\ Last.events # <<>> /\ Chain(Last.events, state, undone) /\ Terminal(Last.events)
                /\ idMap = state.run /\ crate \in {NoRun, state.run}
    /\ k \in 3 .. 4 => /\ state = NoFile
                       /\ Last.events # <<>> /\ Chain(Last.events, Last.state, undone)
                       /\ Terminal(Last.events)
                       /\ crate \in {NoRun, Last.state.run}
    /\ k = 3 => idMap = Last.state.run
    /\ k = 4 => Last.idMap = Last.state.run
    /\ k = 5 => Bare /\ state = NoFile
    /\ k \in 6 .. 7 => crate = NoRun /\ state = NewState(state.run) /\ state # NoFile
    /\ k = 6 => events = <<>>
    /\ k = 7 => /\ idMap = state.run
                /\ IF Midway THEN events # <<>> /\ Numbered(events, state.run)
                   ELSE events = <<>>

DiskInv == \A p \in Proc : \A k \in 1 .. 7 : At(todo[p], k) => DiskAt(k)

RestInv == (\A p \in Proc : At(todo[p], 8)) =>
    IF state = NoFile THEN Bare ELSE Sound

ArchiveInv ==
    /\ \A i \in 1 .. Len(archive) : i # Len(archive) => Whole(archive[i], undone)
    /\ (\A p \in Proc : \A k \in 2 .. 4 : ~At(todo[p], k)) => \A i \in 1 .. Len(archive) : Whole(archive[i], undone)

\* Two states that tell the same of the run, the mark of its checkpoint aside.
Agree(r, s) ==
    /\ r.run = s.run /\ r.sequence = s.sequence /\ r.last_event_hash = s.last_event_hash
    /\ r.phase = s.phase /\ r.step = s.step /\ r.declared = s.declared

\* What the holder of the lock has loaded is what is there still, and nobody will write
\* back the mark of a checkpoint whose crate is not there.
RegOf(p) ==
    /\ lock = p /\ reg[p] # NoFile /\ state.run \notin undone => Agree(reg[p], state)
    /\ reg[p] # NoFile /\ reg[p].checkpointed => crate = state.run

RegInv == \A p \in Proc : RegOf(p)

\* A command that builds marks the checkpoint after it; one that has built has the crate
\* in place.
BuildsFirst(jobs) == \A i \in 1 .. Len(jobs) :
    jobs[i].job = "mark_checkpoint" => \E j \in 1 .. i - 1 : jobs[j].job = "build"

MarkInv == \A p \in Proc : BuildsFirst(todo[p]) \/ (At(todo[p], 8) /\ crate = state.run)

FileInv == DiskInv /\ RestInv /\ ArchiveInv /\ MarkInv /\ RegInv

-----------------------------------------------------------------------------
(* Sequences of jobs. *)

USE DEF NoRun, NoHash

\* The words of the jobs.
LEMMA Words ==
    /\ \A k \in 1 .. 7 : Creating[k] \in CreatingWords
    /\ CreatingWords \cap PlainWords = {}
    /\ CreatingWords = {"events.ndjson", "state.json", "id-map.json", "ro-crate",
                        "write_state", "write_id_map", "run.started"}
    /\ \A k, l \in 1 .. 7 : Creating[k] = Creating[l] => k = l
    /\ Creating[1] = "events.ndjson" /\ Creating[2] = "state.json"
    /\ Creating[3] = "id-map.json" /\ Creating[4] = "ro-crate"
    /\ Creating[5] = "write_state" /\ Creating[6] = "write_id_map" /\ Creating[7] = "run.started"
<1>1. CreatingWords = {"events.ndjson", "state.json", "id-map.json", "ro-crate",
                       "write_state", "write_id_map", "run.started"}
  BY DEF CreatingWords, Files
<1>2. CreatingWords \cap PlainWords = {}
  BY <1>1 DEF PlainWords
<1>3. /\ Creating[1] = "events.ndjson" /\ Creating[2] = "state.json"
      /\ Creating[3] = "id-map.json" /\ Creating[4] = "ro-crate"
      /\ Creating[5] = "write_state" /\ Creating[6] = "write_id_map" /\ Creating[7] = "run.started"
  BY DEF Creating
<1>4. \A k \in 1 .. 7 : k = 1 \/ k = 2 \/ k = 3 \/ k = 4 \/ k = 5 \/ k = 6 \/ k = 7
  OBVIOUS
<1>5. \A k \in 1 .. 7 : Creating[k] \in CreatingWords
  BY <1>1, <1>3, <1>4
<1>6. \A k, l \in 1 .. 7 : Creating[k] = Creating[l] => k = l
  BY <1>3, <1>4
<1> QED
  BY <1>1, <1>2, <1>3, <1>5, <1>6

\* The parts of a command that has jobs left.
LEMMA JobsLeft ==
    ASSUME NEW jobs \in Seq(Jobs), jobs # <<>>
    PROVE  /\ Len(jobs) \in Nat \ {0}
           /\ Head(jobs) = jobs[1] /\ Head(jobs) \in Jobs
           /\ Tail(jobs) \in Seq(Jobs) /\ Len(Tail(jobs)) = Len(jobs) - 1
           /\ \A i \in 1 .. Len(Tail(jobs)) : Tail(jobs)[i] = jobs[i + 1]
           /\ Head(jobs).job \in CreatingWords \cup PlainWords /\ Head(jobs).name \in Labels
<1>1. Len(jobs) \in Nat \ {0}
  BY EmptySeq
<1>2. Head(jobs) = jobs[1]
  OBVIOUS
<1>3. /\ Tail(jobs) \in Seq(Jobs) /\ Len(Tail(jobs)) = Len(jobs) - 1 /\ Head(jobs) \in Jobs
      /\ \A i \in 1 .. Len(Tail(jobs)) : Tail(jobs)[i] = jobs[i + 1]
  BY HeadTailProperties
<1> QED
  BY <1>1, <1>2, <1>3 DEF Jobs

\* A command is at one stage only, its next job is that stage's, and then it is one
\* stage on.
LEMMA StageStep ==
    ASSUME NEW jobs \in Seq(Jobs), jobs # <<>>, NEW k \in 1 .. 8, At(jobs, k)
    PROVE  /\ k < 8 => Head(jobs).job = Creating[k]
           /\ k = 8 => Head(jobs).job \in PlainWords
           /\ At(Tail(jobs), IF k < 8 THEN k + 1 ELSE 8)
<1>1. /\ Len(jobs) \in Nat \ {0} /\ Head(jobs) = jobs[1]
      /\ Tail(jobs) \in Seq(Jobs) /\ Len(Tail(jobs)) = Len(jobs) - 1
      /\ \A i \in 1 .. Len(Tail(jobs)) : Tail(jobs)[i] = jobs[i + 1]
  BY JobsLeft
<1>2. 1 \in 1 .. Len(jobs)
  BY <1>1
<1>3. /\ k < 8 => Head(jobs).job = Creating[k]
      /\ k = 8 => Head(jobs).job \in PlainWords
  BY <1>1, <1>2 DEF At
<1>4. CASE k < 8
  <2>1. Len(Tail(jobs)) >= 8 - (k + 1)
    BY <1>1, <1>4 DEF At
  <2>2. ASSUME NEW i \in 1 .. Len(Tail(jobs))
        PROVE  IF i <= 8 - (k + 1) THEN Tail(jobs)[i].job = Creating[(k + 1) + i - 1]
                                   ELSE Tail(jobs)[i].job \in PlainWords
    <3>1. i + 1 \in 1 .. Len(jobs) /\ Tail(jobs)[i] = jobs[i + 1]
      BY <1>1
    <3>2. IF i + 1 <= 8 - k THEN jobs[i + 1].job = Creating[k + (i + 1) - 1]
                            ELSE jobs[i + 1].job \in PlainWords
      BY <3>1 DEF At
    <3>3. k + (i + 1) - 1 = (k + 1) + i - 1 /\ (i + 1 <= 8 - k <=> i <= 8 - (k + 1))
      OBVIOUS
    <3> QED
      BY <3>1, <3>2, <3>3
  <2>3. At(Tail(jobs), k + 1)
    BY <2>1, <2>2 DEF At
  <2> QED
    BY <1>3, <1>4, <2>3
<1>5. CASE k = 8
  <2>1. \A i \in 1 .. Len(Tail(jobs)) : Tail(jobs)[i].job \in PlainWords
    <3>1. \A i \in 1 .. Len(Tail(jobs)) : i + 1 \in 1 .. Len(jobs) /\ ~(i + 1 <= 8 - k)
      BY <1>1, <1>5
    <3> QED
      BY <1>1, <3>1 DEF At
  <2>2. At(Tail(jobs), 8)
    BY <1>1, <2>1 DEF At
  <2> QED
    BY <1>3, <1>5, <2>2
<1> QED
  BY <1>4, <1>5

\* A command is at one stage only.
LEMMA OneStage ==
    ASSUME NEW jobs \in Seq(Jobs), NEW k \in 1 .. 8, NEW l \in 1 .. 8, At(jobs, k), At(jobs, l)
    PROVE  k = l
<1>1. CASE jobs = <<>>
  <2>1. Len(jobs) = 0
    BY <1>1, EmptySeq
  <2> QED
    BY <2>1 DEF At
<1>2. CASE jobs # <<>>
  BY <1>2, StageStep, Words
<1> QED
  BY <1>1, <1>2

\* A command without jobs left, and one with plain jobs only.
LEMMA NoJobs == At(<<>>, 8) /\ \A k \in 1 .. 7 : ~At(<<>>, k)
<1>1. Len(<<>>) = 0
  BY EmptySeq
<1> QED
  BY <1>1 DEF At

\* A command is past the creation when its jobs are plain.
LEMMA PlainStage ==
    ASSUME NEW jobs \in Seq(Jobs)
    PROVE  At(jobs, 8) <=> \A i \in 1 .. Len(jobs) : jobs[i].job \in PlainWords
<1>1. Len(jobs) \in Nat
  BY LenProperties
<1> QED
  BY <1>1 DEF At

\* Plain jobs after a command's jobs leave its stage.
LEMMA StageConcat ==
    ASSUME NEW jobs \in Seq(Jobs), NEW rest \in Seq(Jobs), NEW k \in 1 .. 8,
           At(jobs, k), At(rest, 8)
    PROVE  jobs \o rest \in Seq(Jobs) /\ At(jobs \o rest, k)
<1>1. /\ jobs \o rest \in Seq(Jobs)
      /\ Len(jobs \o rest) = Len(jobs) + Len(rest)
      /\ \A i \in 1 .. Len(jobs) + Len(rest) : (jobs \o rest)[i] =
           IF i <= Len(jobs) THEN jobs[i] ELSE rest[i - Len(jobs)]
  BY ConcatProperties
<1>2. Len(jobs) \in Nat /\ Len(rest) \in Nat /\ Len(jobs) >= 8 - k
  BY LenProperties DEF At
<1>3. ASSUME NEW i \in 1 .. Len(jobs \o rest)
      PROVE  IF i <= 8 - k THEN (jobs \o rest)[i].job = Creating[k + i - 1]
                           ELSE (jobs \o rest)[i].job \in PlainWords
  <2>1. CASE i <= Len(jobs)
    BY <1>1, <1>2, <2>1 DEF At
  <2>2. CASE ~(i <= Len(jobs))
    <3>1. i - Len(jobs) \in 1 .. Len(rest) /\ (jobs \o rest)[i] = rest[i - Len(jobs)]
      BY <1>1, <1>2, <2>2
    <3> QED
      BY <1>2, <2>2, <3>1, PlainStage
  <2> QED
    BY <2>1, <2>2
<1> QED
  BY <1>1, <1>2, <1>3 DEF At

\* A job of a known word and a label.
LEMMA JobType ==
    ASSUME NEW word \in CreatingWords \cup PlainWords, NEW name \in Labels
    PROVE  /\ DoWith(word, name) \in Jobs
           /\ DoWith(word, name).job = word /\ DoWith(word, name).name = name
BY DEF DoWith, Jobs

\* A job about no name.
LEMMA DoType ==
    ASSUME NEW word \in CreatingWords \cup PlainWords
    PROVE  Do(word) \in Jobs /\ Do(word).job = word /\ Do(word).name = NoName
BY DEF Do, Jobs, Labels

\* Commands of one to four plain jobs.
LEMMA PlainJobs ==
    ASSUME NEW a \in Jobs, NEW b \in Jobs, NEW c \in Jobs, NEW d \in Jobs,
           a.job \in PlainWords, b.job \in PlainWords, c.job \in PlainWords, d.job \in PlainWords
    PROVE  /\ <<a>> \in Seq(Jobs) /\ At(<<a>>, 8)
           /\ <<a, b>> \in Seq(Jobs) /\ At(<<a, b>>, 8)
           /\ <<a, b, c>> \in Seq(Jobs) /\ At(<<a, b, c>>, 8)
           /\ <<a, b, c, d>> \in Seq(Jobs) /\ At(<<a, b, c, d>>, 8)
<1>1. <<a>> \in Seq(Jobs) /\ At(<<a>>, 8)
  BY PlainStage
<1>2. <<a, b>> \in Seq(Jobs) /\ At(<<a, b>>, 8)
  <2> DEFINE jobs == <<a, b>>
  <2>1. jobs \in Seq(Jobs) /\ Len(jobs) = 2
    OBVIOUS
  <2>2. jobs[1] = a /\ jobs[2] = b
    OBVIOUS
  <2>3. \A i \in 1 .. 2 : i = 1 \/ i = 2
    OBVIOUS
  <2> HIDE DEF jobs
  <2>4. jobs \in Seq(Jobs) /\ At(jobs, 8)
    BY <2>1, <2>2, <2>3, PlainStage
  <2> QED
    BY <2>4 DEF jobs
<1>3. <<a, b, c>> \in Seq(Jobs) /\ At(<<a, b, c>>, 8)
  <2> DEFINE jobs == <<a, b, c>>
  <2>1. jobs \in Seq(Jobs) /\ Len(jobs) = 3
    OBVIOUS
  <2>2. jobs[1] = a /\ jobs[2] = b /\ jobs[3] = c
    OBVIOUS
  <2>3. \A i \in 1 .. 3 : i = 1 \/ i = 2 \/ i = 3
    OBVIOUS
  <2> HIDE DEF jobs
  <2>4. jobs \in Seq(Jobs) /\ At(jobs, 8)
    BY <2>1, <2>2, <2>3, PlainStage
  <2> QED
    BY <2>4 DEF jobs
<1>4. <<a, b, c, d>> \in Seq(Jobs) /\ At(<<a, b, c, d>>, 8)
  <2> DEFINE jobs == <<a, b, c, d>>
  <2>1. jobs \in Seq(Jobs) /\ Len(jobs) = 4
    OBVIOUS
  <2>2. jobs[1] = a /\ jobs[2] = b /\ jobs[3] = c /\ jobs[4] = d
    OBVIOUS
  <2>3. \A i \in 1 .. 4 : i = 1 \/ i = 2 \/ i = 3 \/ i = 4
    OBVIOUS
  <2> HIDE DEF jobs
  <2>4. jobs \in Seq(Jobs) /\ At(jobs, 8)
    BY <2>1, <2>2, <2>3, PlainStage
  <2> QED
    BY <2>4 DEF jobs
<1> QED
  BY <1>1, <1>2, <1>3, <1>4

\* The parts commands are made of.
LEMMA Parts ==
    /\ <<>> \in Seq(Jobs) /\ At(<<>>, 8) /\ BuildsFirst(<<>>)
    /\ BootstrapJobs \in Seq(Jobs) /\ At(BootstrapJobs, 5)
    /\ ArchiveJobs \o BootstrapJobs \in Seq(Jobs) /\ At(ArchiveJobs \o BootstrapJobs, 1)
    /\ BootstrapJobs # <<>>
<1>1. \A word \in CreatingWords \cup PlainWords :
        Do(word) \in Jobs /\ Do(word).job = word
  BY DoType
<1>2. <<>> \in Seq(Jobs) /\ At(<<>>, 8) /\ Len(<<>>) = 0
  BY NoJobs, EmptySeq
<1>3. BuildsFirst(<<>>)
  BY <1>2 DEF BuildsFirst
<1>7. /\ BootstrapJobs \in Seq(Jobs) /\ Len(BootstrapJobs) = 4
      /\ BootstrapJobs[1].job = "write_state" /\ BootstrapJobs[2].job = "write_id_map"
      /\ BootstrapJobs[3].job = "run.started" /\ BootstrapJobs[4].job = "environment.observed"
  BY <1>1, Words DEF BootstrapJobs, PlainWords
<1>8. At(BootstrapJobs, 5)
  <2>1. \A i \in 1 .. 4 : i = 1 \/ i = 2 \/ i = 3 \/ i = 4
    OBVIOUS
  <2>2. "environment.observed" \in PlainWords
    BY DEF PlainWords
  <2> QED
    BY <1>7, <2>1, <2>2, Words DEF At
<1>9. /\ ArchiveJobs \in Seq(Jobs) /\ Len(ArchiveJobs) = 4
      /\ ArchiveJobs[1].job = "events.ndjson" /\ ArchiveJobs[2].job = "state.json"
      /\ ArchiveJobs[3].job = "id-map.json" /\ ArchiveJobs[4].job = "ro-crate"
  BY <1>1, Words DEF ArchiveJobs
<1>10. ArchiveJobs \o BootstrapJobs \in Seq(Jobs) /\ At(ArchiveJobs \o BootstrapJobs, 1)
  <2> DEFINE all == ArchiveJobs \o BootstrapJobs
  <2>1. ArchiveJobs \in Seq(Jobs) /\ BootstrapJobs \in Seq(Jobs)
    BY <1>7, <1>9
  <2>2. /\ all \in Seq(Jobs) /\ Len(all) = Len(ArchiveJobs) + Len(BootstrapJobs)
        /\ \A i \in 1 .. Len(ArchiveJobs) + Len(BootstrapJobs) :
             all[i] = IF i <= Len(ArchiveJobs) THEN ArchiveJobs[i]
                      ELSE BootstrapJobs[i - Len(ArchiveJobs)]
    BY <2>1, ConcatProperties
  <2> HIDE DEF all
  <2>3. Len(ArchiveJobs) = 4 /\ Len(BootstrapJobs) = 4
    BY <1>7, <1>9
  <2>4. /\ Len(all) = 8
        /\ all[1] = ArchiveJobs[1] /\ all[2] = ArchiveJobs[2]
        /\ all[3] = ArchiveJobs[3] /\ all[4] = ArchiveJobs[4]
        /\ all[5] = BootstrapJobs[1] /\ all[6] = BootstrapJobs[2]
        /\ all[7] = BootstrapJobs[3] /\ all[8] = BootstrapJobs[4]
    BY <2>2, <2>3
  <2>5. \A i \in 1 .. 8 : i = 1 \/ i = 2 \/ i = 3 \/ i = 4 \/ i = 5 \/ i = 6 \/ i = 7 \/ i = 8
    OBVIOUS
  <2>6. "environment.observed" \in PlainWords
    BY DEF PlainWords
  <2>7. \A i \in 1 .. 8 : IF i <= 7 THEN all[i].job = Creating[i] ELSE all[i].job \in PlainWords
    BY <1>7, <1>9, <2>4, <2>5, <2>6, Words
  <2>8. At(all, 1)
    BY <2>4, <2>7 DEF At
  <2> QED
    BY <2>2, <2>8 DEF all
<1>11. BootstrapJobs # <<>>
  BY DEF BootstrapJobs
<1> QED
  BY <1>2, <1>3, <1>7, <1>8, <1>10, <1>11

\* Creates, as module RunLifecycle has it, in terms of stages.
LEMMA CreatesStage ==
    ASSUME NEW p \in Proc, TypeOK, \E k \in 1 .. 8 : At(todo[p], k)
    PROVE  Creates(p) <=> ~At(todo[p], 8)
<1>1. PICK k \in 1 .. 8 : At(todo[p], k)
  OBVIOUS
<1>2. todo[p] \in Seq(Jobs) /\ Len(todo[p]) \in Nat
  BY LenProperties DEF TypeOK
<1>3. Creates(p) <=> \E i \in 1 .. Len(todo[p]) : todo[p][i].job \in CreatingWords
  BY DEF Creates, CreatingWords
<1>4. CASE k = 8
  BY <1>1, <1>2, <1>3, <1>4, PlainStage, Words
<1>5. CASE k < 8
  <2>1. ~At(todo[p], 8)
    BY <1>1, <1>2, <1>5, OneStage
  <2>2. 1 \in 1 .. Len(todo[p]) /\ todo[p][1].job = Creating[k] /\ Creating[k] \in CreatingWords
    BY <1>1, <1>2, <1>5, Words DEF At
  <2> QED
    BY <1>3, <2>1, <2>2
<1> QED
  BY <1>4, <1>5

-----------------------------------------------------------------------------
(* The files. *)

\* What an append works on.
Disks == [log : Seq(Events), state : States, minted : Nat]

\* The fields of a state, and the states that differ from it.
LEMMA StateFields ==
    ASSUME NEW s \in States
    PROVE  /\ s.run \in Nat /\ s.sequence \in Nat /\ s.last_event_hash \in Nat
           /\ s.phase \in Labels /\ s.step \in Labels
           /\ s.declared \in SUBSET Labels /\ s.checkpointed \in Flags
BY DEF States

\* A state with a field changed is a state.
LEMMA StateChanges ==
    ASSUME NEW s \in States
    PROVE  /\ \A x \in Labels : [s EXCEPT !.phase = x] \in States /\ [s EXCEPT !.step = x] \in States
           /\ \A x \in SUBSET Labels : [s EXCEPT !.declared = x] \in States
           /\ \A x \in Flags : [s EXCEPT !.checkpointed = x] \in States
           /\ \A x, y \in Nat :
                [s EXCEPT !.sequence = x, !.last_event_hash = y] \in States
BY DEF States

\* The state of a new run, and that of none.
LEMMA NewStateFields ==
    ASSUME NEW run \in Nat
    PROVE  /\ NewState(run) \in States
           /\ NewState(run).run = run /\ NewState(run).sequence = 0
           /\ NewState(run).last_event_hash = NoHash
           /\ NewState(run).phase = NoName /\ NewState(run).step = NoName
           /\ NewState(run).declared = {}
           /\ ~NewState(run).checkpointed
BY DEF NewState, States, Labels, Flags

\* What state.json counts as when it does not exist.
LEMMA NoFileFields == NoFile \in States /\ NoFile.run = 0 /\ ~NoFile.checkpointed
BY NewStateFields DEF NoFile

\* The fields of the event an append writes.
LEMMA EntryFields ==
    ASSUME NEW s \in States, NEW hash \in Nat, NEW type \in EventTypes, NEW name \in Labels
    PROVE  /\ Entry(s, hash, type, name) \in Events
           /\ Entry(s, hash, type, name).run = s.run
           /\ Entry(s, hash, type, name).sequence = s.sequence + 1
           /\ Entry(s, hash, type, name).event_hash = hash
           /\ Entry(s, hash, type, name).previous_event_hash = s.last_event_hash
           /\ Entry(s, hash, type, name).event_type = type
           /\ Entry(s, hash, type, name).name = name
<1> DEFINE e == Entry(s, hash, type, name)
<1>1. /\ e = [run |-> s.run, sequence |-> s.sequence + 1, event_hash |-> hash,
             previous_event_hash |-> s.last_event_hash, event_type |-> type, name |-> name]
  BY DEF Entry
<1>2. s.run \in Nat /\ s.sequence + 1 \in Nat /\ s.last_event_hash \in Nat
  BY StateFields
<1> HIDE DEF e
<1>3. e \in Events
  BY <1>1, <1>2 DEF Events
<1> QED
  BY <1>1, <1>3 DEF e

\* The fields of any event.
LEMMA EventFields ==
    ASSUME NEW e \in Events
    PROVE  /\ e.run \in Nat /\ e.sequence \in Nat /\ e.event_hash \in Nat
           /\ e.previous_event_hash \in Nat /\ e.event_type \in EventTypes /\ e.name \in Labels
BY DEF Events

\* The line of an event is added to the journal.
LEMMA WrittenFields ==
    ASSUME NEW d \in Disks, NEW type \in EventTypes, NEW name \in Labels
    PROVE  LET a == Written(type, name, d)
               e == Entry(d.state, d.minted + 1, type, name)
           IN  /\ a \in Disks
               /\ a.minted = d.minted + 1 /\ a.state = d.state
               /\ a.log = Append(d.log, e) /\ e \in Events
               /\ Len(a.log) = Len(d.log) + 1 /\ Len(d.log) \in Nat
               /\ \A i \in 1 .. Len(d.log) : a.log[i] = d.log[i]
               /\ a.log[Len(d.log) + 1] = e
<1> DEFINE e == Entry(d.state, d.minted + 1, type, name)
<1>1. d.log \in Seq(Events) /\ d.state \in States /\ d.minted \in Nat /\ d.minted + 1 \in Nat
  BY DEF Disks
<1>2. e \in Events
  BY <1>1, EntryFields
<1>3. /\ Append(d.log, e) \in Seq(Events)
      /\ Len(Append(d.log, e)) = Len(d.log) + 1 /\ Len(d.log) \in Nat
      /\ \A i \in 1 .. Len(d.log) : Append(d.log, e)[i] = d.log[i]
      /\ Append(d.log, e)[Len(d.log) + 1] = e
  BY <1>1, <1>2, AppendProperties, LenProperties
<1>4. Written(type, name, d) = [d EXCEPT !.log = Append(d.log, e), !.minted = d.minted + 1]
  BY DEF Written
<1> HIDE DEF e
<1>5. Written(type, name, d) =
        [log |-> Append(d.log, e), state |-> d.state, minted |-> d.minted + 1]
  BY <1>4 DEF Disks
<1>6. Written(type, name, d) \in Disks
  BY <1>1, <1>3, <1>5 DEF Disks
<1> QED
  BY <1>2, <1>3, <1>5, <1>6 DEF e

\* A state set to the tip of a journal.
LEMMA TipFields ==
    ASSUME NEW s \in States, NEW log \in Seq(Events), log # <<>>
    PROVE  /\ AtTip(s, log) \in States
           /\ AtTip(s, log).sequence = log[Len(log)].sequence
           /\ AtTip(s, log).last_event_hash = log[Len(log)].event_hash
           /\ AtTip(s, log).run = s.run
           /\ AtTip(s, log).phase = s.phase /\ AtTip(s, log).step = s.step
           /\ AtTip(s, log).declared = s.declared
           /\ AtTip(s, log).checkpointed = s.checkpointed
<1> DEFINE e == log[Len(log)]
<1>1. e \in Events
  BY EmptySeq, ElementOfSeq
<1>2. e.sequence \in Nat /\ e.event_hash \in Nat
  BY <1>1, EventFields
<1>3. AtTip(s, log) = [s EXCEPT !.sequence = e.sequence, !.last_event_hash = e.event_hash]
  BY DEF AtTip
<1> HIDE DEF e
<1>4. AtTip(s, log) \in States
  BY <1>2, <1>3, StateChanges
<1>5. /\ AtTip(s, log).sequence = e.sequence /\ AtTip(s, log).last_event_hash = e.event_hash
      /\ AtTip(s, log).run = s.run
      /\ AtTip(s, log).phase = s.phase /\ AtTip(s, log).step = s.step
      /\ AtTip(s, log).declared = s.declared
      /\ AtTip(s, log).checkpointed = s.checkpointed
  BY <1>3 DEF States
<1> QED
  BY <1>4, <1>5 DEF e

\* An append adds the event it describes and moves the state to it.
LEMMA AppendedFields ==
    ASSUME NEW d \in Disks, NEW type \in EventTypes, NEW name \in Labels
    PROVE  LET a == Appended(type, name, d)
           IN  /\ a \in Disks
               /\ a.minted = Written(type, name, d).minted
               /\ a.log = Written(type, name, d).log
               /\ Len(a.log) = Len(d.log) + 1 /\ Len(d.log) \in Nat
               /\ a.state.run = d.state.run
               /\ a.state.checkpointed = d.state.checkpointed
<1> DEFINE w == Written(type, name, d)
<1>1. /\ w \in Disks /\ w.state = d.state
      /\ Len(w.log) = Len(d.log) + 1 /\ Len(d.log) \in Nat
  BY WrittenFields
<1>2. Appended(type, name, d) = [w EXCEPT !.state = AtTip(w.state, w.log)]
  BY DEF Appended
<1> HIDE DEF w
<1>3. w.log \in Seq(Events) /\ w.state \in States /\ w.minted \in Nat
  BY <1>1 DEF Disks
<1>4. w.log # <<>>
  BY <1>1, <1>3, EmptySeq
<1>5. /\ AtTip(w.state, w.log) \in States /\ AtTip(w.state, w.log).run = w.state.run
      /\ AtTip(w.state, w.log).checkpointed = w.state.checkpointed
  BY <1>3, <1>4, TipFields
<1>6. Appended(type, name, d) =
        [log |-> w.log, state |-> AtTip(w.state, w.log), minted |-> w.minted]
  BY <1>1, <1>2 DEF Disks
<1>7. Appended(type, name, d) \in Disks
  BY <1>3, <1>5, <1>6 DEF Disks
<1> QED
  BY <1>1, <1>5, <1>6, <1>7 DEF w

\* An append keeps what a journal holds and adds fresh hashes only.
Grows(log, m, log2, m2) ==
    /\ m2 >= m
    /\ \A hash \in 1 .. m : Has(log, hash) => Has(log2, hash)
    /\ \A hash \in 1 .. m2 : hash \in 1 .. m \/ Has(log2, hash)
    /\ Minted(log, m) /\ Distinct(log) => Minted(log2, m2) /\ Distinct(log2)

\* A line keeps the journal and adds one fresh hash.
LEMMA WrittenGrows ==
    ASSUME NEW d \in Disks, NEW type \in EventTypes, NEW name \in Labels
    PROVE  Grows(d.log, d.minted, Written(type, name, d).log, Written(type, name, d).minted)
<1> DEFINE a == Written(type, name, d)
<1> DEFINE n == Len(d.log)
<1>1. /\ a.minted = d.minted + 1 /\ d.minted \in Nat
      /\ Len(a.log) = n + 1 /\ n \in Nat
      /\ \A i \in 1 .. n : a.log[i] = d.log[i]
      /\ a.log[n + 1].event_hash = d.minted + 1
  <2>1. d.log \in Seq(Events) /\ d.state \in States /\ d.minted \in Nat /\ d.minted + 1 \in Nat
    BY DEF Disks
  <2>2. /\ a.minted = d.minted + 1
        /\ Len(a.log) = n + 1 /\ n \in Nat
        /\ \A i \in 1 .. n : a.log[i] = d.log[i]
        /\ a.log[n + 1] = Entry(d.state, d.minted + 1, type, name)
    BY WrittenFields
  <2>3. Entry(d.state, d.minted + 1, type, name).event_hash = d.minted + 1
    BY <2>1, EntryFields
  <2> QED
    BY <2>1, <2>2, <2>3
<1> HIDE DEF a
<1>2. \A i \in 1 .. n + 1 : i \in 1 .. n \/ i = n + 1
  BY <1>1
<1>3. \A hash \in 1 .. d.minted : Has(d.log, hash) => Has(a.log, hash)
  BY <1>1 DEF Has
<1>4. Has(a.log, d.minted + 1)
  BY <1>1 DEF Has
<1>5. Minted(d.log, d.minted) => Minted(a.log, a.minted)
  <2> SUFFICES ASSUME Minted(d.log, d.minted), NEW i \in 1 .. n + 1
               PROVE  a.log[i].event_hash \in 1 .. d.minted + 1
    BY <1>1 DEF Minted
  <2>1. CASE i \in 1 .. n
    <3>1. a.log[i].event_hash \in 1 .. d.minted
      BY <1>1, <2>1 DEF Minted
    <3> QED
      BY <1>1, <3>1
  <2>2. CASE i = n + 1
    BY <1>1, <2>2
  <2> QED
    BY <1>2, <2>1, <2>2
<1>6. Minted(d.log, d.minted) /\ Distinct(d.log) => Distinct(a.log)
  <2> SUFFICES ASSUME Minted(d.log, d.minted), Distinct(d.log),
                      NEW i \in 1 .. n + 1, NEW j \in 1 .. n + 1,
                      a.log[i].event_hash = a.log[j].event_hash
               PROVE  i = j
    BY <1>1 DEF Distinct
  <2>1. \A k \in 1 .. n : a.log[k].event_hash \in 1 .. d.minted
    BY <1>1 DEF Minted
  <2>2. \A k \in 1 .. n : a.log[k].event_hash # d.minted + 1
    BY <1>1, <2>1
  <2>3. CASE i \in 1 .. n /\ j \in 1 .. n
    BY <1>1, <2>3 DEF Distinct
  <2>4. CASE i = n + 1 \/ j = n + 1
    BY <1>1, <1>2, <2>2, <2>4
  <2> QED
    BY <1>2, <2>3, <2>4
<1>7. \A hash \in 1 .. a.minted : hash \in 1 .. d.minted \/ Has(a.log, hash)
  BY <1>1, <1>4
<1> QED
  BY <1>1, <1>3, <1>5, <1>6, <1>7 DEF Grows, a

\* So does an append.
LEMMA AppendedGrows ==
    ASSUME NEW d \in Disks, NEW type \in EventTypes, NEW name \in Labels
    PROVE  Grows(d.log, d.minted, Appended(type, name, d).log, Appended(type, name, d).minted)
BY AppendedFields, WrittenGrows

\* A line is of the run whose state it is written by.
LEMMA WrittenOfRun ==
    ASSUME NEW d \in Disks, NEW type \in EventTypes, NEW name \in Labels,
           OfRun(d.log, d.state.run)
    PROVE  OfRun(Written(type, name, d).log, d.state.run)
<1> DEFINE a == Written(type, name, d)
<1> DEFINE n == Len(d.log)
<1>1. /\ Len(a.log) = n + 1 /\ n \in Nat
      /\ \A i \in 1 .. n : a.log[i] = d.log[i]
      /\ a.log[n + 1].run = d.state.run
  <2>1. d.log \in Seq(Events) /\ d.state \in States /\ d.minted + 1 \in Nat
    BY DEF Disks
  <2>2. /\ Len(a.log) = n + 1 /\ n \in Nat
        /\ \A i \in 1 .. n : a.log[i] = d.log[i]
        /\ a.log[n + 1] = Entry(d.state, d.minted + 1, type, name)
    BY WrittenFields
  <2>3. Entry(d.state, d.minted + 1, type, name).run = d.state.run
    BY <2>1, EntryFields
  <2> QED
    BY <2>1, <2>2, <2>3
<1> HIDE DEF a
<1>2. \A i \in 1 .. n + 1 : i \in 1 .. n \/ i = n + 1
  BY <1>1
<1>3. OfRun(a.log, d.state.run)
  BY <1>1, <1>2 DEF OfRun
<1> QED
  BY <1>3 DEF a

\* So do several.
LEMMA GrowsStep ==
    ASSUME NEW a, NEW b, NEW c, NEW l \in Nat, NEW m \in Nat, NEW n \in Nat,
           Grows(a, l, b, m), Grows(b, m, c, n)
    PROVE  Grows(a, l, c, n)
<1>1. l <= m /\ m <= n
  BY DEF Grows
<1>2. \A hash \in 1 .. l : hash \in 1 .. m
  BY <1>1
<1> QED
  BY <1>1, <1>2 DEF Grows

\* What recovery makes of the files.
LEMMA RecoveredFields ==
    ASSUME TypeOK
    PROVE  /\ Recovered \in Disks
           /\ Recovered.state.run = state.run
           /\ Recovered.state.checkpointed = state.checkpointed
           /\ events # <<>> => Recovered.log # <<>>
           /\ OfRun(events, state.run) => OfRun(Recovered.log, state.run)
           /\ Grows(events, minted, Recovered.log, Recovered.minted)
<1>1. OnDisk \in Disks /\ OnDisk.log = events /\ OnDisk.state = state /\ OnDisk.minted = minted
  BY DEF OnDisk, Disks, TypeOK
<1>2. /\ "journal.repair.failed" \in EventTypes /\ "journal.repair.started" \in EventTypes
      /\ "journal.repair.completed" \in EventTypes /\ NoName \in Labels
  BY DEF EventTypes, Labels
<1>3. \A d \in Disks : \A type \in EventTypes :
        LET a == Appended(type, NoName, d)
        IN  /\ a \in Disks /\ a.log # <<>>
            /\ a.state.run = d.state.run /\ a.state.checkpointed = d.state.checkpointed
            /\ OfRun(d.log, d.state.run) => OfRun(a.log, d.state.run)
            /\ Grows(d.log, d.minted, a.log, a.minted)
  <2> SUFFICES ASSUME NEW d \in Disks, NEW type \in EventTypes
               PROVE  LET a == Appended(type, NoName, d)
                      IN  /\ a \in Disks /\ a.log # <<>>
                          /\ a.state.run = d.state.run
                          /\ a.state.checkpointed = d.state.checkpointed
                          /\ OfRun(d.log, d.state.run) => OfRun(a.log, d.state.run)
                          /\ Grows(d.log, d.minted, a.log, a.minted)
    OBVIOUS
  <2> DEFINE a == Appended(type, NoName, d)
  <2>1. /\ a \in Disks /\ a.log = Written(type, NoName, d).log
        /\ Len(a.log) = Len(d.log) + 1 /\ Len(d.log) \in Nat
        /\ a.state.run = d.state.run /\ a.state.checkpointed = d.state.checkpointed
        /\ Grows(d.log, d.minted, a.log, a.minted)
    BY <1>2, AppendedFields, AppendedGrows
  <2>2. OfRun(d.log, d.state.run) => OfRun(a.log, d.state.run)
    BY <1>2, <2>1, WrittenOfRun
  <2> HIDE DEF a
  <2>3. a.log # <<>>
    BY <2>1, EmptySeq DEF Disks
  <2> QED
    BY <2>1, <2>2, <2>3 DEF a
<1>4. CASE ~Linked(events)
  <2>1. Recovered = Appended("journal.repair.failed", NoName, OnDisk)
    BY <1>4 DEF Recovered
  <2> QED
    BY <1>1, <1>2, <1>3, <2>1
<1>5. CASE Linked(events) /\ Lagged(events, state)
  <2> DEFINE marked == Appended("journal.repair.started", NoName, OnDisk)
  <2> DEFINE settled == [marked EXCEPT !.state = Reconciled]
  <2>1. /\ marked \in Disks /\ Grows(events, minted, marked.log, marked.minted)
        /\ OfRun(events, state.run) => OfRun(marked.log, state.run)
    BY <1>1, <1>2, <1>3
  <2>2. Recovered = Appended("journal.repair.completed", NoName, settled)
    BY <1>5 DEF Recovered
  <2>3. events \in Seq(Events) /\ events # <<>> /\ state \in States /\ minted \in Nat
    BY <1>5 DEF Lagged, TypeOK
  <2>4. /\ Reconciled \in States /\ Reconciled.run = state.run
        /\ Reconciled.checkpointed = state.checkpointed
    BY <2>3, TipFields DEF Reconciled
  <2> HIDE DEF marked
  <2>5. /\ settled \in Disks /\ settled.log = marked.log /\ settled.minted = marked.minted
        /\ settled.state = Reconciled
    BY <2>1, <2>4 DEF Disks
  <2> HIDE DEF settled
  <2>6. /\ Recovered \in Disks /\ Recovered.state.run = state.run /\ Recovered.log # <<>>
        /\ Recovered.state.checkpointed = state.checkpointed
        /\ OfRun(marked.log, state.run) => OfRun(Recovered.log, state.run)
        /\ Grows(marked.log, marked.minted, Recovered.log, Recovered.minted)
    BY <1>2, <1>3, <2>2, <2>4, <2>5
  <2>7. marked.minted \in Nat /\ Recovered.minted \in Nat
    BY <2>1, <2>6 DEF Disks
  <2> QED
    BY <2>1, <2>3, <2>6, <2>7, GrowsStep
<1>6. CASE Linked(events) /\ ~Lagged(events, state)
  <2>1. Recovered = OnDisk
    BY <1>6 DEF Recovered
  <2>2. minted \in Nat
    BY DEF TypeOK
  <2>3. Grows(events, minted, events, minted)
    BY <2>2 DEF Grows
  <2> QED
    BY <1>1, <2>1, <2>3
<1> QED
  BY <1>4, <1>5, <1>6

-----------------------------------------------------------------------------
(* Whose turn it is. *)

\* A command under way past the creation of a run has a run, and nobody creates one.
LEMMA Working ==
    ASSUME OrderInv, NEW p \in Proc, At(todo[p], 8), pc[p] # "idle"
    PROVE  state # NoFile /\ \A q \in Proc : At(todo[q], 8)
BY DEF OrderInv, Lone

\* So does a command whose next job is a plain one.
LEMMA WorkingPlain ==
    ASSUME OrderInv, NEW p \in Proc, todo[p] # <<>>, Head(todo[p]).job \in PlainWords
    PROVE  /\ state # NoFile /\ \A q \in Proc : At(todo[q], 8)
           /\ At(Tail(todo[p]), 8) /\ Tail(todo[p]) \in Seq(Jobs)
<1>1. todo[p] \in Seq(Jobs)
  BY DEF OrderInv, TypeOK
<1>2. PICK k \in 1 .. 8 : At(todo[p], k)
  BY DEF OrderInv, Staged
<1>3. k = 8
  BY <1>1, <1>2, StageStep, Words
<1>4. At(todo[p], 8) /\ At(Tail(todo[p]), 8) /\ Tail(todo[p]) \in Seq(Jobs)
  BY <1>1, <1>2, <1>3, StageStep, JobsLeft
<1>5. pc[p] # "idle"
  BY DEF OrderInv, Staged
<1> QED
  BY <1>4, <1>5, Working

\* Whoever creates a run does the next job of the creation, and nobody else does anything.
LEMMA Alone1 ==
    ASSUME OrderInv, NEW p \in Proc, NEW k \in 1 .. 7, At(todo[p], k)
    PROVE  /\ todo[p] # <<>> /\ todo[p] \in Seq(Jobs) /\ Head(todo[p]).job = Creating[k]
           /\ Tail(todo[p]) \in Seq(Jobs) /\ At(Tail(todo[p]), k + 1)
           /\ \A q \in Proc \ {p} : pc[q] = "idle" /\ todo[q] = <<>>
<1>1. todo[p] \in Seq(Jobs) /\ todo[p] # <<>>
  BY NoJobs DEF OrderInv, TypeOK
<1>2. ~At(todo[p], 8)
  BY <1>1, OneStage
<1>3. \A q \in Proc \ {p} : pc[q] = "idle" /\ todo[q] = <<>>
  BY <1>2 DEF OrderInv, Lone, Staged
<1> QED
  BY <1>1, <1>3, StageStep, JobsLeft

\* The stage of a creation is that of its next job.
LEMMA CreatingTurn ==
    ASSUME OrderInv, NEW p \in Proc, NEW k \in 1 .. 7, todo[p] # <<>>,
           Head(todo[p]).job = Creating[k]
    PROVE  At(todo[p], k)
<1>1. todo[p] \in Seq(Jobs)
  BY DEF OrderInv, TypeOK
<1>2. PICK l \in 1 .. 8 : At(todo[p], l)
  BY DEF OrderInv, Staged
<1>3. l = k
  BY <1>1, <1>2, StageStep, Words
<1> QED
  BY <1>2, <1>3

\* SomeoneCreates, as module RunLifecycle has it, in terms of stages.
LEMMA NobodyCreates ==
    ASSUME OrderInv
    PROVE  SomeoneCreates <=> \E p \in Proc : ~At(todo[p], 8)
BY CreatesStage DEF SomeoneCreates, OrderInv, Staged

\* What a process that proceeds changes of pc and todo.
LEMMA Proceeds ==
    ASSUME TypeOK, NEW p \in Proc, NEW jobs \in Seq(Jobs), Proceed(p, jobs)
    PROVE  /\ todo' \in [Proc -> Seq(Jobs)] /\ pc' \in [Proc -> {"idle", "ready", "busy"}]
           /\ todo'[p] = jobs /\ pc'[p] = (IF jobs = <<>> THEN "idle" ELSE "busy")
           /\ \A q \in Proc \ {p} : todo'[q] = todo[q] /\ pc'[q] = pc[q]
BY DEF Proceed, TypeOK

-----------------------------------------------------------------------------
(* Who holds the lock, and what has been loaded. *)

\* p neither holds the lock nor has loaded the state.
Free(p) == lock # p /\ reg[p] = NoFile

\* p is free unless it is in an append, an update or a save.
LEMMA Unlocked ==
    ASSUME OrderInv, NEW p \in Proc,
           todo[p] = <<>> \/ Head(todo[p]).job \in Steps \ (Updates \cup Saves)
    PROVE  Free(p)
BY DEF OrderInv, Held, HeldOf, Free

\* Without anyone in such a job, nobody holds the lock.
LEMMA LockFree ==
    ASSUME OrderInv, \A q \in Proc : Free(q)
    PROVE  lock = NoProc /\ ~Midway
BY DEF OrderInv, TypeOK, Free, Midway

\* So it is while one process works alone.
LEMMA Nobody ==
    ASSUME OrderInv, NEW p \in Proc, Free(p), \A q \in Proc \ {p} : todo[q] = <<>>
    PROVE  lock = NoProc /\ ~Midway /\ \A q \in Proc : reg[q] = NoFile
<1>1. \A q \in Proc : Free(q)
  BY Unlocked
<1> QED
  BY <1>1, LockFree DEF Free

\* Nobody is midway in an append while the lock is free.
LEMMA NotMidway == lock = NoProc => ~Midway
BY ConstantsAssumption DEF Midway

\* p alone takes or frees the lock, loads or saves the state.
Locks(p) ==
    /\ \A q \in Proc \ {p} : reg'[q] = reg[q] /\ (lock' = q <=> lock = q)
    /\ HeldOf(p)'

\* What a step does to the lock, and that it forgets nothing.
Orderly(p) == Locks(p) /\ undone \subseteq undone' /\ (events # <<>> => events' # <<>>)

\* A step that has nothing to do with the lock.
LEMMA LocksKept ==
    ASSUME NEW p \in Proc, Free(p), UNCHANGED <<lock, reg>>
    PROVE  Locks(p)
BY DEF Locks, HeldOf, Free

-----------------------------------------------------------------------------
(* The kinds of steps. *)

\* p alone steps, to the jobs given.
Turn(p, jobs) ==
    /\ todo'[p] = jobs
    /\ jobs = <<>> <=> pc'[p] # "busy"
    /\ \A q \in Proc \ {p} : todo'[q] = todo[q] /\ pc'[q] = pc[q]

\* A step in a run, when nobody creates one.
PlainStep(p) ==
    /\ \A q \in Proc : At(todo[q], 8)
    /\ \E jobs \in Seq(Jobs) : At(jobs, 8) /\ Turn(p, jobs)
    /\ state # NoFile /\ state'.run = state.run
    /\ Orderly(p)
    /\ UNCHANGED <<idMap, archive, runs>>

\* A step of a command in a run keeps the order of things.
LEMMA PlainOrder ==
    ASSUME OrderInv, TypeOK', NEW p \in Proc, PlainStep(p)
    PROVE  OrderInv' /\ state' # NoFile
<1>1. PICK jobs \in Seq(Jobs) : At(jobs, 8) /\ Turn(p, jobs)
  BY DEF PlainStep
<1>2. \A q \in Proc : At(todo'[q], 8)
  BY <1>1 DEF PlainStep, Turn
<1>3. Staged'
  BY <1>1, <1>2 DEF Staged, Turn, OrderInv
<1>4. state # NoFile /\ state.run \in 1 .. runs
  BY DEF PlainStep, OrderInv, RunNumbers
<1>5. state' # NoFile
  BY <1>4, NoFileFields DEF PlainStep
<1>6. RunNumbers'
  BY <1>4 DEF RunNumbers, PlainStep
<1>7. Lone'
  BY <1>2, <1>5 DEF Lone
<1>8. \A q \in Proc : \A k \in 1 .. 4 : ~At(todo'[q], k)
  <2>1. \A q \in Proc : todo'[q] \in Seq(Jobs)
    BY DEF TypeOK
  <2> QED
    BY <1>2, <2>1, OneStage
<1>9. FreshDir'
  BY <1>8 DEF FreshDir
<1>10. Held'
  <2> SUFFICES ASSUME NEW q \in Proc PROVE HeldOf(q)'
    BY DEF Held
  <2>1. CASE q = p
    BY <2>1 DEF PlainStep, Orderly, Locks
  <2>2. CASE q # p
    <3>1. HeldOf(q)
      BY DEF OrderInv, Held
    <3>2. /\ reg'[q] = reg[q] /\ (lock' = q <=> lock = q) /\ todo'[q] = todo[q]
          /\ (events # <<>> => events' # <<>>) /\ state'.run = state.run
      BY <1>1, <2>2 DEF PlainStep, Orderly, Locks, Turn
    <3> QED
      BY <1>5, <3>1, <3>2 DEF HeldOf
  <2> QED
    BY <2>1, <2>2
<1> QED
  BY <1>3, <1>5, <1>6, <1>7, <1>9, <1>10 DEF OrderInv

\* A step of the process that creates a run, or begins to: the others are idle.
LoneStep(p, k) ==
    /\ \A q \in Proc \ {p} : pc[q] = "idle" /\ todo[q] = <<>>
    /\ At(todo'[p], k)
    /\ Turn(p, todo'[p])
    /\ k = 8 => state' # NoFile \/ pc'[p] = "idle"
    /\ Locks(p)

\* So does a step of the creation of a run, with what its stage asks for.
LEMMA LoneOrder ==
    ASSUME OrderInv, TypeOK', NEW p \in Proc, NEW k \in 1 .. 8, LoneStep(p, k), RunNumbers',
           k \in 1 .. 4 => archive' # <<>>,
           k = 1 => archive'[Len(archive')] = EmptyDir
    PROVE  OrderInv'
<1>1. \A q \in Proc \ {p} : pc'[q] = "idle" /\ todo'[q] = <<>>
  BY DEF LoneStep, Turn
<1>2. At(todo'[p], k)
  BY DEF LoneStep
<1>3. \A q \in Proc : todo'[q] \in Seq(Jobs)
  BY DEF TypeOK
<1>4. Staged'
  BY <1>1, <1>2, NoJobs DEF Staged, LoneStep, Turn
<1>5. At(todo'[p], 8) <=> k = 8
  BY <1>2, <1>3, OneStage
<1>6. Lone'
  BY <1>1, <1>5, NoJobs DEF Lone, LoneStep
<1>7. \A l \in 1 .. 4 : At(todo'[p], l) => l = k
  BY <1>2, <1>3, OneStage
<1>8. FreshDir'
  BY <1>1, <1>7, NoJobs DEF FreshDir
<1>9. Held'
  <2> SUFFICES ASSUME NEW q \in Proc PROVE HeldOf(q)'
    BY DEF Held
  <2>1. CASE q = p
    BY <2>1 DEF LoneStep, Locks
  <2>2. CASE q # p
    <3>1. lock # q /\ reg[q] = NoFile
      BY <2>2 DEF LoneStep, OrderInv, Held, HeldOf
    <3>2. lock' # q /\ reg'[q] = NoFile
      BY <2>2, <3>1 DEF LoneStep, Locks
    <3> QED
      BY <3>2 DEF HeldOf
  <2> QED
    BY <2>1, <2>2
<1> QED
  BY <1>4, <1>6, <1>8, <1>9 DEF OrderInv

\* What the disk invariant asks for after a step: the stage of the one process that may
\* be creating a run.
LEMMA Turned ==
    ASSUME OrderInv, TypeOK', NEW p \in Proc, NEW k \in 1 .. 8, LoneStep(p, k)
    PROVE  /\ \A q \in Proc \ {p} : \A l \in 1 .. 7 : ~At(todo'[q], l)
           /\ \A l \in 1 .. 8 : At(todo'[p], l) <=> l = k
<1>1. \A q \in Proc \ {p} : todo'[q] = <<>>
  BY DEF LoneStep, Turn
<1>2. At(todo'[p], k) /\ todo'[p] \in Seq(Jobs)
  BY DEF LoneStep, TypeOK
<1> QED
  BY <1>1, <1>2, NoJobs, OneStage

-----------------------------------------------------------------------------
(* The jobs of the commands. *)

\* Jobs that create no run and build before they mark.
Plain(jobs) == jobs \in Seq(Jobs) /\ At(jobs, 8) /\ BuildsFirst(jobs)

Unmarked == PlainWords \ {"mark_checkpoint"}

\* Jobs that never mark a checkpoint need no build.
LEMMA UnmarkedPlain ==
    ASSUME NEW jobs \in Seq(Jobs), \A i \in 1 .. Len(jobs) : jobs[i].job \in Unmarked
    PROVE  Plain(jobs)
BY PlainStage DEF Plain, BuildsFirst, Unmarked

\* Commands that build before they mark, one after the other.
LEMMA BuildsConcat ==
    ASSUME NEW jobs \in Seq(Jobs), NEW rest \in Seq(Jobs), BuildsFirst(jobs), BuildsFirst(rest)
    PROVE  BuildsFirst(jobs \o rest)
<1> DEFINE all == jobs \o rest
<1> DEFINE n == Len(jobs)
<1>1. /\ Len(all) = n + Len(rest) /\ n \in Nat /\ Len(rest) \in Nat
      /\ \A i \in 1 .. n + Len(rest) : all[i] = IF i <= n THEN jobs[i] ELSE rest[i - n]
  BY ConcatProperties, LenProperties
<1> HIDE DEF all
<1>2. SUFFICES ASSUME NEW i \in 1 .. n + Len(rest), all[i].job = "mark_checkpoint"
               PROVE  \E j \in 1 .. i - 1 : all[j].job = "build"
  BY <1>1 DEF BuildsFirst, all
<1>3. CASE i <= n
  <2>1. i \in 1 .. n /\ jobs[i].job = "mark_checkpoint"
    BY <1>1, <1>2, <1>3
  <2>2. PICK j \in 1 .. i - 1 : jobs[j].job = "build"
    BY <2>1 DEF BuildsFirst
  <2>3. all[j] = jobs[j]
    BY <1>1, <2>1
  <2> QED
    BY <2>2, <2>3
<1>4. CASE ~(i <= n)
  <2>1. i - n \in 1 .. Len(rest) /\ rest[i - n].job = "mark_checkpoint"
    BY <1>1, <1>2, <1>4
  <2>2. PICK j \in 1 .. i - n - 1 : rest[j].job = "build"
    BY <2>1 DEF BuildsFirst
  <2>3. n + j \in 1 .. i - 1 /\ all[n + j] = rest[j]
    BY <1>1, <2>1
  <2> QED
    BY <2>2, <2>3
<1> QED
  BY <1>3, <1>4

\* Only the build itself may not be dropped.
LEMMA BuildsTail ==
    ASSUME NEW jobs \in Seq(Jobs), jobs # <<>>, BuildsFirst(jobs), Head(jobs).job # "build"
    PROVE  BuildsFirst(Tail(jobs))
<1>1. /\ Len(jobs) \in Nat \ {0} /\ Head(jobs) = jobs[1]
      /\ Len(Tail(jobs)) = Len(jobs) - 1
      /\ \A i \in 1 .. Len(Tail(jobs)) : Tail(jobs)[i] = jobs[i + 1]
  BY JobsLeft
<1>2. SUFFICES ASSUME NEW i \in 1 .. Len(jobs) - 1, jobs[i + 1].job = "mark_checkpoint"
               PROVE  \E j \in 1 .. i - 1 : Tail(jobs)[j].job = "build"
  BY <1>1 DEF BuildsFirst
<1>3. i + 1 \in 1 .. Len(jobs)
  BY <1>1
<1>4. PICK j \in 1 .. (i + 1) - 1 : jobs[j].job = "build"
  BY <1>2, <1>3 DEF BuildsFirst
<1>5. j # 1
  BY <1>1, <1>4
<1>6. j - 1 \in 1 .. i - 1 /\ Tail(jobs)[j - 1] = jobs[j]
  BY <1>1, <1>5
<1> QED
  BY <1>4, <1>6

\* Plain jobs followed by plain jobs.
LEMMA PlainConcat ==
    ASSUME NEW jobs, NEW rest, Plain(jobs), Plain(rest)
    PROVE  Plain(jobs \o rest)
BY StageConcat, BuildsConcat DEF Plain

\* Commands of one or two plain jobs.
LEMMA PlainPair ==
    ASSUME NEW a \in Jobs, NEW b \in Jobs, a.job \in Unmarked, b.job \in Unmarked
    PROVE  Plain(<<a>>) /\ Plain(<<a, b>>)
<1>1. Plain(<<a>>)
  <2> DEFINE jobs == <<a>>
  <2>1. jobs \in Seq(Jobs) /\ Len(jobs) = 1 /\ jobs[1] = a
    OBVIOUS
  <2> HIDE DEF jobs
  <2>2. Plain(jobs)
    BY <2>1, UnmarkedPlain
  <2> QED
    BY <2>2 DEF jobs
<1>2. Plain(<<a, b>>)
  <2> DEFINE jobs == <<a, b>>
  <2>1. jobs \in Seq(Jobs) /\ Len(jobs) = 2 /\ jobs[1] = a /\ jobs[2] = b
    OBVIOUS
  <2>2. \A i \in 1 .. 2 : i = 1 \/ i = 2
    OBVIOUS
  <2> HIDE DEF jobs
  <2>3. Plain(jobs)
    BY <2>1, <2>2, UnmarkedPlain
  <2> QED
    BY <2>3 DEF jobs
<1> QED
  BY <1>1, <1>2

\* The same for words and labels.
LEMMA PlainWord ==
    ASSUME NEW v \in Unmarked, NEW w \in Unmarked, NEW x \in Labels, NEW y \in Labels
    PROVE  /\ Plain(<<Do(v)>>) /\ Plain(<<Do(v), Do(w)>>)
           /\ Plain(<<DoWith(v, x)>>) /\ Plain(<<DoWith(v, x), DoWith(w, y)>>)
           /\ Plain(<<DoWith(v, x), Do(w)>>)
<1>1. v \in CreatingWords \cup PlainWords /\ w \in CreatingWords \cup PlainWords
  BY DEF Unmarked
<1> QED
  BY <1>1, DoType, JobType, PlainPair

\* The build of a checkpoint and what follows it: only the mark needs the build.
LEMMA PlainBuild ==
    Plain(<<Do("crate.checkpoint.started"), Do("build"), Do("save_state"),
            Do("crate.checkpoint.completed"), Do("mark_checkpoint")>>)
<1> DEFINE jobs == <<Do("crate.checkpoint.started"), Do("build"), Do("save_state"),
                     Do("crate.checkpoint.completed"), Do("mark_checkpoint")>>
<1>1. \A word \in CreatingWords \cup PlainWords :
        Do(word) \in Jobs /\ Do(word).job = word
  BY DoType
<1>2. {"crate.checkpoint.started", "build", "save_state", "crate.checkpoint.completed",
       "mark_checkpoint"} \subseteq PlainWords
  BY DEF PlainWords
<1>3. /\ jobs \in Seq(Jobs) /\ Len(jobs) = 5
      /\ jobs[1].job = "crate.checkpoint.started" /\ jobs[2].job = "build"
      /\ jobs[3].job = "save_state" /\ jobs[4].job = "crate.checkpoint.completed"
      /\ jobs[5].job = "mark_checkpoint"
  BY <1>1, <1>2
<1>4. \A i \in 1 .. 5 : i = 1 \/ i = 2 \/ i = 3 \/ i = 4 \/ i = 5
  OBVIOUS
<1> HIDE DEF jobs
<1>5. At(jobs, 8)
  BY <1>2, <1>3, <1>4, PlainStage
<1>6. BuildsFirst(jobs)
  <2> SUFFICES ASSUME NEW i \in 1 .. 5, jobs[i].job = "mark_checkpoint"
               PROVE  \E j \in 1 .. i - 1 : jobs[j].job = "build"
    BY <1>3 DEF BuildsFirst
  <2>1. i = 5 /\ 2 \in 1 .. i - 1
    BY <1>3, <1>4
  <2> QED
    BY <1>3, <2>1
<1> QED
  BY <1>3, <1>5, <1>6 DEF Plain, jobs

\* Jobs that are done under a condition.
LEMMA PlainIf ==
    ASSUME NEW condition \in BOOLEAN, NEW jobs, Plain(jobs)
    PROVE  Plain(If(condition, jobs))
BY Parts DEF If, Plain

\* A checkpoint, whatever it does besides the build.
LEMMA PlainCheckpoint == \A jobs \in CheckpointJobs : Plain(jobs)
<1> SUFFICES ASSUME NEW extras \in Extras PROVE Plain(CheckpointPlan(extras))
  BY DEF CheckpointJobs
<1> DEFINE request == If("request" \in extras, <<Do("save_state")>>)
<1> DEFINE selection == If("selection" \in extras,
                           <<Do("workflow.profile.selected"), Do("save_state")>>)
<1> DEFINE drift == If("drift" \in extras, <<Do("save_state")>>)
<1> DEFINE build == <<Do("crate.checkpoint.started"), Do("build"), Do("save_state"),
                      Do("crate.checkpoint.completed"), Do("mark_checkpoint")>>
<1>1. {"save_state", "workflow.profile.selected"} \subseteq Unmarked
  BY DEF Unmarked, PlainWords
<1>2. NoName \in Labels
  BY DEF Labels
<1>3. Plain(<<Do("save_state")>>) /\ Plain(<<Do("workflow.profile.selected"), Do("save_state")>>)
  BY <1>1, <1>2, PlainWord
<1>4. /\ ("request" \in extras) \in BOOLEAN /\ ("selection" \in extras) \in BOOLEAN
      /\ ("drift" \in extras) \in BOOLEAN
  OBVIOUS
<1>5. Plain(request) /\ Plain(selection) /\ Plain(drift)
  BY <1>3, <1>4, PlainIf
<1>6. Plain(build)
  BY PlainBuild
<1>7. CheckpointPlan(extras) = request \o selection \o drift \o build
  BY DEF CheckpointPlan
<1> HIDE DEF request, selection, drift, build
<1>8. Plain(request \o selection)
  BY <1>5, PlainConcat
<1>9. Plain(request \o selection \o drift)
  BY <1>5, <1>8, PlainConcat
<1>10. Plain(request \o selection \o drift \o build)
  BY <1>6, <1>9, PlainConcat
<1> QED
  BY <1>7, <1>10

\* What a hook does.
LEMMA PlainHook == \A jobs \in HookJobs : Plain(jobs)
<1> DEFINE ends == {<<Do("session.started"), Do("resume_if_active")>>, <<Do("tool.requested")>>}
<1> SUFFICES ASSUME NEW newSession \in BOOLEAN, NEW event \in ends
             PROVE  Plain(<<Do("recover")>> \o If(newSession, <<Do("save_state")>>) \o event)
  <2> DEFINE all(new, end) == <<Do("recover")>> \o If(new, <<Do("save_state")>>) \o end
  <2>1. HookJobs = {all(new, end) : new \in BOOLEAN, end \in ends}
    BY DEF HookJobs
  <2>2. (\A new \in BOOLEAN : \A end \in ends : Plain(all(new, end))) =>
          \A jobs \in HookJobs : Plain(jobs)
    <3> HIDE DEF ends, all
    <3> QED
      BY <2>1
  <2> QED
    BY <2>2
<1>1. {"recover", "save_state", "session.started", "resume_if_active", "tool.requested"}
        \subseteq Unmarked
  BY DEF Unmarked, PlainWords
<1>2. NoName \in Labels
  BY DEF Labels
<1>3. Plain(<<Do("recover")>>) /\ Plain(<<Do("save_state")>>) /\ Plain(event)
  BY <1>1, <1>2, PlainWord
<1>4. Plain(If(newSession, <<Do("save_state")>>))
  BY <1>3, PlainIf
<1> DEFINE recover == <<Do("recover")>>
<1> DEFINE save == If(newSession, <<Do("save_state")>>)
<1>5. Plain(recover) /\ Plain(save)
  BY <1>3, <1>4
<1> HIDE DEF recover, save
<1>6. Plain(recover \o save)
  BY <1>5, PlainConcat
<1>7. Plain(recover \o save \o event)
  BY <1>3, <1>6, PlainConcat
<1> QED
  BY <1>7 DEF recover, save

\* The creation of a run does not build.
LEMMA PlainParts ==
    /\ Plain(<<>>)
    /\ BuildsFirst(BootstrapJobs) /\ BuildsFirst(ArchiveJobs \o BootstrapJobs)
<1>1. Plain(<<>>)
  BY Parts DEF Plain
<1>2. \A word \in CreatingWords \cup PlainWords :
        Do(word) \in Jobs /\ Do(word).job = word
  BY DoType
<1>4. BootstrapJobs \in Seq(Jobs) /\ BuildsFirst(BootstrapJobs)
  <2>1. /\ BootstrapJobs \in Seq(Jobs) /\ Len(BootstrapJobs) = 4
        /\ BootstrapJobs[1].job = "write_state" /\ BootstrapJobs[2].job = "write_id_map"
        /\ BootstrapJobs[3].job = "run.started" /\ BootstrapJobs[4].job = "environment.observed"
    BY <1>2, Words DEF BootstrapJobs, PlainWords
  <2>2. \A i \in 1 .. 4 : i = 1 \/ i = 2 \/ i = 3 \/ i = 4
    OBVIOUS
  <2> QED
    BY <2>1, <2>2 DEF BuildsFirst
<1>5. ArchiveJobs \in Seq(Jobs) /\ BuildsFirst(ArchiveJobs)
  <2>1. /\ ArchiveJobs \in Seq(Jobs) /\ Len(ArchiveJobs) = 4
        /\ ArchiveJobs[1].job = "events.ndjson" /\ ArchiveJobs[2].job = "state.json"
        /\ ArchiveJobs[3].job = "id-map.json" /\ ArchiveJobs[4].job = "ro-crate"
    BY <1>2, Words DEF ArchiveJobs
  <2>2. \A i \in 1 .. 4 : i = 1 \/ i = 2 \/ i = 3 \/ i = 4
    OBVIOUS
  <2> QED
    BY <2>1, <2>2 DEF BuildsFirst
<1>6. BuildsFirst(ArchiveJobs \o BootstrapJobs)
  BY <1>4, <1>5, BuildsConcat
<1> QED
  BY <1>1, <1>4, <1>6

\* The jobs that start a run, after an earlier one or none, with what comes after.
LEMMA StartingJobs ==
    ASSUME NEW rest, Plain(rest)
    PROVE  /\ BootstrapJobs \o rest \in Seq(Jobs) /\ At(BootstrapJobs \o rest, 5)
           /\ ArchiveJobs \o BootstrapJobs \o rest \in Seq(Jobs)
           /\ At(ArchiveJobs \o BootstrapJobs \o rest, 1)
           /\ BuildsFirst(BootstrapJobs \o rest)
           /\ BuildsFirst(ArchiveJobs \o BootstrapJobs \o rest)
<1>1. rest \in Seq(Jobs) /\ At(rest, 8) /\ BuildsFirst(rest)
  BY DEF Plain
<1>2. /\ BootstrapJobs \in Seq(Jobs) /\ At(BootstrapJobs, 5) /\ BuildsFirst(BootstrapJobs)
      /\ ArchiveJobs \o BootstrapJobs \in Seq(Jobs) /\ At(ArchiveJobs \o BootstrapJobs, 1)
      /\ BuildsFirst(ArchiveJobs \o BootstrapJobs)
  BY Parts, PlainParts
<1>3. BootstrapJobs \o rest \in Seq(Jobs) /\ At(BootstrapJobs \o rest, 5)
  BY <1>1, <1>2, StageConcat
<1>4. /\ ArchiveJobs \o BootstrapJobs \o rest \in Seq(Jobs)
      /\ At(ArchiveJobs \o BootstrapJobs \o rest, 1)
  <2> DEFINE creation == ArchiveJobs \o BootstrapJobs
  <2>1. creation \in Seq(Jobs) /\ At(creation, 1)
    BY <1>2
  <2> HIDE DEF creation
  <2>2. creation \o rest \in Seq(Jobs) /\ At(creation \o rest, 1)
    BY <1>1, <2>1, StageConcat
  <2> QED
    BY <2>2 DEF creation
<1>5. BuildsFirst(BootstrapJobs \o rest) /\ BuildsFirst(ArchiveJobs \o BootstrapJobs \o rest)
  BY <1>1, <1>2, BuildsConcat
<1> QED
  BY <1>3, <1>4, <1>5

-----------------------------------------------------------------------------
(* The steps: what each keeps of OrderInv, and what it does to the files.    *)

\* A step that leaves the files alone and nothing loaded.
Quiet(p) ==
    /\ PlainStep(p)
    /\ UNCHANGED <<disk, lock, undone, runs, minted>>
    /\ lock # p /\ reg'[p] = NoFile

\* A step that leaves lock and loads alone.
LEMMA Still ==
    ASSUME NEW p \in Proc, Free(p), UNCHANGED <<lock, reg, undone>>, events # <<>> => events' # <<>>
    PROVE  Orderly(p)
BY LocksKept DEF Orderly

\* A process that takes the next command of its script.
LEMMA TakesType ==
    ASSUME TypeOK, NEW p \in Proc, ran' = [ran EXCEPT ![p] = @ + 1]
    PROVE  ran' \in [Proc -> Nat]
BY DEF TypeOK

\* A recovered command gets its jobs.
LEMMA ReadyStep ==
    ASSUME OrderInv, NEW p \in Proc, NEW command, Ready(p, command), NEW jobs, Plain(jobs),
           Proceed(p, jobs)
    PROVE  TypeOK' /\ Quiet(p) /\ Plain(todo'[p])
<1>1. jobs \in Seq(Jobs) /\ At(jobs, 8)
  BY DEF Plain
<1>2. /\ pc[p] = "ready" /\ UNCHANGED <<disk, lock, reg, undone, runs, minted>>
      /\ ran' = [ran EXCEPT ![p] = @ + 1]
  BY DEF Ready, Takes, locking
<1>3. todo[p] = <<>> /\ At(todo[p], 8)
  BY <1>2, NoJobs DEF OrderInv, Staged
<1>4. state # NoFile /\ \A q \in Proc : At(todo[q], 8)
  BY <1>2, <1>3, Working
<1>5. /\ todo' \in [Proc -> Seq(Jobs)] /\ pc' \in [Proc -> {"idle", "ready", "busy"}]
      /\ todo'[p] = jobs /\ pc'[p] = (IF jobs = <<>> THEN "idle" ELSE "busy")
      /\ \A q \in Proc \ {p} : todo'[q] = todo[q] /\ pc'[q] = pc[q]
  BY <1>1, Proceeds DEF OrderInv
<1>6. TypeOK'
  BY <1>2, <1>5, TakesType DEF OrderInv, TypeOK, disk
<1>7. Turn(p, jobs)
  BY <1>5 DEF Turn
<1>8. Free(p)
  BY <1>3, Unlocked
<1>9. Orderly(p)
  BY <1>2, <1>8, Still DEF disk
<1>10. PlainStep(p)
  BY <1>1, <1>2, <1>4, <1>7, <1>9 DEF PlainStep, disk
<1> QED
  BY <1>1, <1>2, <1>5, <1>6, <1>8, <1>10 DEF Quiet, Free

\* A recovered process begins a command: its jobs are plain, the files stay.
LEMMA NewCommand ==
    ASSUME OrderInv, NEW p \in Proc,
           \/ Note(p) \/ Abort(p) \/ Resume(p) \/ Phase(p) \/ PhaseComplete(p) \/ Step(p)
           \/ Declare(p) \/ Checkpoint(p) \/ Finalize(p)
    PROVE  TypeOK' /\ Quiet(p) /\ Plain(todo'[p])
<1> DEFINE Goal == TypeOK' /\ Quiet(p) /\ Plain(todo'[p])
<1>1. {"human.note", "run.aborted", "recover", "run.resumed", "workflow.phase.completed",
       "workflow.phase.started", "set_phase", "clear_phase", "workflow.step.started", "set_step",
       "workflow.step.completed", "clear_step", "workflow.input.declared", "set_declared",
       "gate"} \subseteq Unmarked
  BY DEF Unmarked, PlainWords
<1>2. state.phase \in Labels /\ Names \subseteq Labels /\ NoName \in Labels
  BY StateFields DEF OrderInv, TypeOK, Labels
<1>3. CASE Note(p)
  BY <1>1, <1>2, <1>3, PlainWord, ReadyStep DEF Note
<1>4. CASE Abort(p)
  BY <1>1, <1>2, <1>4, PlainWord, ReadyStep DEF Abort
<1>5. CASE Resume(p)
  BY <1>1, <1>2, <1>5, PlainWord, ReadyStep DEF Resume
<1>6. CASE Phase(p)
  <2>1. PICK name \in Names, completeCurrent \in BOOLEAN :
          Proceed(p, (IF completeCurrent /\ state.phase # NoName
                      THEN <<DoWith("workflow.phase.completed", state.phase)>> ELSE <<>>)
                     \o <<DoWith("workflow.phase.started", name), DoWith("set_phase", name)>>)
    BY <1>6 DEF Phase
  <2>2. Plain(<<DoWith("workflow.phase.started", name), DoWith("set_phase", name)>>)
    BY <1>1, <1>2, PlainWord
  <2>3. Plain(<<DoWith("workflow.phase.completed", state.phase)>>) /\ Plain(<<>>)
    BY <1>1, <1>2, PlainWord, PlainParts
  <2> QED
    BY <1>6, <2>1, <2>2, <2>3, PlainConcat, ReadyStep DEF Phase
<1>7. CASE PhaseComplete(p)
  <2>1. PICK name \in Names \cup {state.phase} :
          Proceed(p, <<DoWith("workflow.phase.completed", name), Do("clear_phase")>>)
    BY <1>7 DEF PhaseComplete
  <2>2. Plain(<<DoWith("workflow.phase.completed", name), Do("clear_phase")>>)
    BY <1>1, <1>2, PlainWord
  <2> QED
    BY <1>7, <2>1, <2>2, ReadyStep DEF PhaseComplete
<1>8. CASE Step(p)
  BY <1>1, <1>2, <1>8, PlainWord, ReadyStep DEF Step
<1>9. CASE Declare(p)
  BY <1>1, <1>2, <1>9, PlainWord, ReadyStep DEF Declare
<1>10. CASE Checkpoint(p)
  BY <1>10, PlainCheckpoint, ReadyStep DEF Checkpoint
<1>11. CASE Finalize(p)
  <2>1. Plain(<<Do("gate")>>)
    BY <1>1, <1>2, PlainWord
  <2>2. \A jobs \in CheckpointJobs : Plain(jobs \o <<Do("gate")>>)
    BY <2>1, PlainCheckpoint, PlainConcat
  <2> QED
    BY <1>11, <2>1, <2>2, ReadyStep DEF Finalize
<1> QED
  BY <1>3, <1>4, <1>5, <1>6, <1>7, <1>8, <1>9, <1>10, <1>11

\* A job with nothing to do with files.
LEMMA PlainJob ==
    ASSUME OrderInv, NEW p \in Proc, todo[p] # <<>>, Head(todo[p]).job \in PlainWords,
           NEW jobs, jobs \in Seq(Jobs), At(jobs, 8), Proceed(p, jobs), Orderly(p),
           state'.run = state.run, UNCHANGED <<idMap, archive, runs>>
    PROVE  /\ PlainStep(p) /\ todo'[p] = jobs
           /\ todo' \in [Proc -> Seq(Jobs)] /\ pc' \in [Proc -> {"idle", "ready", "busy"}]
<1>1. state # NoFile /\ \A q \in Proc : At(todo[q], 8)
  BY WorkingPlain
<1>2. /\ todo' \in [Proc -> Seq(Jobs)] /\ pc' \in [Proc -> {"idle", "ready", "busy"}]
      /\ todo'[p] = jobs /\ pc'[p] = (IF jobs = <<>> THEN "idle" ELSE "busy")
      /\ \A q \in Proc \ {p} : todo'[q] = todo[q] /\ pc'[q] = pc[q]
  BY Proceeds DEF OrderInv
<1>3. Turn(p, jobs)
  BY <1>2 DEF Turn
<1> QED
  BY <1>1, <1>2, <1>3 DEF PlainStep

\* A job that is not done yet.
LEMMA Stays ==
    ASSUME OrderInv, NEW p \in Proc, todo[p] # <<>>, Head(todo[p]).job \in PlainWords,
           UNCHANGED <<pc, todo, idMap, archive, runs>>, Orderly(p), state'.run = state.run
    PROVE  PlainStep(p)
<1>1. state # NoFile /\ \A q \in Proc : At(todo[q], 8)
  BY WorkingPlain
<1>2. Turn(p, todo[p]) /\ todo[p] \in Seq(Jobs)
  BY DEF Turn, OrderInv, Staged, TypeOK
<1> QED
  BY <1>1, <1>2 DEF PlainStep

\* Two jobs that only choose what comes next.
LEMMA QuietJob ==
    ASSUME OrderInv, NEW p \in Proc, ResumeIfActive(p) \/ Gate(p)
    PROVE  TypeOK' /\ Quiet(p) /\ Plain(todo'[p])
<1>1. /\ todo[p] # <<>> /\ Head(todo[p]).job \in {"resume_if_active", "gate"}
      /\ UNCHANGED <<disk, lock, reg, undone, ran, runs, minted>>
  BY DEF ResumeIfActive, Gate, Busy, Current, locking
<1>2. {"run.resumed", "run.finalized", "crate.finalized", "run.export.blocked"} \subseteq Unmarked
  BY DEF Unmarked, PlainWords
<1>3. NoName \in Labels
  BY DEF Labels
<1>4. PICK jobs : Plain(jobs) /\ Proceed(p, jobs)
  BY <1>2, <1>3, PlainWord, PlainParts DEF ResumeIfActive, Gate
<1>5. jobs \in Seq(Jobs) /\ At(jobs, 8)
  BY <1>4 DEF Plain
<1>6. /\ Head(todo[p]).job \in PlainWords
      /\ Head(todo[p]).job \in Steps \ (Updates \cup Saves)
  BY <1>1 DEF PlainWords, Steps, Updates, Saves
<1>7. Free(p)
  BY <1>6, Unlocked
<1>8. Orderly(p)
  BY <1>1, <1>7, Still DEF disk
<1>9. /\ PlainStep(p) /\ todo'[p] = jobs
      /\ todo' \in [Proc -> Seq(Jobs)] /\ pc' \in [Proc -> {"idle", "ready", "busy"}]
  BY <1>1, <1>4, <1>5, <1>6, <1>8, PlainJob DEF disk
<1>10. TypeOK'
  BY <1>1, <1>9 DEF OrderInv, TypeOK, disk
<1> QED
  BY <1>1, <1>4, <1>7, <1>9, <1>10 DEF Quiet, Free

\* A job that takes the next of the command's jobs.
LEMMA Finishes ==
    ASSUME OrderInv, NEW p \in Proc, todo[p] # <<>>, Head(todo[p]).job \in PlainWords, Finish(p),
           Orderly(p), state'.run = state.run, UNCHANGED <<idMap, archive, runs>>
    PROVE  /\ PlainStep(p) /\ todo'[p] = Tail(todo[p])
           /\ todo' \in [Proc -> Seq(Jobs)] /\ pc' \in [Proc -> {"idle", "ready", "busy"}]
<1>1. At(Tail(todo[p]), 8) /\ Tail(todo[p]) \in Seq(Jobs)
  BY WorkingPlain
<1> QED
  BY <1>1, PlainJob DEF Finish

\* The job of a process in an append.
LEMMA Appending ==
    ASSUME OrderInv, NEW p \in Proc, todo[p] # <<>>, Head(todo[p]).job \notin Steps
    PROVE  /\ Head(todo[p]).job \in EventTypes /\ Head(todo[p]).name \in Labels
           /\ Head(todo[p]).job \in PlainWords \/ Head(todo[p]).job = "run.started"
           /\ Head(todo[p]).job \notin {"build", "mark_checkpoint"}
<1>1. Head(todo[p]).job \in CreatingWords \cup PlainWords /\ Head(todo[p]).name \in Labels
  BY JobsLeft DEF OrderInv, TypeOK
<1>2. Head(todo[p]).job \in CreatingWords => Head(todo[p]).job = "run.started"
  BY DEF CreatingWords, Steps
<1> QED
  BY <1>1, <1>2 DEF EventTypes, Steps, Saves

\* An append takes the lock and writes its line, by the state it loads under it.
LEMMA LineStep ==
    ASSUME OrderInv, NEW p \in Proc, AppendLine(p), state # NoFile
    PROVE  /\ TypeOK' /\ Orderly(p) /\ lock = NoProc /\ lock' = p
           /\ UNCHANGED <<state, idMap, crate, archive, pc, todo, reg, undone, runs>>
           /\ todo[p] # <<>> /\ Head(todo[p]).job \notin Steps /\ reg[p] = NoFile
           /\ Write(Written(Head(todo[p]).job, Head(todo[p]).name, OnDisk))
           /\ events' # <<>>
           /\ Grows(events, minted, events', minted')
<1> DEFINE type == Head(todo[p]).job
<1> DEFINE name == Head(todo[p]).name
<1> DEFINE d == Written(type, name, OnDisk)
<1>1. /\ todo[p] # <<>> /\ type \notin Steps /\ lock = NoProc /\ lock' = p /\ Write(d)
      /\ UNCHANGED <<idMap, crate, archive, pc, todo, reg, undone, ran, runs>>
  BY DEF AppendLine, Current
<1>2. type \in EventTypes /\ name \in Labels
  BY <1>1, Appending
<1>3. OnDisk \in Disks /\ OnDisk.log = events /\ OnDisk.state = state /\ OnDisk.minted = minted
  BY DEF OnDisk, Disks, OrderInv, TypeOK
<1>4. /\ d \in Disks /\ d.state = state /\ Len(d.log) = Len(events) + 1 /\ Len(events) \in Nat
      /\ Grows(events, minted, d.log, d.minted)
  BY <1>2, <1>3, WrittenFields, WrittenGrows
<1> HIDE DEF d
<1>5. d.log # <<>> /\ d.log \in Seq(Events) /\ d.state \in States /\ d.minted \in Nat
  BY <1>4, EmptySeq DEF Disks
<1>6. state' = state /\ events' = d.log /\ minted' = d.minted
  BY <1>1, <1>4 DEF Write
<1>7. TypeOK'
  BY <1>1, <1>5, <1>6 DEF OrderInv, TypeOK
<1>8. reg[p] = NoFile
  <2>1. lock # p
    BY <1>1, ConstantsAssumption
  <2>2. type \notin Saves
    BY <1>1 DEF Steps
  <2> QED
    BY <2>1, <2>2 DEF OrderInv, Held, HeldOf
<1>9. HeldOf(p)'
  BY <1>1, <1>5, <1>6, <1>8 DEF HeldOf
<1>10. Locks(p)
  BY <1>1, <1>9, ConstantsAssumption DEF Locks
<1>11. Orderly(p)
  BY <1>1, <1>5, <1>6, <1>10 DEF Orderly
<1> QED
  BY <1>1, <1>4, <1>5, <1>6, <1>7, <1>8, <1>11 DEF d

\* Then it loads the state again ...
LEMMA BumpLoadStep ==
    ASSUME OrderInv, NEW p \in Proc, BumpLoad(p)
    PROVE  /\ TypeOK' /\ Orderly(p) /\ lock = p /\ reg'[p] = state
           /\ UNCHANGED <<events, state, idMap, crate, archive, pc, todo, lock, undone, runs, minted>>
           /\ todo[p] # <<>> /\ Head(todo[p]).job \notin Steps /\ state # NoFile /\ events # <<>>
<1>1. /\ todo[p] # <<>> /\ Head(todo[p]).job \notin Steps /\ lock = p
      /\ reg' = [reg EXCEPT ![p] = state]
      /\ UNCHANGED <<events, state, idMap, crate, archive, pc, todo, lock, undone, ran, runs, minted>>
  BY DEF BumpLoad, Load, Current, disk
<1>2. state # NoFile /\ events # <<>>
  BY <1>1 DEF OrderInv, Held, HeldOf, Steps
<1>3. /\ reg' \in [Proc -> States] /\ reg'[p] = state
      /\ \A q \in Proc \ {p} : reg'[q] = reg[q]
  BY <1>1 DEF OrderInv, TypeOK
<1>4. TypeOK'
  BY <1>1, <1>3 DEF OrderInv, TypeOK
<1>5. HeldOf(p)'
  BY <1>1, <1>2, <1>3 DEF HeldOf
<1>6. Orderly(p)
  BY <1>1, <1>3, <1>5 DEF Orderly, Locks
<1> QED
  BY <1>1, <1>2, <1>3, <1>4, <1>6

\* A process that gives the lock back and forgets what it loaded.
LEMMA Released ==
    ASSUME OrderInv, NEW p \in Proc, lock = p, Release(p)
    PROVE  /\ Locks(p) /\ lock' = NoProc /\ reg'[p] = NoFile
           /\ reg' \in [Proc -> States]
           /\ \A q \in Proc \ {p} : reg'[q] = reg[q]
<1>1. lock' = NoProc /\ reg' = [reg EXCEPT ![p] = NoFile]
  BY DEF Release
<1>2. /\ reg' \in [Proc -> States] /\ reg'[p] = NoFile
      /\ \A q \in Proc \ {p} : reg'[q] = reg[q]
  BY <1>1, NoFileFields DEF OrderInv, TypeOK
<1>3. lock' # p /\ \A q \in Proc \ {p} : lock' # q /\ lock # q
  BY <1>1, ConstantsAssumption
<1> QED
  BY <1>1, <1>2, <1>3 DEF Locks, HeldOf

\* ... and writes it back at the tip of the journal.
LEMMA BumpWriteStep ==
    ASSUME OrderInv, NEW p \in Proc, BumpWrite(p)
    PROVE  /\ Orderly(p) /\ lock = p /\ lock' = NoProc /\ reg'[p] = NoFile
           /\ reg' \in [Proc -> States] /\ \A q \in Proc \ {p} : reg'[q] = reg[q]
           /\ todo[p] # <<>> /\ Head(todo[p]).job \notin Steps
           /\ \/ Finish(p)
              \/ Head(todo[p]).job = "crate.checkpoint.failed" /\ Proceed(p, <<>>)
           /\ events # <<>> /\ state # NoFile /\ reg[p] # NoFile
           /\ reg[p].run = state.run /\ reg[p] \in States
           /\ state' = AtTip(reg[p], events) /\ state' \in States
           /\ state'.run = state.run /\ state'.checkpointed = reg[p].checkpointed
           /\ UNCHANGED <<events, idMap, crate, archive, undone, ran, runs, minted>>
<1>1. /\ todo[p] # <<>> /\ Head(todo[p]).job \notin Steps /\ lock = p /\ reg[p] # NoFile
      /\ state' = AtTip(reg[p], events) /\ Release(p)
      /\ \/ Finish(p)
         \/ Head(todo[p]).job = "crate.checkpoint.failed" /\ Proceed(p, <<>>)
      /\ UNCHANGED <<events, idMap, crate, archive, undone, ran, runs, minted>>
  BY DEF BumpWrite, Current
<1>2. state # NoFile /\ events # <<>> /\ reg[p].run = state.run
  BY <1>1 DEF OrderInv, Held, HeldOf, Steps
<1>3. reg[p] \in States /\ events \in Seq(Events)
  BY DEF OrderInv, TypeOK
<1>4. /\ state' \in States /\ state'.run = state.run /\ state'.checkpointed = reg[p].checkpointed
  BY <1>1, <1>2, <1>3, TipFields
<1>5. /\ Locks(p) /\ lock' = NoProc /\ reg'[p] = NoFile /\ reg' \in [Proc -> States]
      /\ \A q \in Proc \ {p} : reg'[q] = reg[q]
  BY <1>1, Released
<1>6. Orderly(p)
  BY <1>1, <1>5 DEF Orderly
<1> QED
  BY <1>1, <1>2, <1>3, <1>4, <1>5, <1>6

\* The end of an append in a run.
LEMMA AppendStep ==
    ASSUME OrderInv, NEW p \in Proc, BumpWrite(p), Head(todo[p]).job \in PlainWords
    PROVE  /\ TypeOK' /\ PlainStep(p) /\ state' # NoFile
           /\ todo'[p] = <<>> \/ todo'[p] = Tail(todo[p])
<1>1. /\ Orderly(p) /\ lock' = NoProc /\ reg' \in [Proc -> States]
      /\ todo[p] # <<>> /\ (Finish(p) \/ Proceed(p, <<>>))
      /\ state' \in States /\ state'.run = state.run
      /\ UNCHANGED <<events, idMap, crate, archive, undone, ran, runs, minted>>
  BY BumpWriteStep
<1>2. /\ PlainStep(p) /\ (todo'[p] = <<>> \/ todo'[p] = Tail(todo[p]))
      /\ todo' \in [Proc -> Seq(Jobs)] /\ pc' \in [Proc -> {"idle", "ready", "busy"}]
  BY <1>1, Finishes, PlainJob, Parts
<1>3. TypeOK'
  BY <1>1, <1>2 DEF OrderInv, TypeOK
<1> QED
  BY <1>2, <1>3, PlainOrder

\* A recovery inside a command.
LEMMA RecoverStep ==
    ASSUME OrderInv, NEW p \in Proc, RecoverJob(p)
    PROVE  /\ TypeOK' /\ PlainStep(p) /\ crate' = crate /\ Recover
           /\ UNCHANGED <<lock, reg, undone>> /\ Free(p)
           /\ todo[p] # <<>> /\ todo'[p] = Tail(todo[p]) /\ Head(todo[p]).job # "build"
           /\ Grows(events, minted, events', minted')
<1>1. /\ todo[p] # <<>> /\ Head(todo[p]).job = "recover" /\ Finish(p)
      /\ UNCHANGED <<idMap, crate, archive, lock, reg, undone, ran, runs>>
  BY DEF RecoverJob, Current, locking
<1>2. "recover" \in PlainWords /\ "recover" \in Steps \ (Updates \cup Saves)
  BY DEF PlainWords, Steps, Updates, Saves
<1>3. state # NoFile
  BY <1>1, <1>2, WorkingPlain
<1>4. Recover
  BY <1>3 DEF RecoverJob
<1>5. /\ Recovered \in Disks /\ Recovered.state.run = state.run
      /\ events # <<>> => Recovered.log # <<>>
      /\ Grows(events, minted, Recovered.log, Recovered.minted)
  BY RecoveredFields DEF OrderInv
<1>6. Free(p)
  BY <1>1, <1>2, Unlocked
<1>7. Orderly(p)
  BY <1>1, <1>4, <1>5, <1>6, Still DEF Recover, Write
<1>8. /\ PlainStep(p) /\ todo'[p] = Tail(todo[p])
      /\ todo' \in [Proc -> Seq(Jobs)] /\ pc' \in [Proc -> {"idle", "ready", "busy"}]
  BY <1>1, <1>2, <1>4, <1>5, <1>7, Finishes DEF Recover, Write
<1>9. TypeOK'
  BY <1>1, <1>4, <1>5, <1>8 DEF OrderInv, TypeOK, Recover, Write, Disks
<1> QED
  BY <1>1, <1>4, <1>5, <1>6, <1>8, <1>9 DEF Recover, Write

\* An update loads the state under the lock ...
LEMMA UpdateLoadStep ==
    ASSUME OrderInv, NEW p \in Proc, UpdateLoad(p)
    PROVE  /\ TypeOK' /\ PlainStep(p) /\ lock = NoProc /\ lock' = p /\ reg'[p] = state
           /\ Head(todo[p]).job \in Updates
           /\ UNCHANGED <<events, state, idMap, crate, archive, pc, todo, undone, runs, minted>>
<1>1. /\ todo[p] # <<>> /\ Head(todo[p]).job \in Updates
      /\ lock = NoProc /\ lock' = p /\ reg' = [reg EXCEPT ![p] = state]
      /\ UNCHANGED <<events, state, idMap, crate, archive, pc, todo, undone, ran, runs, minted>>
  BY DEF UpdateLoad, Busy, Acquire, Load, Current, disk
<1>2. Head(todo[p]).job \in PlainWords
  BY <1>1 DEF Updates, PlainWords
<1>3. state # NoFile
  BY <1>1, <1>2, WorkingPlain
<1>4. /\ reg' \in [Proc -> States] /\ reg'[p] = state
      /\ \A q \in Proc \ {p} : reg'[q] = reg[q]
  BY <1>1 DEF OrderInv, TypeOK
<1>5. HeldOf(p)'
  BY <1>1, <1>3, <1>4 DEF HeldOf
<1>6. Orderly(p)
  BY <1>1, <1>4, <1>5, ConstantsAssumption DEF Orderly, Locks
<1>7. PlainStep(p)
  BY <1>1, <1>2, <1>6, Stays
<1>8. TypeOK'
  BY <1>1, <1>4 DEF OrderInv, TypeOK
<1> QED
  BY <1>1, <1>4, <1>7, <1>8

\* ... and writes it back with one field changed.
LEMMA UpdateWriteStep ==
    ASSUME OrderInv, NEW p \in Proc, UpdateWrite(p)
    PROVE  /\ TypeOK' /\ PlainStep(p) /\ UNCHANGED <<events, crate, undone, minted>>
           /\ lock = p /\ lock' = NoProc /\ reg[p] # NoFile /\ reg'[p] = NoFile
           /\ todo[p] # <<>> /\ todo'[p] = Tail(todo[p]) /\ Head(todo[p]).job \in Updates
           /\ Head(todo[p]).job # "build"
           /\ reg[p].run = state.run /\ state' # NoFile
           /\ state'.sequence = reg[p].sequence /\ state'.last_event_hash = reg[p].last_event_hash
           /\ state'.checkpointed = reg[p].checkpointed
<1> DEFINE job == Head(todo[p]).job
<1> DEFINE name == Head(todo[p]).name
<1> DEFINE s == reg[p]
<1>1. /\ todo[p] # <<>> /\ todo[p] \in Seq(Jobs) /\ Finish(p) /\ job \in Updates
      /\ lock = p /\ Release(p)
      /\ UNCHANGED <<events, idMap, crate, archive, undone, ran, runs, minted>>
  BY DEF UpdateWrite, Busy, Current, OrderInv, TypeOK
<1>2. \/ job = "set_phase" /\ state' = [s EXCEPT !.phase = name]
      \/ job = "clear_phase" /\ state' = [s EXCEPT !.phase = NoName]
      \/ job = "set_step" /\ state' = [s EXCEPT !.step = name]
      \/ job = "clear_step" /\ state' = [s EXCEPT !.step = IF @ = name THEN NoName ELSE @]
      \/ job = "set_declared" /\ state' = [s EXCEPT !.declared = @ \cup {name}]
  BY DEF UpdateWrite, Current
<1>3. job \in PlainWords /\ job # "build"
  BY <1>1 DEF PlainWords, Updates
<1>4. s \in States /\ name \in Labels /\ NoName \in Labels
  BY <1>1, JobsLeft DEF OrderInv, TypeOK, Labels
<1>5. s # NoFile /\ s.run = state.run
  BY <1>1 DEF OrderInv, Held, HeldOf, Updates, Steps
<1> HIDE DEF job, name, s
<1>6. state' \in States
  <2>1. s.step \in Labels /\ s.declared \cup {name} \in SUBSET Labels
    BY <1>4, StateFields
  <2>2. (IF s.step = name THEN NoName ELSE s.step) \in Labels
    BY <1>4, <2>1
  <2> QED
    BY <1>2, <1>4, <2>1, <2>2, StateChanges
<1>7. /\ state'.run = s.run /\ state'.sequence = s.sequence
      /\ state'.last_event_hash = s.last_event_hash
      /\ state'.checkpointed = s.checkpointed
  BY <1>2, <1>4 DEF States
<1>8. /\ Locks(p) /\ lock' = NoProc /\ reg'[p] = NoFile /\ reg' \in [Proc -> States]
  BY <1>1, Released
<1>9. Orderly(p)
  BY <1>1, <1>8 DEF Orderly
<1>10. state'.run = state.run
  BY <1>5, <1>7
<1>11. /\ PlainStep(p) /\ todo'[p] = Tail(todo[p])
       /\ todo' \in [Proc -> Seq(Jobs)] /\ pc' \in [Proc -> {"idle", "ready", "busy"}]
  BY <1>1, <1>3, <1>9, <1>10, Finishes DEF job
<1>12. TypeOK'
  BY <1>1, <1>6, <1>8, <1>11 DEF OrderInv, TypeOK
<1>13. state' # NoFile
  BY <1>11, <1>12, PlainOrder
<1> QED
  BY <1>1, <1>3, <1>5, <1>7, <1>8, <1>11, <1>12, <1>13 DEF job, s

\* A save loads the state, with or without the lock being free ...
LEMMA SaveLoadStep ==
    ASSUME OrderInv, NEW p \in Proc, SaveLoad(p)
    PROVE  /\ TypeOK' /\ PlainStep(p) /\ lock # p /\ reg'[p] = state
           /\ UNCHANGED <<events, state, idMap, crate, archive, pc, todo, lock, undone, runs, minted>>
<1>1. /\ todo[p] # <<>> /\ Head(todo[p]).job \in Saves
      /\ reg' = [reg EXCEPT ![p] = state]
      /\ UNCHANGED <<events, state, idMap, crate, archive, lock, undone, ran, runs, minted>>
  BY DEF SaveLoad, Busy, Load, Current, disk
<1>2. Head(todo[p]).job \in PlainWords
  BY <1>1 DEF Saves, PlainWords
<1>3. state # NoFile
  BY <1>1, <1>2, WorkingPlain
<1>4. UNCHANGED <<pc, todo>>
  BY <1>3 DEF SaveLoad
<1>5. /\ reg' \in [Proc -> States] /\ reg'[p] = state
      /\ \A q \in Proc \ {p} : reg'[q] = reg[q]
  BY <1>1 DEF OrderInv, TypeOK
<1>6. lock # p
  BY <1>1 DEF OrderInv, Held, HeldOf, Saves, Updates, Steps
<1>7. HeldOf(p)'
  BY <1>1, <1>3, <1>4, <1>5, <1>6 DEF HeldOf
<1>8. Orderly(p)
  BY <1>1, <1>5, <1>7 DEF Orderly, Locks
<1>9. PlainStep(p)
  BY <1>1, <1>2, <1>4, <1>8, Stays
<1>10. TypeOK'
  BY <1>1, <1>4, <1>5 DEF OrderInv, TypeOK
<1> QED
  BY <1>1, <1>4, <1>5, <1>6, <1>9, <1>10

\* ... and writes back what it loaded, which undoes what was written since.
LEMMA SaveWriteStep ==
    ASSUME OrderInv, NEW p \in Proc, SaveWrite(p)
    PROVE  /\ TypeOK' /\ PlainStep(p) /\ UNCHANGED <<events, crate, lock, minted>>
           /\ lock # p /\ reg[p] # NoFile /\ reg'[p] = NoFile
           /\ todo[p] # <<>> /\ todo'[p] = Tail(todo[p]) /\ Head(todo[p]).job \in Saves
           /\ Head(todo[p]).job # "build"
           /\ state' # NoFile
           /\ state'.checkpointed => \/ reg[p].checkpointed
                                     \/ Head(todo[p]).job = "mark_checkpoint"
           /\ state.run \notin undone' => state = reg[p] /\ Agree(state, state')
<1> DEFINE job == Head(todo[p]).job
<1> DEFINE s == reg[p]
<1> DEFINE mark == (s.checkpointed \/ job = "mark_checkpoint")
<1>1. /\ todo[p] # <<>> /\ todo[p] \in Seq(Jobs) /\ Finish(p) /\ job \in Saves
      /\ s # NoFile /\ reg' = [reg EXCEPT ![p] = NoFile]
      /\ UNCHANGED <<events, idMap, crate, archive, lock, ran, runs, minted>>
      /\ undone' = IF state = s THEN undone ELSE undone \cup {s.run}
  BY DEF SaveWrite, Busy, Current, OrderInv, TypeOK
<1>2. state' = [s EXCEPT !.checkpointed = mark]
  BY DEF SaveWrite, Current
<1>3. job \in PlainWords /\ job # "build"
  BY <1>1 DEF PlainWords, Saves
<1>4. s \in States
  BY DEF OrderInv, TypeOK
<1>5. s.run = state.run /\ lock # p
  BY <1>1 DEF OrderInv, Held, HeldOf, Updates, Saves, Steps
<1>6. mark \in Flags
  BY <1>4, StateFields DEF Flags
<1>7. mark => s.checkpointed \/ job = "mark_checkpoint"
  OBVIOUS
<1> HIDE DEF job, s, mark
<1>8. state' \in States
  BY <1>2, <1>4, <1>6, StateChanges
<1>9. /\ state'.run = s.run /\ state'.checkpointed = mark /\ Agree(s, state')
  BY <1>2, <1>4 DEF States, Agree
<1>10. /\ reg' \in [Proc -> States] /\ reg'[p] = NoFile
       /\ \A q \in Proc \ {p} : reg'[q] = reg[q]
  BY <1>1, NoFileFields DEF OrderInv, TypeOK
<1>11. Locks(p)
  BY <1>1, <1>5, <1>10 DEF Locks, HeldOf
<1>12. undone \subseteq undone' /\ undone' \in SUBSET Nat
  BY <1>1, <1>4, StateFields DEF OrderInv, TypeOK
<1>13. Orderly(p)
  BY <1>1, <1>11, <1>12 DEF Orderly
<1>14. state'.run = state.run
  BY <1>5, <1>9
<1>15. /\ PlainStep(p) /\ todo'[p] = Tail(todo[p])
       /\ todo' \in [Proc -> Seq(Jobs)] /\ pc' \in [Proc -> {"idle", "ready", "busy"}]
  BY <1>1, <1>3, <1>13, <1>14, Finishes DEF job
<1>16. TypeOK'
  BY <1>1, <1>8, <1>10, <1>12, <1>15 DEF OrderInv, TypeOK
<1>17. state' # NoFile
  BY <1>15, <1>16, PlainOrder
<1>18. state.run \notin undone' => state = s
  BY <1>1, <1>5
<1> QED
  BY <1>1, <1>3, <1>5, <1>7, <1>9, <1>10, <1>15, <1>16, <1>17, <1>18 DEF job, s

\* A build, or its failure, before the crate is written or after.
LEMMA BuildStep ==
    ASSUME OrderInv, NEW p \in Proc, Build(p)
    PROVE  /\ TypeOK' /\ PlainStep(p) /\ UNCHANGED <<events, state, lock, reg, undone, minted>>
           /\ Free(p)
           /\ \/ crate' = state.run
              \/ crate' = crate /\ Plain(todo'[p])
<1>1. /\ todo[p] # <<>> /\ todo[p] \in Seq(Jobs) /\ Head(todo[p]).job = "build"
      /\ UNCHANGED <<events, state, idMap, archive, lock, reg, undone, ran, runs, minted>>
  BY DEF Build, Busy, Current, locking, OrderInv, TypeOK
<1>2. /\ "build" \in PlainWords /\ "crate.checkpoint.failed" \in Unmarked /\ NoName \in Labels
      /\ "build" \in Steps \ (Updates \cup Saves)
  BY DEF PlainWords, Unmarked, Labels, Steps, Updates, Saves
<1>3. state.run \in Nat /\ crate \in Nat
  BY StateFields DEF OrderInv, TypeOK
<1>4. Free(p) /\ Orderly(p)
  BY <1>1, <1>2, Unlocked, Still
<1>5. CASE crate' = state.run /\ Finish(p)
  <2>1. /\ PlainStep(p)
        /\ todo' \in [Proc -> Seq(Jobs)] /\ pc' \in [Proc -> {"idle", "ready", "busy"}]
    BY <1>1, <1>2, <1>4, <1>5, Finishes
  <2>2. TypeOK'
    BY <1>1, <1>3, <1>5, <2>1 DEF OrderInv, TypeOK
  <2> QED
    BY <1>1, <1>4, <1>5, <2>1, <2>2
<1>6. CASE Proceed(p, <<Do("crate.checkpoint.failed")>>) /\ crate' \in {crate, state.run}
  <2> DEFINE jobs == <<Do("crate.checkpoint.failed")>>
  <2>1. Plain(jobs)
    BY <1>2, PlainWord
  <2>2. jobs \in Seq(Jobs) /\ At(jobs, 8)
    BY <2>1 DEF Plain
  <2>3. Proceed(p, jobs)
    BY <1>6
  <2> HIDE DEF jobs
  <2>4. /\ PlainStep(p) /\ todo'[p] = jobs
        /\ todo' \in [Proc -> Seq(Jobs)] /\ pc' \in [Proc -> {"idle", "ready", "busy"}]
    BY <1>1, <1>2, <1>4, <2>2, <2>3, PlainJob
  <2>5. TypeOK'
    BY <1>1, <1>3, <1>6, <2>4 DEF OrderInv, TypeOK
  <2> QED
    BY <1>1, <1>4, <1>6, <2>1, <2>4, <2>5
<1> QED
  BY <1>5, <1>6 DEF Build

\* An invocation of a command is made while nobody creates a run.
LEMMA Invoked ==
    ASSUME OrderInv, StartsAlone, NEW p \in Proc, pc[p] = "idle",
           StartsAlone => ~SomeoneCreates
    PROVE  todo[p] = <<>> /\ Free(p) /\ \A q \in Proc : At(todo[q], 8)
<1>1. todo[p] = <<>> /\ \A q \in Proc : At(todo[q], 8)
  BY NobodyCreates DEF OrderInv, Staged
<1> QED
  BY <1>1, Unlocked

\* A command that needs a run and finds none.
LEMMA MainFails ==
    ASSUME OrderInv, NEW p \in Proc, Main(p), state = NoFile
    PROVE  TypeOK' /\ UNCHANGED <<disk, pc, todo, locking, runs, minted>>
<1>1. /\ ran' = [ran EXCEPT ![p] = @ + 1]
      /\ UNCHANGED <<events, state, idMap, crate, archive, pc, todo, locking, runs, minted>>
  BY DEF Main
<1>2. TypeOK'
  BY <1>1, TakesType DEF OrderInv, TypeOK, locking
<1> QED
  BY <1>1, <1>2 DEF disk

\* The recovery every command but start and hook begins with.
LEMMA MainStep ==
    ASSUME OrderInv, StartsAlone, NEW p \in Proc, Main(p), state # NoFile
    PROVE  /\ TypeOK' /\ PlainStep(p) /\ Recover /\ crate' = crate /\ todo' = todo
           /\ UNCHANGED <<lock, reg, undone>> /\ Free(p)
           /\ Grows(events, minted, events', minted')
<1>1. /\ pc[p] = "idle"
      /\ StartsAlone => ~SomeoneCreates
      /\ Recover
      /\ pc' = [pc EXCEPT ![p] = "ready"]
      /\ UNCHANGED <<idMap, crate, archive, todo, lock, reg, undone, ran, runs>>
  BY DEF Main, locking
<1>2. todo[p] = <<>> /\ Free(p) /\ \A q \in Proc : At(todo[q], 8)
  BY <1>1, Invoked
<1>3. /\ Recovered \in Disks /\ Recovered.state.run = state.run
      /\ events # <<>> => Recovered.log # <<>>
      /\ Grows(events, minted, Recovered.log, Recovered.minted)
  BY RecoveredFields DEF OrderInv
<1>4. TypeOK'
  BY <1>1, <1>3 DEF OrderInv, TypeOK, Recover, Write, Disks
<1>5. Turn(p, <<>>)
  BY <1>1, <1>2 DEF Turn, OrderInv, TypeOK
<1>6. Orderly(p)
  BY <1>1, <1>2, <1>3, Still DEF Recover, Write
<1>7. PlainStep(p)
  BY <1>1, <1>2, <1>3, <1>5, <1>6, Parts DEF PlainStep, Recover, Write
<1> QED
  BY <1>1, <1>2, <1>3, <1>4, <1>7 DEF Recover, Write

-----------------------------------------------------------------------------
(* The steps that create a run. *)

\* A command begins in a run ...
LEMMA BeginPlain ==
    ASSUME OrderInv, NEW p \in Proc, pc[p] = "idle", \A q \in Proc : At(todo[q], 8),
           state # NoFile, NEW jobs, Plain(jobs), Proceed(p, jobs), Free(p),
           ran' \in [Proc -> Nat], UNCHANGED <<disk, locking, runs, minted>>
    PROVE  TypeOK' /\ Quiet(p) /\ Plain(todo'[p])
<1>1. jobs \in Seq(Jobs) /\ At(jobs, 8)
  BY DEF Plain
<1>2. /\ todo' \in [Proc -> Seq(Jobs)] /\ pc' \in [Proc -> {"idle", "ready", "busy"}]
      /\ todo'[p] = jobs /\ pc'[p] = (IF jobs = <<>> THEN "idle" ELSE "busy")
      /\ \A q \in Proc \ {p} : todo'[q] = todo[q] /\ pc'[q] = pc[q]
  BY <1>1, Proceeds DEF OrderInv
<1>3. TypeOK'
  BY <1>2 DEF OrderInv, TypeOK, disk, locking
<1>4. Turn(p, jobs)
  BY <1>2 DEF Turn
<1>5. Orderly(p)
  BY Still DEF disk, locking
<1>6. PlainStep(p)
  BY <1>1, <1>4, <1>5 DEF PlainStep, disk
<1> QED
  BY <1>2, <1>3, <1>6 DEF Quiet, locking, Free

\* ... or the creation of one.
LEMMA BeginCreation ==
    ASSUME OrderInv, StartsAlone, NEW p \in Proc, pc[p] = "idle", Alone(p),
           NEW k \in 1 .. 8, NEW jobs \in Seq(Jobs), At(jobs, k), k # 8, Proceed(p, jobs), Free(p),
           ran' \in [Proc -> Nat], archive' \in Seq(Dirs),
           UNCHANGED <<events, state, idMap, crate, locking, runs, minted>>
    PROVE  TypeOK' /\ LoneStep(p, k) /\ todo'[p] = jobs
<1>1. /\ todo' \in [Proc -> Seq(Jobs)] /\ pc' \in [Proc -> {"idle", "ready", "busy"}]
      /\ todo'[p] = jobs /\ pc'[p] = (IF jobs = <<>> THEN "idle" ELSE "busy")
      /\ \A q \in Proc \ {p} : todo'[q] = todo[q] /\ pc'[q] = pc[q]
  BY Proceeds DEF OrderInv
<1>2. TypeOK'
  BY <1>1 DEF OrderInv, TypeOK, locking
<1>3. Turn(p, todo'[p])
  BY <1>1 DEF Turn
<1>4. \A q \in Proc \ {p} : pc[q] = "idle" /\ todo[q] = <<>>
  BY DEF Alone, OrderInv, Staged
<1>5. Locks(p)
  BY LocksKept DEF locking
<1> QED
  BY <1>1, <1>2, <1>3, <1>4, <1>5 DEF LoneStep

\* start: in an active run, without a run, after a closed one.
LEMMA StartStep ==
    ASSUME OrderInv, StartsAlone, NEW p \in Proc, Start(p)
    PROVE  /\ TypeOK' /\ UNCHANGED <<events, state, idMap, crate, locking, runs, minted>>
           /\ Free(p) /\ \A q \in Proc : At(todo[q], 8)
           /\ BuildsFirst(todo'[p])
           /\ \/ Quiet(p)
              \/ LoneStep(p, 5) /\ state = NoFile /\ UNCHANGED archive
              \/ /\ LoneStep(p, 1) /\ state # NoFile /\ ~IsActive(events)
                 /\ archive' = Append(archive, EmptyDir)
<1>1. /\ pc[p] = "idle"
      /\ StartsAlone => ~SomeoneCreates
      /\ ran' = [ran EXCEPT ![p] = @ + 1]
      /\ UNCHANGED <<events, state, idMap, crate, locking, runs, minted>>
  BY DEF Start, Invoke, Takes
<1>2. ran' \in [Proc -> Nat]
  BY <1>1, TakesType DEF OrderInv
<1>3. Free(p) /\ \A q \in Proc : At(todo[q], 8)
  BY <1>1, Invoked
<1>4. PICK checkpoints \in {<<>>} \cup CheckpointJobs :
        IF state # NoFile /\ IsActive(events)
        THEN /\ Proceed(p, <<Do("recover")>> \o checkpoints)
             /\ UNCHANGED archive
        ELSE /\ Alone(p)
             /\ IF state = NoFile
                THEN /\ Proceed(p, BootstrapJobs \o checkpoints)
                     /\ UNCHANGED archive
                ELSE /\ Proceed(p, ArchiveJobs \o BootstrapJobs \o checkpoints)
                     /\ archive' = Append(archive, EmptyDir)
  BY DEF Start, EmptyDir
<1>5. Plain(checkpoints)
  BY PlainParts, PlainCheckpoint
<1>6. CASE state # NoFile /\ IsActive(events)
  <2>1. Plain(<<Do("recover")>>)
    <3>1. "recover" \in Unmarked /\ NoName \in Labels
      BY DEF Unmarked, PlainWords, Labels
    <3> QED
      BY <3>1, PlainWord
  <2>2. Plain(<<Do("recover")>> \o checkpoints)
    BY <1>5, <2>1, PlainConcat
  <2>3. TypeOK' /\ Quiet(p) /\ Plain(todo'[p])
    BY <1>1, <1>2, <1>3, <1>4, <1>6, <2>2, BeginPlain DEF disk
  <2> QED
    BY <1>1, <1>3, <2>3 DEF Plain
<1>7. CASE state = NoFile
  <2> DEFINE jobs == BootstrapJobs \o checkpoints
  <2>1. jobs \in Seq(Jobs) /\ At(jobs, 5) /\ BuildsFirst(jobs)
    BY <1>5, StartingJobs
  <2>2. Proceed(p, jobs) /\ Alone(p) /\ UNCHANGED archive
    BY <1>4, <1>7
  <2> HIDE DEF jobs
  <2>3. archive' \in Seq(Dirs)
    BY <2>2 DEF OrderInv, TypeOK
  <2>4. TypeOK' /\ LoneStep(p, 5) /\ todo'[p] = jobs
    BY <1>1, <1>2, <1>3, <2>1, <2>2, <2>3, BeginCreation
  <2> QED
    BY <1>1, <1>3, <1>7, <2>1, <2>2, <2>4
<1>8. CASE state # NoFile /\ ~IsActive(events)
  <2> DEFINE jobs == ArchiveJobs \o BootstrapJobs \o checkpoints
  <2>1. jobs \in Seq(Jobs) /\ At(jobs, 1) /\ BuildsFirst(jobs)
    BY <1>5, StartingJobs
  <2>2. Proceed(p, jobs) /\ Alone(p) /\ archive' = Append(archive, EmptyDir)
    BY <1>4, <1>8
  <2> HIDE DEF jobs
  <2>3. EmptyDir \in Dirs
    BY NoFileFields DEF EmptyDir, Dirs
  <2>4. archive' \in Seq(Dirs)
    BY <2>2, <2>3, AppendProperties DEF OrderInv, TypeOK
  <2>5. TypeOK' /\ LoneStep(p, 1) /\ todo'[p] = jobs
    BY <1>1, <1>2, <1>3, <2>1, <2>2, <2>4, BeginCreation
  <2> QED
    BY <1>1, <1>3, <1>8, <2>1, <2>2, <2>5
<1> QED
  BY <1>6, <1>7, <1>8

\* A hook, in a run or without one.
LEMMA HookStep ==
    ASSUME OrderInv, StartsAlone, NEW p \in Proc, Hook(p)
    PROVE  /\ TypeOK' /\ UNCHANGED <<disk, locking, runs, minted>>
           /\ Free(p) /\ \A q \in Proc : At(todo[q], 8)
           /\ BuildsFirst(todo'[p])
           /\ \/ Quiet(p)
              \/ LoneStep(p, 5) /\ state = NoFile
<1>1. /\ pc[p] = "idle"
      /\ StartsAlone => ~SomeoneCreates
      /\ ran' = [ran EXCEPT ![p] = @ + 1]
      /\ UNCHANGED <<disk, locking, runs, minted>>
  BY DEF Hook, Invoke, Takes
<1>2. ran' \in [Proc -> Nat]
  BY <1>1, TakesType DEF OrderInv
<1>3. Free(p) /\ \A q \in Proc : At(todo[q], 8)
  BY <1>1, Invoked
<1>6. PICK does \in HookJobs :
        IF state = NoFile THEN Alone(p) /\ Proceed(p, BootstrapJobs \o does) ELSE Proceed(p, does)
  BY DEF Hook
<1>7. Plain(does)
  BY PlainHook
<1>4. CASE state = NoFile
  <2> DEFINE jobs == BootstrapJobs \o does
  <2>1. jobs \in Seq(Jobs) /\ At(jobs, 5) /\ BuildsFirst(jobs)
    BY <1>7, StartingJobs
  <2>2. Proceed(p, jobs) /\ Alone(p)
    BY <1>4, <1>6
  <2> HIDE DEF jobs
  <2>3. archive' \in Seq(Dirs)
    BY <1>1 DEF OrderInv, TypeOK, disk
  <2>4. TypeOK' /\ LoneStep(p, 5) /\ todo'[p] = jobs
    BY <1>1, <1>2, <1>3, <2>1, <2>2, <2>3, BeginCreation DEF disk
  <2> QED
    BY <1>1, <1>3, <1>4, <2>1, <2>4
<1>5. CASE state # NoFile
  <2>1. Proceed(p, does)
    BY <1>5, <1>6
  <2>2. TypeOK' /\ Quiet(p) /\ Plain(todo'[p])
    BY <1>1, <1>2, <1>3, <1>5, <1>7, <2>1, BeginPlain
  <2> QED
    BY <1>1, <1>3, <2>2 DEF Plain
<1> QED
  BY <1>4, <1>5

\* One file moved into the newest directory.
MovedFile(k) ==
    \/ /\ k = 1 /\ archive' = [archive EXCEPT ![Len(archive)].events = events]
       /\ events' = <<>> /\ UNCHANGED <<state, idMap, crate>>
    \/ /\ k = 2 /\ archive' = [archive EXCEPT ![Len(archive)].state = state]
       /\ state' = NoFile /\ UNCHANGED <<events, idMap, crate>>
    \/ /\ k = 3 /\ archive' = [archive EXCEPT ![Len(archive)].idMap = idMap]
       /\ idMap' = NoRun /\ UNCHANGED <<events, state, crate>>
    \/ /\ k = 4 /\ archive' = [archive EXCEPT ![Len(archive)].crate = crate]
       /\ crate' = NoRun /\ UNCHANGED <<events, state, idMap>>

\* The archive after the move of a file.
LEMMA MovedDir ==
    ASSUME TypeOK, NEW k \in 1 .. 4, MovedFile(k), archive # <<>>
    PROVE  LET n == Len(archive)
               old == archive[n]
               new == archive'[n]
           IN  /\ n \in Nat \ {0}
               /\ archive' \in Seq(Dirs) /\ Len(archive') = n
               /\ \A i \in 1 .. n : i # n => archive'[i] = archive[i]
               /\ old \in Dirs /\ new \in Dirs
               /\ new.events = (IF k = 1 THEN events ELSE old.events)
               /\ new.state = (IF k = 2 THEN state ELSE old.state)
               /\ new.idMap = (IF k = 3 THEN idMap ELSE old.idMap)
               /\ new.crate = (IF k = 4 THEN crate ELSE old.crate)
<1> DEFINE n == Len(archive)
<1> DEFINE old == archive[n]
<1>1. archive \in Seq(Dirs) /\ n \in Nat \ {0} /\ n \in 1 .. n
  BY EmptySeq DEF TypeOK
<1>2. old \in Dirs
  BY <1>1
<1>3. events \in Seq(Events) /\ state \in States /\ idMap \in Nat /\ crate \in Nat
  BY DEF TypeOK
<1>4. \A d \in Dirs :
        /\ [archive EXCEPT ![n] = d] \in Seq(Dirs) /\ Len([archive EXCEPT ![n] = d]) = n
        /\ [archive EXCEPT ![n] = d][n] = d
        /\ \A i \in 1 .. n : i # n => [archive EXCEPT ![n] = d][i] = archive[i]
  BY <1>1, ExceptSeq
<1>5. CASE k = 1
  <2> DEFINE d == [old EXCEPT !.events = events]
  <2>1. /\ d \in Dirs
        /\ d.events = events /\ d.state = old.state /\ d.idMap = old.idMap /\ d.crate = old.crate
    BY <1>2, <1>3 DEF Dirs
  <2>2. archive' = [archive EXCEPT ![n] = d]
    BY <1>1, <1>5 DEF MovedFile
  <2> HIDE DEF d
  <2>3. archive' \in Seq(Dirs) /\ Len(archive') = n /\ archive'[n] = d
        /\ \A i \in 1 .. n : i # n => archive'[i] = archive[i]
    BY <1>4, <2>1, <2>2
  <2> QED
    BY <1>1, <1>2, <1>5, <2>1, <2>3
<1>6. CASE k = 2
  <2> DEFINE d == [old EXCEPT !.state = state]
  <2>1. /\ d \in Dirs
        /\ d.events = old.events /\ d.state = state /\ d.idMap = old.idMap /\ d.crate = old.crate
    BY <1>2, <1>3 DEF Dirs
  <2>2. archive' = [archive EXCEPT ![n] = d]
    BY <1>1, <1>6 DEF MovedFile
  <2> HIDE DEF d
  <2>3. archive' \in Seq(Dirs) /\ Len(archive') = n /\ archive'[n] = d
        /\ \A i \in 1 .. n : i # n => archive'[i] = archive[i]
    BY <1>4, <2>1, <2>2
  <2> QED
    BY <1>1, <1>2, <1>6, <2>1, <2>3
<1>7. CASE k = 3
  <2> DEFINE d == [old EXCEPT !.idMap = idMap]
  <2>1. /\ d \in Dirs
        /\ d.events = old.events /\ d.state = old.state /\ d.idMap = idMap /\ d.crate = old.crate
    BY <1>2, <1>3 DEF Dirs
  <2>2. archive' = [archive EXCEPT ![n] = d]
    BY <1>1, <1>7 DEF MovedFile
  <2> HIDE DEF d
  <2>3. archive' \in Seq(Dirs) /\ Len(archive') = n /\ archive'[n] = d
        /\ \A i \in 1 .. n : i # n => archive'[i] = archive[i]
    BY <1>4, <2>1, <2>2
  <2> QED
    BY <1>1, <1>2, <1>7, <2>1, <2>3
<1>8. CASE k = 4
  <2> DEFINE d == [old EXCEPT !.crate = crate]
  <2>1. /\ d \in Dirs
        /\ d.events = old.events /\ d.state = old.state /\ d.idMap = old.idMap /\ d.crate = crate
    BY <1>2, <1>3 DEF Dirs
  <2>2. archive' = [archive EXCEPT ![n] = d]
    BY <1>1, <1>8 DEF MovedFile
  <2> HIDE DEF d
  <2>3. archive' \in Seq(Dirs) /\ Len(archive') = n /\ archive'[n] = d
        /\ \A i \in 1 .. n : i # n => archive'[i] = archive[i]
    BY <1>4, <2>1, <2>2
  <2> QED
    BY <1>1, <1>2, <1>8, <2>1, <2>3
<1> QED
  BY <1>5, <1>6, <1>7, <1>8

\* A job of the process that creates a run takes it one stage on.
LEMMA CreationJob ==
    ASSUME OrderInv, NEW p \in Proc, NEW k \in 1 .. 7, todo[p] # <<>>,
           Head(todo[p]).job = Creating[k], Finish(p), Locks(p), k = 7 => state' # NoFile
    PROVE  /\ At(todo[p], k) /\ LoneStep(p, k + 1) /\ todo'[p] = Tail(todo[p])
           /\ todo' \in [Proc -> Seq(Jobs)] /\ pc' \in [Proc -> {"idle", "ready", "busy"}]
           /\ BuildsFirst(todo[p]) => BuildsFirst(todo'[p])
<1>1. At(todo[p], k)
  BY CreatingTurn
<1>2. /\ todo[p] \in Seq(Jobs) /\ Tail(todo[p]) \in Seq(Jobs) /\ At(Tail(todo[p]), k + 1)
      /\ \A q \in Proc \ {p} : pc[q] = "idle" /\ todo[q] = <<>>
  BY <1>1, Alone1
<1>3. /\ todo' \in [Proc -> Seq(Jobs)] /\ pc' \in [Proc -> {"idle", "ready", "busy"}]
      /\ todo'[p] = Tail(todo[p])
      /\ pc'[p] = (IF Tail(todo[p]) = <<>> THEN "idle" ELSE "busy")
      /\ \A q \in Proc \ {p} : todo'[q] = todo[q] /\ pc'[q] = pc[q]
  BY <1>2, Proceeds DEF OrderInv, Finish
<1>4. LoneStep(p, k + 1)
  BY <1>2, <1>3 DEF LoneStep, Turn
<1>5. Head(todo[p]).job # "build"
  BY Words DEF PlainWords
<1> QED
  BY <1>1, <1>2, <1>3, <1>4, <1>5, BuildsTail

\* The archiving and the first writes of a run have nothing to do with the lock.
LEMMA CreatingFree ==
    ASSUME OrderInv, NEW p \in Proc, NEW k \in 1 .. 6, todo[p] # <<>>,
           Head(todo[p]).job = Creating[k], UNCHANGED locking
    PROVE  Free(p) /\ Locks(p) /\ UNCHANGED <<lock, reg, undone>>
<1>1. Creating[k] \in Files \cup {"write_state", "write_id_map"}
  <2>1. k = 1 \/ k = 2 \/ k = 3 \/ k = 4 \/ k = 5 \/ k = 6
    OBVIOUS
  <2> QED
    BY <2>1, Words DEF Files
<1>2. Creating[k] \in Steps \ (Updates \cup Saves)
  BY <1>1 DEF Files, Steps, Updates, Saves
<1>3. Free(p)
  BY <1>2, Unlocked
<1> QED
  BY <1>3, LocksKept DEF locking

\* The archiving moves a file.
LEMMA MoveStep ==
    ASSUME OrderInv, NEW p \in Proc, Move(p)
    PROVE  \E k \in 1 .. 4 :
             /\ At(todo[p], k) /\ LoneStep(p, k + 1) /\ MovedFile(k)
             /\ TypeOK' /\ UNCHANGED <<locking, runs, minted>> /\ Free(p)
             /\ BuildsFirst(todo[p]) => BuildsFirst(todo'[p])
<1>1. todo[p] # <<>> /\ Finish(p) /\ UNCHANGED <<locking, ran, runs, minted>>
  BY DEF Move
<1>2. PICK k \in 1 .. 4 : Head(todo[p]).job = Creating[k] /\ MovedFile(k)
  <2>1. \/ Head(todo[p]).job = Creating[1] /\ MovedFile(1)
        \/ Head(todo[p]).job = Creating[2] /\ MovedFile(2)
        \/ Head(todo[p]).job = Creating[3] /\ MovedFile(3)
        \/ Head(todo[p]).job = Creating[4] /\ MovedFile(4)
    BY Words DEF Move, Current, MovedFile
  <2> QED
    BY <2>1
<1>3. k \in 1 .. 7 /\ k \in 1 .. 6 /\ k # 7 /\ k + 1 # 8
  OBVIOUS
<1>9. Free(p) /\ Locks(p) /\ UNCHANGED <<lock, reg, undone>>
  BY <1>1, <1>2, <1>3, CreatingFree
<1>4. /\ At(todo[p], k) /\ LoneStep(p, k + 1)
      /\ todo' \in [Proc -> Seq(Jobs)] /\ pc' \in [Proc -> {"idle", "ready", "busy"}]
      /\ BuildsFirst(todo[p]) => BuildsFirst(todo'[p])
  BY <1>1, <1>2, <1>3, <1>9, CreationJob
<1>5. archive # <<>>
  BY <1>4 DEF OrderInv, FreshDir
<1>6. archive' \in Seq(Dirs)
  BY <1>2, <1>5, MovedDir DEF OrderInv
<1>7. /\ events' \in Seq(Events) /\ state' \in States /\ idMap' \in Nat /\ crate' \in Nat
  <2>1. /\ events \in Seq(Events) /\ state \in States /\ idMap \in Nat /\ crate \in Nat
        /\ <<>> \in Seq(Events) /\ NoFile \in States /\ NoRun \in Nat
    BY NoFileFields, EmptySeq DEF OrderInv, TypeOK
  <2> QED
    BY <1>2, <2>1 DEF MovedFile
<1>8. TypeOK'
  BY <1>1, <1>4, <1>6, <1>7, <1>9 DEF OrderInv, TypeOK
<1> QED
  BY <1>1, <1>2, <1>4, <1>8, <1>9

\* The creation writes the run's state ...
LEMMA WriteStateStep ==
    ASSUME OrderInv, NEW p \in Proc, WriteState(p)
    PROVE  /\ At(todo[p], 5) /\ LoneStep(p, 6) /\ TypeOK'
           /\ state' = NewState(runs + 1) /\ runs' = runs + 1
           /\ UNCHANGED <<events, idMap, crate, archive, locking, minted>> /\ Free(p)
           /\ BuildsFirst(todo[p]) => BuildsFirst(todo'[p])
<1>1. /\ todo[p] # <<>> /\ Head(todo[p]).job = Creating[5] /\ Finish(p)
      /\ state' = NewState(runs + 1) /\ runs' = runs + 1
      /\ UNCHANGED <<events, idMap, crate, archive, locking, ran, minted>>
  BY Words DEF WriteState, Current
<1>6. Free(p) /\ Locks(p) /\ UNCHANGED <<lock, reg, undone>>
  BY <1>1, CreatingFree
<1>2. /\ At(todo[p], 5) /\ LoneStep(p, 6)
      /\ todo' \in [Proc -> Seq(Jobs)] /\ pc' \in [Proc -> {"idle", "ready", "busy"}]
      /\ BuildsFirst(todo[p]) => BuildsFirst(todo'[p])
  BY <1>1, <1>6, CreationJob
<1>3. runs + 1 \in Nat
  BY DEF OrderInv, TypeOK
<1>4. state' \in States
  BY <1>1, <1>3, NewStateFields
<1>5. TypeOK'
  BY <1>1, <1>2, <1>3, <1>4, <1>6 DEF OrderInv, TypeOK
<1> QED
  BY <1>1, <1>2, <1>5, <1>6

\* ... and its id map.
LEMMA WriteIdMapStep ==
    ASSUME OrderInv, NEW p \in Proc, WriteIdMap(p)
    PROVE  /\ At(todo[p], 6) /\ LoneStep(p, 7) /\ TypeOK' /\ idMap' = state.run
           /\ UNCHANGED <<events, state, crate, archive, locking, runs, minted>> /\ Free(p)
           /\ BuildsFirst(todo[p]) => BuildsFirst(todo'[p])
<1>1. /\ todo[p] # <<>> /\ Head(todo[p]).job = Creating[6] /\ Finish(p) /\ idMap' = state.run
      /\ UNCHANGED <<events, state, crate, archive, locking, ran, runs, minted>>
  BY Words DEF WriteIdMap, Current
<1>5. Free(p) /\ Locks(p) /\ UNCHANGED <<lock, reg, undone>>
  BY <1>1, CreatingFree
<1>2. /\ At(todo[p], 6) /\ LoneStep(p, 7)
      /\ todo' \in [Proc -> Seq(Jobs)] /\ pc' \in [Proc -> {"idle", "ready", "busy"}]
      /\ BuildsFirst(todo[p]) => BuildsFirst(todo'[p])
  BY <1>1, <1>5, CreationJob
<1>3. state.run \in Nat
  BY StateFields DEF OrderInv, TypeOK
<1>4. TypeOK'
  BY <1>1, <1>2, <1>3, <1>5 DEF OrderInv, TypeOK
<1> QED
  BY <1>1, <1>2, <1>4, <1>5

\* The first event of a run is written under the lock ...
LEMMA FirstJob ==
    ASSUME OrderInv, NEW p \in Proc, todo[p] # <<>>, Head(todo[p]).job \notin Steps,
           Head(todo[p]).job \notin PlainWords
    PROVE  /\ At(todo[p], 7) /\ Head(todo[p]).job = Creating[7]
           /\ Head(todo[p]).job = "run.started"
           /\ \A q \in Proc \ {p} : pc[q] = "idle" /\ todo[q] = <<>>
<1>1. Head(todo[p]).job = "run.started"
  BY Appending
<1>2. Head(todo[p]).job = Creating[7]
  BY <1>1, Words
<1>3. At(todo[p], 7)
  BY <1>2, CreatingTurn
<1> QED
  BY <1>1, <1>2, <1>3, Alone1

\* ... which leaves the creation at its stage ...
LEMMA FirstStays ==
    ASSUME OrderInv, NEW p \in Proc, At(todo[p], 7), Locks(p), UNCHANGED <<pc, todo>>
    PROVE  LoneStep(p, 7)
BY Alone1 DEF LoneStep, Turn, OrderInv, Staged

\* ... by its line ...
LEMMA FirstLine ==
    ASSUME OrderInv, NEW p \in Proc, AppendLine(p), Head(todo[p]).job \notin PlainWords,
           state # NoFile
    PROVE  At(todo[p], 7) /\ LoneStep(p, 7)
BY LineStep, FirstJob, FirstStays DEF Orderly

\* ... and by the load after it,
LEMMA FirstBumpLoad ==
    ASSUME OrderInv, NEW p \in Proc, BumpLoad(p), Head(todo[p]).job \notin PlainWords
    PROVE  At(todo[p], 7) /\ LoneStep(p, 7)
BY BumpLoadStep, FirstJob, FirstStays DEF Orderly

\* until the state is written back.
LEMMA FirstBumpWrite ==
    ASSUME OrderInv, NEW p \in Proc, BumpWrite(p), Head(todo[p]).job \notin PlainWords
    PROVE  /\ At(todo[p], 7) /\ LoneStep(p, 8) /\ TypeOK' /\ state' # NoFile
           /\ BuildsFirst(todo[p]) => BuildsFirst(todo'[p])
<1>1. /\ Locks(p) /\ lock' = NoProc /\ reg' \in [Proc -> States]
      /\ todo[p] # <<>> /\ Head(todo[p]).job \notin Steps /\ state # NoFile
      /\ \/ Finish(p)
         \/ Head(todo[p]).job = "crate.checkpoint.failed"
      /\ state' \in States /\ state'.run = state.run
      /\ UNCHANGED <<events, idMap, crate, archive, undone, ran, runs, minted>>
  BY BumpWriteStep DEF Orderly
<1>2. Head(todo[p]).job = Creating[7] /\ Head(todo[p]).job = "run.started"
  BY <1>1, FirstJob
<1>3. Finish(p)
  BY <1>1, <1>2
<1>4. state.run # 0
  BY <1>1 DEF OrderInv, RunNumbers
<1>5. state' # NoFile
  BY <1>1, <1>4, NoFileFields
<1>6. /\ At(todo[p], 7) /\ LoneStep(p, 8)
      /\ todo' \in [Proc -> Seq(Jobs)] /\ pc' \in [Proc -> {"idle", "ready", "busy"}]
      /\ BuildsFirst(todo[p]) => BuildsFirst(todo'[p])
  BY <1>1, <1>2, <1>3, <1>5, CreationJob
<1>7. TypeOK'
  BY <1>1, <1>6 DEF OrderInv, TypeOK
<1> QED
  BY <1>5, <1>6, <1>7

\* Without the state of the run the append fails, and nobody works.
LEMMA LineFails ==
    ASSUME OrderInv, NEW p \in Proc, AppendLine(p), state = NoFile
    PROVE  /\ At(todo[p], 7) /\ LoneStep(p, 8) /\ TypeOK' /\ todo'[p] = <<>> /\ Free(p)
           /\ UNCHANGED <<disk, locking, runs, minted>>
<1>1. /\ todo[p] # <<>> /\ Head(todo[p]).job \notin Steps /\ lock = NoProc /\ Proceed(p, <<>>)
      /\ UNCHANGED <<events, state, idMap, crate, archive, lock, reg, undone, ran, runs, minted>>
  BY DEF AppendLine, Current
<1>2. Head(todo[p]).job \notin PlainWords
  BY <1>1, WorkingPlain
<1>3. At(todo[p], 7) /\ \A q \in Proc \ {p} : pc[q] = "idle" /\ todo[q] = <<>>
  BY <1>1, <1>2, FirstJob
<1>4. Free(p)
  <2>1. Head(todo[p]).job \notin Saves /\ lock # p
    BY <1>1, ConstantsAssumption DEF Steps
  <2> QED
    BY <2>1 DEF Free, OrderInv, Held, HeldOf
<1>5. Locks(p)
  BY <1>1, <1>4, LocksKept
<1>6. /\ todo' \in [Proc -> Seq(Jobs)] /\ pc' \in [Proc -> {"idle", "ready", "busy"}]
      /\ todo'[p] = <<>> /\ pc'[p] = "idle"
      /\ \A q \in Proc \ {p} : todo'[q] = todo[q] /\ pc'[q] = pc[q]
  BY <1>1, Proceeds, Parts DEF OrderInv
<1>7. LoneStep(p, 8)
  BY <1>3, <1>5, <1>6, NoJobs DEF LoneStep, Turn
<1>8. TypeOK'
  BY <1>1, <1>6 DEF OrderInv, TypeOK
<1> QED
  BY <1>1, <1>3, <1>4, <1>6, <1>7, <1>8 DEF disk, locking

\* A kill, in a run or in the creation of one.
LEMMA KillStep ==
    ASSUME OrderInv, NEW p \in Proc, Kill(p)
    PROVE  /\ TypeOK' /\ UNCHANGED <<disk, lock, undone, runs, minted>> /\ todo'[p] = <<>>
           /\ lock # p /\ reg'[p] = NoFile
           /\ Head(todo[p]).job \in KillBefore
           /\ \/ Quiet(p)
              \/ LoneStep(p, 8) /\ \E k \in 1 .. 7 : At(todo[p], k) /\ Head(todo[p]).job = Creating[k]
<1>1. /\ todo[p] # <<>> /\ Head(todo[p]).job \in KillBefore /\ Proceed(p, <<>>)
      /\ lock # p /\ reg' = [reg EXCEPT ![p] = NoFile]
      /\ UNCHANGED <<events, state, idMap, crate, archive, lock, undone, ran, runs, minted>>
  BY DEF Kill, Busy, Current, disk
<1>2. /\ todo' \in [Proc -> Seq(Jobs)] /\ pc' \in [Proc -> {"idle", "ready", "busy"}]
      /\ todo'[p] = <<>> /\ pc'[p] = "idle"
      /\ \A q \in Proc \ {p} : todo'[q] = todo[q] /\ pc'[q] = pc[q]
  BY <1>1, Proceeds, Parts DEF OrderInv
<1>3. /\ reg' \in [Proc -> States] /\ reg'[p] = NoFile
      /\ \A q \in Proc \ {p} : reg'[q] = reg[q]
  BY <1>1, NoFileFields DEF OrderInv, TypeOK
<1>4. TypeOK'
  BY <1>1, <1>2, <1>3 DEF OrderInv, TypeOK
<1>5. Orderly(p)
  BY <1>1, <1>3 DEF Orderly, Locks, HeldOf
<1>6. PICK k \in 1 .. 8 : At(todo[p], k)
  BY DEF OrderInv, Staged
<1>7. CASE k = 8
  <2>1. Head(todo[p]).job \in PlainWords
    BY <1>1, <1>6, <1>7, StageStep DEF OrderInv, TypeOK
  <2>2. PlainStep(p)
    BY <1>1, <1>5, <2>1, PlainJob, Parts
  <2> QED
    BY <1>1, <1>2, <1>3, <1>4, <2>2 DEF Quiet, disk
<1>8. CASE k # 8
  <2>1. k \in 1 .. 7
    BY <1>8
  <2>2. LoneStep(p, 8)
    BY <1>2, <1>5, <1>6, <2>1, Alone1, NoJobs DEF LoneStep, Turn, Orderly
  <2>3. Head(todo[p]).job = Creating[k]
    BY <1>6, <2>1, Alone1
  <2> QED
    BY <1>1, <1>2, <1>3, <1>4, <1>6, <2>1, <2>2, <2>3 DEF disk
<1> QED
  BY <1>7, <1>8

-----------------------------------------------------------------------------
(* The order of things, and every event is kept. *)

\* OrderInv holds at first ...
LEMMA OrderInit == Init => OrderInv
<1> SUFFICES ASSUME Init PROVE OrderInv
  OBVIOUS
<1>2. TypeOK
  BY NoFileFields DEF Init, TypeOK
<1>3. \A p \in Proc : todo[p] = <<>> /\ pc[p] = "idle" /\ At(todo[p], 8)
  BY NoJobs DEF Init
<1>4. Staged
  BY <1>3 DEF Staged
<1>5. Lone
  BY <1>3 DEF Lone
<1>6. FreshDir
  BY <1>3, NoJobs DEF FreshDir
<1>7. RunNumbers
  BY DEF Init, RunNumbers
<1>8. Held
  BY ConstantsAssumption DEF Init, Held, HeldOf
<1> QED
  BY <1>2, <1>4, <1>5, <1>6, <1>7, <1>8 DEF OrderInv

\* A step that changes at most how many commands have run.
LEMMA OrderSame ==
    ASSUME OrderInv, TypeOK', UNCHANGED <<disk, pc, todo, locking, runs, minted>>
    PROVE  OrderInv'
<1>1. UNCHANGED <<events, state, idMap, crate, archive, pc, todo, lock, reg, undone, runs, minted>>
  BY DEF disk, locking
<1>2. Staged' /\ Lone' /\ FreshDir' /\ RunNumbers'
  BY <1>1 DEF OrderInv, Staged, Lone, FreshDir, RunNumbers
<1>3. Held'
  BY <1>1 DEF OrderInv, Held, HeldOf
<1> QED
  BY <1>2, <1>3 DEF OrderInv

\* ... and after every step.
LEMMA OrderNext == StartsAlone /\ OrderInv /\ [Next]_vars => OrderInv'
<1> SUFFICES ASSUME StartsAlone, OrderInv, [Next]_vars PROVE OrderInv'
  OBVIOUS
<1>1. CASE UNCHANGED vars
  <2>1. TypeOK'
    BY <1>1 DEF vars, disk, locking, OrderInv, TypeOK
  <2> QED
    BY <1>1, <2>1, OrderSame DEF vars
<1>2. ASSUME NEW p \in Proc, Command(p) \/ Job(p) \/ Kill(p)
      PROVE  OrderInv'
  <2> DEFINE Same == UNCHANGED <<state, runs>>
  <2>1. Same => RunNumbers'
    BY DEF OrderInv, RunNumbers
  <2>2. CASE Start(p)
    <3>1. /\ TypeOK' /\ Same
          /\ \/ Quiet(p)
             \/ LoneStep(p, 5)
             \/ LoneStep(p, 1) /\ archive' = Append(archive, EmptyDir)
      BY <2>2, StartStep
    <3>2. CASE Quiet(p)
      BY <3>1, <3>2, PlainOrder DEF Quiet
    <3>3. CASE LoneStep(p, 5)
      BY <2>1, <3>1, <3>3, LoneOrder
    <3>4. CASE LoneStep(p, 1) /\ archive' = Append(archive, EmptyDir)
      <4>1. EmptyDir \in Dirs /\ archive \in Seq(Dirs)
        BY NoFileFields DEF EmptyDir, Dirs, OrderInv, TypeOK
      <4>2. archive' # <<>> /\ archive'[Len(archive')] = EmptyDir
        BY <3>4, <4>1, AppendProperties
      <4> QED
        BY <2>1, <3>1, <3>4, <4>2, LoneOrder
    <3> QED
      BY <3>1, <3>2, <3>3, <3>4
  <2>3. CASE Hook(p)
    <3>1. /\ TypeOK' /\ Same
          /\ Quiet(p) \/ LoneStep(p, 5)
      BY <2>3, HookStep DEF disk
    <3> QED
      BY <2>1, <3>1, PlainOrder, LoneOrder DEF Quiet
  <2>4. CASE Main(p)
    BY <2>4, MainStep, MainFails, OrderSame, PlainOrder
  <2>5. CASE \/ Note(p) \/ Abort(p) \/ Resume(p) \/ Phase(p) \/ PhaseComplete(p) \/ Step(p)
             \/ Declare(p) \/ Checkpoint(p) \/ Finalize(p)
    BY <2>5, NewCommand, PlainOrder DEF Quiet
  <2>6. CASE AppendLine(p) \/ BumpLoad(p) \/ BumpWrite(p)
    <3>1. CASE AppendLine(p) /\ state = NoFile
      <4>1. LoneStep(p, 8) /\ TypeOK' /\ Same
        BY <3>1, LineFails DEF disk
      <4> QED
        BY <2>1, <4>1, LoneOrder
    <3>2. CASE (AppendLine(p) /\ state # NoFile) \/ BumpLoad(p)
      <4>1. /\ TypeOK' /\ Orderly(p) /\ todo[p] # <<>> /\ state' = state
            /\ UNCHANGED <<pc, todo, idMap, archive, runs>>
        BY <3>2, LineStep, BumpLoadStep
      <4>2. CASE Head(todo[p]).job \in PlainWords
        <5>1. PlainStep(p)
          BY <4>1, <4>2, Stays
        <5> QED
          BY <4>1, <5>1, PlainOrder
      <4>3. CASE Head(todo[p]).job \notin PlainWords
        <5>1. LoneStep(p, 7)
          BY <3>2, <4>3, FirstLine, FirstBumpLoad
        <5> QED
          BY <2>1, <4>1, <5>1, LoneOrder
      <4> QED
        BY <4>2, <4>3
    <3>3. CASE BumpWrite(p)
      <4>1. CASE Head(todo[p]).job \in PlainWords
        BY <3>3, <4>1, AppendStep, PlainOrder
      <4>2. CASE Head(todo[p]).job \notin PlainWords
        <5>1. LoneStep(p, 8) /\ TypeOK' /\ state' # NoFile
          BY <3>3, <4>2, FirstBumpWrite
        <5>2. state # NoFile /\ state'.run = state.run /\ runs' = runs
          BY <3>3, BumpWriteStep
        <5>3. RunNumbers'
          BY <5>1, <5>2 DEF OrderInv, RunNumbers
        <5> QED
          BY <5>1, <5>3, LoneOrder
      <4> QED
        BY <4>1, <4>2
    <3> QED
      BY <2>6, <3>1, <3>2, <3>3
  <2>7. CASE Move(p)
    <3>1. PICK k \in 1 .. 4 :
            At(todo[p], k) /\ LoneStep(p, k + 1) /\ MovedFile(k) /\ TypeOK' /\ runs' = runs
      BY <2>7, MoveStep
    <3>2. RunNumbers'
      BY <3>1 DEF MovedFile, OrderInv, RunNumbers
    <3>3. archive # <<>>
      BY <3>1 DEF OrderInv, FreshDir
    <3>4. archive \in Seq(Dirs) /\ archive' \in Seq(Dirs) /\ Len(archive') = Len(archive)
      BY <3>1, <3>3, MovedDir DEF OrderInv, TypeOK
    <3>5. archive' # <<>>
      BY <3>3, <3>4, EmptySeq
    <3>6. k + 1 \in 1 .. 8 /\ k + 1 # 1
      OBVIOUS
    <3> QED
      BY <3>1, <3>2, <3>5, <3>6, LoneOrder
  <2>8. CASE WriteState(p)
    <3>1. LoneStep(p, 6) /\ TypeOK' /\ state' = NewState(runs + 1) /\ runs' = runs + 1
      BY <2>8, WriteStateStep
    <3>2. runs \in Nat
      BY DEF OrderInv, TypeOK
    <3>3. RunNumbers'
      BY <3>1, <3>2, NewStateFields DEF RunNumbers
    <3> QED
      BY <3>1, <3>3, LoneOrder
  <2>9. CASE WriteIdMap(p)
    BY <2>1, <2>9, WriteIdMapStep, LoneOrder
  <2>10. CASE RecoverJob(p)
    BY <2>10, RecoverStep, PlainOrder
  <2>11. CASE ResumeIfActive(p) \/ Gate(p)
    BY <2>11, QuietJob, PlainOrder DEF Quiet
  <2>12. CASE UpdateLoad(p) \/ UpdateWrite(p) \/ SaveLoad(p) \/ SaveWrite(p)
    BY <2>12, UpdateLoadStep, UpdateWriteStep, SaveLoadStep, SaveWriteStep, PlainOrder
  <2>13. CASE Build(p)
    BY <2>13, BuildStep, PlainOrder
  <2>14. CASE Kill(p)
    <3>1. TypeOK' /\ Same /\ (Quiet(p) \/ LoneStep(p, 8))
      BY <2>14, KillStep DEF disk
    <3> QED
      BY <2>1, <3>1, PlainOrder, LoneOrder DEF Quiet
  <2> QED
    BY <1>2, <2>2, <2>3, <2>4, <2>5, <2>6, <2>7, <2>8, <2>9, <2>10, <2>11, <2>12, <2>13, <2>14
       DEF Command, Job
<1> QED
  BY <1>1, <1>2 DEF Next, Done

\* The type of every variable.  A run is created by one process while the others are
\* idle, its jobs in their order; nobody works without a run; the directory the archiving
\* fills is a new one; and whoever holds the lock or has loaded the state is in an append,
\* an update or a save of the run in place: however commands, hooks, ends and starts of
\* runs and kills follow each other, and whatever saves undo.
THEOREM CreationIsExclusive == ASSUME StartsAlone PROVE Spec => []OrderInv
<1>1. Init => OrderInv
  BY OrderInit
<1>2. OrderInv /\ [Next]_vars => OrderInv'
  BY OrderNext
<1> QED
  BY <1>1, <1>2, PTL DEF Spec

\* A step that appends keeps the hashes apart and every event somewhere.
LEMMA HashGrows ==
    ASSUME TypeOK, TypeOK', HashInv, Grows(events, minted, events', minted'), archive' = archive
    PROVE  HashInv'
<1>1. minted \in Nat /\ minted' \in Nat
  BY DEF TypeOK
<1>2. Minted(events', minted') /\ Distinct(events')
  BY DEF Grows, HashInv
<1>3. ASSUME NEW hash \in 1 .. minted'
      PROVE  Has(events', hash) \/ \E i \in 1 .. Len(archive') : Has(archive'[i].events, hash)
  <2>1. CASE hash \in 1 .. minted
    BY <2>1 DEF HashInv, Kept, Grows
  <2>2. CASE hash \notin 1 .. minted
    BY <2>2 DEF Grows
  <2> QED
    BY <2>1, <2>2
<1>4. Kept'
  BY <1>3 DEF Kept
<1> QED
  BY <1>2, <1>4 DEF HashInv

\* So does one that leaves the journals alone.
LEMMA HashSame ==
    ASSUME HashInv, UNCHANGED <<events, minted, archive>>
    PROVE  HashInv'
BY DEF HashInv, Minted, Distinct, Kept

\* The events are kept by every step: a move of the journal is the hard one.
LEMMA HashNext == StartsAlone /\ OrderInv /\ OrderInv' /\ HashInv /\ [Next]_vars => HashInv'
<1> SUFFICES ASSUME StartsAlone, OrderInv, OrderInv', HashInv, [Next]_vars PROVE HashInv'
  OBVIOUS
<1>0. TypeOK /\ TypeOK'
  BY DEF OrderInv
<1>1. CASE UNCHANGED vars
  BY <1>1, HashSame DEF vars, disk
<1>2. ASSUME NEW p \in Proc, Command(p) \/ Job(p) \/ Kill(p)
      PROVE  HashInv'
  <2> DEFINE Grown == Grows(events, minted, events', minted') /\ archive' = archive
  <2> DEFINE Same == UNCHANGED <<events, minted, archive>>
  <2>1. Grown => HashInv'
    BY <1>0, HashGrows
  <2>2. Same => HashInv'
    BY HashSame
  <2>3. CASE Start(p)
    <3>1. /\ UNCHANGED <<events, minted>>
          /\ UNCHANGED archive \/ archive' = Append(archive, EmptyDir)
      BY <2>3, StartStep DEF Quiet, disk, Start
    <3>2. CASE archive' = Append(archive, EmptyDir)
      <4>1. EmptyDir \in Dirs /\ archive \in Seq(Dirs)
        BY <1>0, NoFileFields DEF EmptyDir, Dirs, TypeOK
      <4>2. /\ Len(archive') = Len(archive) + 1 /\ Len(archive) \in Nat
            /\ \A i \in 1 .. Len(archive) : archive'[i] = archive[i]
        BY <3>2, <4>1, AppendProperties, LenProperties
      <4>3. Kept'
        BY <3>1, <4>2 DEF HashInv, Kept
      <4> QED
        BY <3>1, <4>3 DEF HashInv, Minted, Distinct
    <3> QED
      BY <2>2, <3>1, <3>2
  <2>4. CASE Hook(p)
    BY <2>2, <2>4, HookStep DEF disk
  <2>5. CASE Main(p)
    BY <2>1, <2>2, <2>5, MainStep, MainFails DEF PlainStep, disk
  <2>6. CASE \/ Note(p) \/ Abort(p) \/ Resume(p) \/ Phase(p) \/ PhaseComplete(p) \/ Step(p)
             \/ Declare(p) \/ Checkpoint(p) \/ Finalize(p)
    BY <2>2, <2>6, NewCommand DEF Quiet, disk
  <2>7. CASE AppendLine(p) \/ BumpLoad(p) \/ BumpWrite(p)
    <3>1. CASE AppendLine(p)
      BY <2>1, <2>2, <3>1, LineStep, LineFails DEF disk
    <3>2. CASE BumpLoad(p) \/ BumpWrite(p)
      BY <2>2, <3>2, BumpLoadStep, BumpWriteStep
    <3> QED
      BY <2>7, <3>1, <3>2
  <2>8. CASE Move(p)
    <3>1. PICK k \in 1 .. 4 : At(todo[p], k) /\ MovedFile(k) /\ UNCHANGED minted
      BY <2>8, MoveStep
    <3>2. archive # <<>>
      BY <3>1 DEF OrderInv, FreshDir
    <3> DEFINE n == Len(archive)
    <3>3. /\ n \in Nat \ {0} /\ Len(archive') = n
          /\ \A i \in 1 .. n : i # n => archive'[i] = archive[i]
          /\ archive'[n].events = (IF k = 1 THEN events ELSE archive[n].events)
      BY <1>0, <3>1, <3>2, MovedDir
    <3>4. CASE k = 1
      <4>1. events' = <<>> /\ archive'[n].events = events
        BY <3>1, <3>3, <3>4 DEF MovedFile
      <4>2. archive[n].events = <<>>
        BY <3>1, <3>4 DEF OrderInv, FreshDir, EmptyDir
      <4>3. \A hash : ~Has(<<>>, hash)
        BY EmptySeq DEF Has
      <4>4. ASSUME NEW hash \in 1 .. minted
            PROVE  \E i \in 1 .. n : Has(archive'[i].events, hash)
        <5>1. CASE Has(events, hash)
          BY <3>3, <4>1, <5>1
        <5>2. CASE ~Has(events, hash)
          <6>1. PICK i \in 1 .. n : Has(archive[i].events, hash)
            BY <5>2 DEF HashInv, Kept
          <6>2. i # n
            BY <4>2, <4>3, <6>1
          <6> QED
            BY <3>3, <6>1, <6>2
        <5> QED
          BY <5>1, <5>2
      <4>5. Kept'
        BY <3>1, <3>3, <4>4 DEF Kept
      <4>6. Minted(events', minted') /\ Distinct(events')
        BY <4>1, EmptySeq DEF Minted, Distinct
      <4> QED
        BY <4>5, <4>6 DEF HashInv
    <3>5. CASE k # 1
      <4>1. events' = events
        BY <3>1, <3>5 DEF MovedFile
      <4>2. \A i \in 1 .. n : archive'[i].events = archive[i].events
        BY <3>3, <3>5
      <4>3. Kept'
        BY <3>1, <3>3, <4>1, <4>2 DEF HashInv, Kept
      <4> QED
        BY <3>1, <4>1, <4>3 DEF HashInv, Minted, Distinct
    <3> QED
      BY <3>4, <3>5
  <2>9. CASE WriteState(p) \/ WriteIdMap(p)
    BY <2>2, <2>9, WriteStateStep, WriteIdMapStep
  <2>10. CASE RecoverJob(p)
    BY <2>1, <2>10, RecoverStep DEF PlainStep
  <2>11. CASE ResumeIfActive(p) \/ Gate(p)
    BY <2>2, <2>11, QuietJob DEF Quiet, disk
  <2>12. CASE UpdateLoad(p) \/ UpdateWrite(p) \/ SaveLoad(p) \/ SaveWrite(p)
    BY <2>2, <2>12, UpdateLoadStep, UpdateWriteStep, SaveLoadStep, SaveWriteStep DEF PlainStep
  <2>13. CASE Build(p)
    BY <2>2, <2>13, BuildStep DEF PlainStep
  <2>14. CASE Kill(p)
    BY <2>2, <2>14, KillStep DEF disk
  <2> QED
    BY <1>2, <2>3, <2>4, <2>5, <2>6, <2>7, <2>8, <2>9, <2>10, <2>11, <2>12, <2>13, <2>14
       DEF Command, Job
<1> QED
  BY <1>1, <1>2 DEF Next, Done

\* There are no events at first.
LEMMA HashInit == Init => HashInv
<1> SUFFICES ASSUME Init PROVE HashInv
  OBVIOUS
<1>1. events = <<>> /\ minted = 0 /\ Len(events) = 0
  BY EmptySeq DEF Init
<1> QED
  BY <1>1 DEF HashInv, Minted, Distinct, Kept

\* EventsKept, as module RunLifecycle has it, from the invariant.
LEMMA HashKept == OrderInv /\ HashInv => EventsKept
<1> SUFFICES ASSUME OrderInv, HashInv, NEW hash \in 1 .. minted
             PROVE  LET Holds(log) == {i \in 1 .. Len(log) : log[i].event_hash = hash}
                    IN  /\ \/ Holds(events) # {}
                           \/ \E i \in 1 .. Len(archive) : Holds(archive[i].events) # {}
                        /\ Cardinality(Holds(events)) <= 1
  BY DEF EventsKept
<1> DEFINE Holds(log) == {i \in 1 .. Len(log) : log[i].event_hash = hash}
<1>1. \A log : Has(log, hash) => Holds(log) # {}
  BY DEF Has
<1>2. Has(events, hash) \/ \E i \in 1 .. Len(archive) : Has(archive[i].events, hash)
  BY DEF HashInv, Kept
<1>3. Holds(events) # {} \/ \E i \in 1 .. Len(archive) : Holds(archive[i].events) # {}
  BY <1>1, <1>2
<1>4. Holds(events) = {} \/ \E i \in Holds(events) : Holds(events) = {i}
  BY DEF HashInv, Distinct
<1> HIDE DEF Holds
<1>5. Cardinality(Holds(events)) <= 1
  BY <1>4, FS_EmptySet, FS_Singleton
<1> QED
  BY <1>3, <1>5 DEF Holds

\* No event is lost over the ends and starts of runs, however the archiving is cut off
\* between its files: it is in the journal, once, or in an archived one.
THEOREM ArchivingKeepsEvents == ASSUME StartsAlone PROVE Spec => []EventsKept
<1>1. Init => OrderInv /\ HashInv
  BY OrderInit, HashInit
<1>2. OrderInv /\ HashInv /\ [Next]_vars => (OrderInv /\ HashInv)'
  BY OrderNext, HashNext
<1>3. OrderInv /\ HashInv => EventsKept
  BY HashKept
<1> QED
  BY <1>1, <1>2, <1>3, PTL DEF Spec

-----------------------------------------------------------------------------
(* What the files hold. *)

\* The line of the next event of a run belongs to its journal.
LEMMA LineAppend ==
    ASSUME TypeOK, JournalOf(events, state), NEW type \in EventTypes, NEW name \in Labels,
           events = <<>> => type = "run.started", Write(Written(type, name, OnDisk))
    PROVE  Numbered(events', state.run)
<1> DEFINE n == Len(events)
<1>1. OnDisk \in Disks /\ OnDisk.log = events /\ OnDisk.state = state /\ OnDisk.minted = minted
  BY DEF OnDisk, Disks, TypeOK
<1>2. state \in States /\ minted + 1 \in Nat /\ n \in Nat
  BY LenProperties DEF TypeOK
<1>3. /\ events' \in Seq(Events) /\ Len(events') = n + 1
      /\ \A i \in 1 .. n : events'[i] = events[i]
      /\ events'[n + 1] = Entry(state, minted + 1, type, name)
  <2>1. Written(type, name, OnDisk) \in Disks
    BY <1>1, WrittenFields
  <2>2. Written(type, name, OnDisk).log \in Seq(Events)
    BY <2>1 DEF Disks
  <2> QED
    BY <1>1, <2>2, WrittenFields DEF Write
<1>4. /\ events'[n + 1].run = state.run /\ events'[n + 1].sequence = state.sequence + 1
      /\ events'[n + 1].event_hash = minted + 1
      /\ events'[n + 1].previous_event_hash = state.last_event_hash
      /\ events'[n + 1].event_type = type
  BY <1>2, <1>3, EntryFields
<1>5. events' # <<>> /\ n + 1 # 0
  BY <1>2, <1>3, EmptySeq
<1>6. n = 0 <=> events = <<>>
  BY EmptySeq DEF TypeOK
<1>7. \A i \in 1 .. n + 1 : i \in 1 .. n \/ i = n + 1
  BY <1>2
<1>8. Linked(events')
  <2> SUFFICES ASSUME NEW i \in 1 .. n + 1
               PROVE  events'[i].previous_event_hash =
                        IF i = 1 THEN NoHash ELSE events'[i - 1].event_hash
    BY <1>3 DEF Linked
  <2>1. CASE i \in 1 .. n
    <3>1. i # 1 => i - 1 \in 1 .. n
      BY <1>2, <2>1
    <3> QED
      BY <1>3, <2>1, <3>1 DEF JournalOf, Linked
  <2>2. CASE i = n + 1
    <3>1. CASE n = 0
      BY <1>4, <1>6, <2>2, <3>1 DEF JournalOf
    <3>2. CASE n # 0
      <4>1. i # 1 /\ i - 1 = n /\ n \in 1 .. n
        BY <1>2, <2>2, <3>2
      <4>2. state.last_event_hash = events[n].event_hash
        BY <1>6, <3>2 DEF JournalOf
      <4> QED
        BY <1>3, <1>4, <2>2, <4>1, <4>2
    <3> QED
      BY <3>1, <3>2
  <2> QED
    BY <1>7, <2>1, <2>2
<1>9. state.sequence = n
  BY DEF JournalOf
<1>10. \A i \in 1 .. n + 1 : events'[i].run = state.run /\ events'[i].sequence = i
  BY <1>2, <1>3, <1>4, <1>7, <1>9 DEF JournalOf
<1>11. events'[1].event_type = "run.started"
  <2>1. CASE n = 0
    BY <1>4, <1>6, <2>1
  <2>2. CASE n # 0
    <3>1. 1 \in 1 .. n
      BY <1>2, <2>2
    <3> QED
      BY <1>3, <1>6, <2>2, <3>1 DEF JournalOf
  <2> QED
    BY <2>1, <2>2
<1>12. Numbered(events', state.run)
  BY <1>3, <1>8, <1>10, <1>11 DEF Numbered
<1> QED
  BY <1>12

\* A state set to the tip of its journal is the one the journal describes.
LEMMA TipOf ==
    ASSUME NEW s \in States, NEW log \in Seq(Events), log # <<>>, Numbered(log, s.run)
    PROVE  JournalOf(log, AtTip(s, log))
<1>1. Len(log) \in 1 .. Len(log)
  BY EmptySeq
<1>2. /\ AtTip(s, log).sequence = log[Len(log)].sequence
      /\ AtTip(s, log).last_event_hash = log[Len(log)].event_hash
      /\ AtTip(s, log).run = s.run
  BY TipFields
<1>3. log[Len(log)].sequence = Len(log)
  BY <1>1 DEF Numbered
<1> QED
  BY <1>2, <1>3 DEF Numbered, JournalOf

\* What a journal says of a state.
LEMMA SameTip ==
    ASSUME NEW log, NEW r, NEW s, JournalOf(log, r), s.run = r.run,
           s.sequence = r.sequence, s.last_event_hash = r.last_event_hash
    PROVE  JournalOf(log, s)
BY DEF JournalOf

\* A line of a run is that run's.
LEMMA LineOfRun ==
    ASSUME TypeOK, OfRun(events, state.run), NEW type \in EventTypes, NEW name \in Labels,
           Write(Written(type, name, OnDisk))
    PROVE  OfRun(events', state.run)
<1>1. OnDisk \in Disks /\ OnDisk.log = events /\ OnDisk.state = state
  BY DEF OnDisk, Disks, TypeOK
<1>2. OfRun(Written(type, name, OnDisk).log, state.run)
  BY <1>1, WrittenOfRun
<1> QED
  BY <1>2 DEF Write

\* In a journal that is the run's, recovery finds nothing to do.
LEMMA RecoverNothing ==
    ASSUME TypeOK, JournalOf(events, state), Recover
    PROVE  UNCHANGED <<events, state, minted>>
<1>1. Linked(events)
  BY DEF JournalOf
<1>2. ~Lagged(events, state)
  <2> SUFFICES ASSUME events # <<>>
               PROVE  /\ state.sequence = events[Len(events)].sequence
                      /\ state.last_event_hash = events[Len(events)].event_hash
    BY DEF Lagged
  <2>1. Len(events) \in 1 .. Len(events)
    BY EmptySeq DEF TypeOK
  <2> QED
    BY <2>1 DEF JournalOf
<1>3. Recovered = OnDisk
  BY <1>1, <1>2 DEF Recovered
<1> QED
  BY <1>3 DEF Recover, Write, OnDisk

\* A step of a command in a run.
LEMMA PlainFiles ==
    ASSUME OrderInv, OrderInv', FileInv, NEW p \in Proc, PlainStep(p), state' # NoFile,
           events' # <<>>, OfRun(events', state.run),
           state.run \notin undone' =>
             IF Midway' THEN Numbered(events', state.run) ELSE JournalOf(events', state'),
           crate' = crate \/ crate' = state.run,
           state'.checkpointed => crate' = state.run,
           BuildsFirst(todo'[p]) \/ crate' = state.run,
           RegOf(p)',
           \A q \in Proc \ {p} : lock = q /\ state.run \notin undone' => Agree(state, state')
    PROVE  FileInv'
<1>1. /\ \A q \in Proc : At(todo[q], 8) /\ At(todo'[q], 8)
      /\ \A q \in Proc \ {p} : todo'[q] = todo[q] /\ reg'[q] = reg[q] /\ (lock' = q <=> lock = q)
      /\ state # NoFile /\ state'.run = state.run /\ idMap' = idMap /\ archive' = archive
      /\ undone \subseteq undone'
  BY DEF PlainStep, Orderly, Locks, Turn
<1>2. \A q \in Proc : \A k \in 1 .. 7 : ~At(todo'[q], k) /\ ~At(todo[q], k)
  <2> SUFFICES ASSUME NEW q \in Proc, NEW k \in 1 .. 7
               PROVE  ~At(todo'[q], k) /\ ~At(todo[q], k)
    OBVIOUS
  <2>1. todo[q] \in Seq(Jobs) /\ todo'[q] \in Seq(Jobs)
    BY DEF OrderInv, TypeOK
  <2>2. k \in 1 .. 8 /\ 8 \in 1 .. 8 /\ k # 8
    OBVIOUS
  <2>3. ~At(todo[q], k)
    BY <1>1, <2>1, <2>2, OneStage
  <2>4. ~At(todo'[q], k)
    BY <1>1, <2>1, <2>2, OneStage
  <2> QED
    BY <2>3, <2>4
<1>3. DiskInv'
  BY <1>2 DEF DiskInv
<1>4. Sound
  BY <1>1 DEF FileInv, RestInv
<1>5. Sound'
  BY <1>1, <1>4 DEF Sound
<1>6. RestInv'
  BY <1>5 DEF RestInv
<1>7. \A dir : Whole(dir, undone) => Whole(dir, undone')
  BY <1>1 DEF Whole, Chain
<1>8. ArchiveInv'
  <2>1. \A i \in 1 .. Len(archive) : Whole(archive[i], undone)
    BY <1>2 DEF ArchiveInv, FileInv
  <2>2. \A i \in 1 .. Len(archive') : Whole(archive'[i], undone')
    BY <1>1, <1>7, <2>1
  <2> QED
    BY <2>2 DEF ArchiveInv
<1>9. MarkInv'
  BY <1>1 DEF MarkInv, FileInv
<1>10. RegInv'
  <2> SUFFICES ASSUME NEW q \in Proc \ {p} PROVE RegOf(q)'
    BY DEF RegInv
  <2>1. RegOf(q)
    BY DEF FileInv, RegInv
  <2>2. state'.run \notin undone' => state.run \notin undone
    BY <1>1
  <2> QED
    BY <1>1, <2>1, <2>2 DEF RegOf, Agree
<1> QED
  BY <1>3, <1>6, <1>8, <1>9, <1>10 DEF FileInv

\* A step of the process that creates a run.
LEMMA LoneFiles ==
    ASSUME OrderInv, OrderInv', NEW p \in Proc, NEW k \in 1 .. 8, LoneStep(p, k),
           BuildsFirst(todo'[p]), k # 8 => DiskAt(k)',
           k = 8 => IF state' = NoFile THEN Bare' ELSE Sound',
           \A i \in 1 .. Len(archive') : i # Len(archive') => Whole(archive'[i], undone'),
           k \notin 2 .. 4 => \A i \in 1 .. Len(archive') : Whole(archive'[i], undone'),
           RegInv'
    PROVE  FileInv'
<1>1. /\ \A q \in Proc \ {p} : \A l \in 1 .. 7 : ~At(todo'[q], l)
      /\ \A l \in 1 .. 8 : At(todo'[p], l) <=> l = k
  BY Turned DEF OrderInv
<1>2. \A q \in Proc \ {p} : todo'[q] = <<>>
  BY DEF LoneStep, Turn
<1>3. DiskInv'
  <2> SUFFICES ASSUME NEW q \in Proc, NEW l \in 1 .. 7, At(todo'[q], l)
               PROVE  DiskAt(l)'
    BY DEF DiskInv
  <2>1. q = p /\ l = k /\ k # 8
    BY <1>1
  <2> QED
    BY <2>1
<1>4. RestInv'
  BY <1>1 DEF RestInv
<1>5. k \in 2 .. 4 => \E q \in Proc : \E l \in 2 .. 4 : At(todo'[q], l)
  BY <1>1
<1>6. ArchiveInv'
  BY <1>5 DEF ArchiveInv
<1>7. \A q \in Proc : BuildsFirst(todo'[q])
  <2>1. BuildsFirst(<<>>)
    BY Parts
  <2> QED
    BY <1>2, <2>1
<1>8. MarkInv'
  <2> SUFFICES ASSUME NEW q \in Proc PROVE BuildsFirst(todo'[q])
    BY DEF MarkInv
  <2> QED
    BY <1>7
<1> QED
  BY <1>3, <1>4, <1>6, <1>8 DEF FileInv

\* What is known of the files before a step of the process that creates a run.
LEMMA LoneDisk ==
    ASSUME OrderInv, FileInv, NEW p \in Proc, NEW k \in 1 .. 7, At(todo[p], k)
    PROVE  /\ DiskAt(k) /\ BuildsFirst(todo[p])
           /\ \A i \in 1 .. Len(archive) : i # Len(archive) => Whole(archive[i], undone)
           /\ k \notin 2 .. 4 => \A i \in 1 .. Len(archive) : Whole(archive[i], undone)
<1>1. DiskAt(k) /\ \A i \in 1 .. Len(archive) : i # Len(archive) => Whole(archive[i], undone)
  BY DEF FileInv, DiskInv, ArchiveInv
<1>2. \A l \in 1 .. 8 : At(todo[p], l) => l = k
  BY OneStage DEF OrderInv, TypeOK
<1>3. BuildsFirst(todo[p])
  BY <1>2 DEF FileInv, MarkInv
<1>4. \A q \in Proc \ {p} : \A l \in 1 .. 7 : ~At(todo[q], l)
  BY Alone1, NoJobs
<1>5. k \notin 2 .. 4 => \A q \in Proc : \A l \in 2 .. 4 : ~At(todo[q], l)
  <2> SUFFICES ASSUME k \notin 2 .. 4, NEW q \in Proc, NEW l \in 2 .. 4, At(todo[q], l)
               PROVE  FALSE
    OBVIOUS
  <2>1. l \in 1 .. 7 /\ l \in 1 .. 8
    OBVIOUS
  <2> QED
    BY <1>2, <1>4, <2>1
<1> QED
  BY <1>1, <1>3, <1>5 DEF FileInv, ArchiveInv

\* What is known when nobody creates a run.
LEMMA RestDisk ==
    ASSUME OrderInv, FileInv, \A q \in Proc : At(todo[q], 8)
    PROVE  /\ IF state = NoFile THEN Bare ELSE Sound
           /\ \A i \in 1 .. Len(archive) : Whole(archive[i], undone)
<1>1. \A q \in Proc : \A l \in 2 .. 4 : ~At(todo[q], l)
  <2>1. \A l \in 2 .. 4 : l \in 1 .. 8 /\ l # 8
    OBVIOUS
  <2> QED
    BY <2>1, OneStage DEF OrderInv, TypeOK
<1> QED
  BY <1>1 DEF FileInv, RestInv, ArchiveInv

\* FileInv holds at first ...
LEMMA FileInit == Init => FileInv
<1> SUFFICES ASSUME Init PROVE FileInv
  OBVIOUS
<1>1. \A p \in Proc : todo[p] = <<>>
  BY DEF Init
<1>2. DiskInv
  BY <1>1, NoJobs DEF DiskInv
<1>3. MarkInv
  <2>1. BuildsFirst(<<>>)
    BY Parts
  <2> QED
    BY <1>1, <2>1 DEF MarkInv
<1>4. RestInv
  BY DEF Init, RestInv, Bare
<1>5. ArchiveInv
  BY EmptySeq DEF Init, ArchiveInv
<1>6. RegInv
  BY ConstantsAssumption DEF Init, RegInv, RegOf
<1> QED
  BY <1>2, <1>3, <1>4, <1>5, <1>6 DEF FileInv

\* The files of a run between commands are sound.
LEMMA PlainSound ==
    ASSUME OrderInv, FileInv, NEW p \in Proc, PlainStep(p)
    PROVE  /\ Sound /\ state'.run = state.run
           /\ BuildsFirst(todo[p]) \/ crate = state.run
BY RestDisk DEF PlainStep, FileInv, MarkInv

\* p leaves the lock as it is and is in no append: whether one is midway stays.
LEMMA MidwaySame ==
    ASSUME NEW p \in Proc, PlainStep(p), lock' = lock, lock # p
    PROVE  Midway' <=> Midway
BY DEF PlainStep, Turn, Midway

\* A step that leaves the files alone.
LEMMA QuietFiles ==
    ASSUME OrderInv, OrderInv', FileInv, NEW p \in Proc, Quiet(p),
           BuildsFirst(todo'[p])
    PROVE  FileInv'
<1>1. /\ PlainStep(p) /\ UNCHANGED <<events, state, idMap, crate, archive, lock, undone, minted>>
      /\ lock # p /\ reg'[p] = NoFile
  BY DEF Quiet, disk
<1>2. Sound /\ state # NoFile
  BY <1>1, PlainSound DEF PlainStep
<1>3. Midway' <=> Midway
  BY <1>1, MidwaySame
<1>4. RegOf(p)'
  BY <1>1 DEF RegOf
<1>5. Agree(state, state')
  BY <1>1 DEF Agree
<1> QED
  BY <1>1, <1>2, <1>3, <1>4, <1>5, PlainFiles DEF Sound

\* A recovery: only a journal whose chain is lost may change by it.
LEMMA RecoverFiles ==
    ASSUME OrderInv, OrderInv', FileInv, NEW p \in Proc, PlainStep(p), Recover, crate' = crate,
           UNCHANGED <<lock, reg, undone>>, Free(p), BuildsFirst(todo'[p]) \/ crate = state.run
    PROVE  FileInv'
<1>1. Sound /\ state # NoFile /\ state'.run = state.run
  BY PlainSound DEF PlainStep
<1>2. /\ lock = NoProc /\ lock' = NoProc /\ ~Midway /\ ~Midway'
  BY ConstantsAssumption DEF Recover, Midway
<1>3. /\ Recovered.state.checkpointed = state.checkpointed
      /\ events # <<>> => Recovered.log # <<>>
      /\ OfRun(events, state.run) => OfRun(Recovered.log, state.run)
  BY RecoveredFields DEF OrderInv
<1>4. /\ events' # <<>> /\ OfRun(events', state.run)
      /\ state'.checkpointed => crate' = state.run
  BY <1>1, <1>3 DEF Recover, Write, Sound
<1>5. state.run \notin undone' => JournalOf(events', state')
  <2> SUFFICES ASSUME state.run \notin undone PROVE JournalOf(events', state')
    OBVIOUS
  <2>1. JournalOf(events, state)
    BY <1>1, <1>2 DEF Sound
  <2>2. UNCHANGED <<events, state>>
    BY <2>1, RecoverNothing DEF OrderInv
  <2> QED
    BY <2>1, <2>2
<1>6. state' # NoFile
  BY PlainOrder DEF OrderInv
<1>7. RegOf(p)' /\ \A q \in Proc \ {p} : lock # q
  BY <1>2, ConstantsAssumption DEF RegOf, Free
<1> QED
  BY <1>1, <1>2, <1>4, <1>5, <1>6, <1>7, PlainFiles

\* The jobs left after one that is not the build.
LEMMA BuildsLeft ==
    ASSUME OrderInv, NEW p \in Proc, todo[p] # <<>>, Head(todo[p]).job # "build",
           todo'[p] \in {<<>>, todo[p], Tail(todo[p])},
           BuildsFirst(todo[p]) \/ crate = state.run
    PROVE  BuildsFirst(todo'[p]) \/ crate = state.run
BY BuildsTail, Parts DEF OrderInv, TypeOK

\* The line of an event in a run.
LEMMA LineFiles ==
    ASSUME OrderInv, OrderInv', FileInv, NEW p \in Proc, AppendLine(p),
           Head(todo[p]).job \in PlainWords
    PROVE  FileInv'
<1>1. state # NoFile
  BY WorkingPlain DEF AppendLine
<1>2. /\ Orderly(p) /\ lock = NoProc /\ lock' = p
      /\ UNCHANGED <<state, idMap, crate, archive, pc, todo, reg, undone, runs>>
      /\ todo[p] # <<>> /\ Head(todo[p]).job \notin Steps /\ reg[p] = NoFile
      /\ Write(Written(Head(todo[p]).job, Head(todo[p]).name, OnDisk))
      /\ events' # <<>>
  BY <1>1, LineStep
<1>3. PlainStep(p)
  BY <1>2, Stays
<1>4. Sound /\ (BuildsFirst(todo[p]) \/ crate = state.run)
  BY <1>3, PlainSound
<1>5. Head(todo[p]).job \in EventTypes /\ Head(todo[p]).name \in Labels
  BY <1>2, Appending
<1>6. OfRun(events', state.run)
  BY <1>2, <1>4, <1>5, LineOfRun DEF OrderInv, Sound
<1>7. Midway'
  BY <1>2 DEF Midway
<1>8. state.run \notin undone' => Numbered(events', state.run)
  <2> SUFFICES ASSUME state.run \notin undone PROVE Numbered(events', state.run)
    BY <1>2
  <2>1. JournalOf(events, state) /\ events # <<>>
    BY <1>2, <1>4, NotMidway DEF Sound
  <2> QED
    BY <1>2, <1>5, <2>1, LineAppend DEF OrderInv
<1>9. RegOf(p)'
  BY <1>2 DEF RegOf
<1>10. \A q \in Proc \ {p} : lock # q
  BY <1>2, ConstantsAssumption
<1> QED
  BY <1>1, <1>2, <1>3, <1>4, <1>6, <1>7, <1>8, <1>9, <1>10, PlainFiles DEF Sound

\* A load, under the lock or without it.
LEMMA LoadFiles ==
    ASSUME OrderInv, OrderInv', FileInv, NEW p \in Proc, PlainStep(p), Midway' <=> Midway,
           UNCHANGED <<events, state, crate, todo, undone>>, reg'[p] = state
    PROVE  FileInv'
<1>1. Sound /\ state # NoFile /\ (BuildsFirst(todo[p]) \/ crate = state.run)
  BY PlainSound DEF PlainStep
<1>2. Agree(state, state') /\ Agree(reg'[p], state')
  BY DEF Agree
<1>3. RegOf(p)'
  BY <1>1, <1>2 DEF RegOf, Sound
<1> QED
  BY <1>1, <1>2, <1>3, PlainFiles DEF Sound

\* The end of an append in a run.
LEMMA BumpFiles ==
    ASSUME OrderInv, OrderInv', FileInv, NEW p \in Proc, BumpWrite(p),
           Head(todo[p]).job \in PlainWords
    PROVE  FileInv'
<1>1. /\ lock = p /\ lock' = NoProc /\ reg'[p] = NoFile
      /\ todo[p] # <<>> /\ Head(todo[p]).job \notin Steps
      /\ events # <<>> /\ reg[p] # NoFile /\ reg[p].run = state.run /\ reg[p] \in States
      /\ state' = AtTip(reg[p], events) /\ state'.checkpointed = reg[p].checkpointed
      /\ UNCHANGED <<events, idMap, crate, archive, undone, runs, minted>>
  BY BumpWriteStep
<1>2. PlainStep(p) /\ state' # NoFile /\ (todo'[p] = <<>> \/ todo'[p] = Tail(todo[p]))
  BY AppendStep
<1>3. Sound /\ (BuildsFirst(todo[p]) \/ crate = state.run)
  BY <1>2, PlainSound
<1>4. Midway /\ ~Midway'
  BY <1>1, ConstantsAssumption DEF Midway
<1>5. state.run \notin undone' => JournalOf(events', state')
  <2> SUFFICES ASSUME state.run \notin undone PROVE JournalOf(events, state')
    BY <1>1
  <2>1. Numbered(events, reg[p].run)
    BY <1>1, <1>3, <1>4 DEF Sound
  <2> QED
    BY <1>1, <2>1, TipOf DEF OrderInv, TypeOK
<1>6. state'.checkpointed => crate' = state.run
  BY <1>1 DEF FileInv, RegInv, RegOf
<1>7. BuildsFirst(todo'[p]) \/ crate' = state.run
  <2>1. Head(todo[p]).job # "build"
    BY <1>1, Appending
  <2> QED
    BY <1>1, <1>2, <1>3, <2>1, BuildsLeft
<1>8. RegOf(p)' /\ \A q \in Proc \ {p} : lock # q
  BY <1>1 DEF RegOf
<1> QED
  BY <1>1, <1>2, <1>3, <1>4, <1>5, <1>6, <1>7, <1>8, PlainFiles DEF Sound

\* One field of state.json.
LEMMA UpdateFiles ==
    ASSUME OrderInv, OrderInv', FileInv, NEW p \in Proc, UpdateWrite(p)
    PROVE  FileInv'
<1>1. /\ PlainStep(p) /\ UNCHANGED <<events, crate, undone, minted>>
      /\ lock = p /\ lock' = NoProc /\ reg[p] # NoFile /\ reg'[p] = NoFile
      /\ todo[p] # <<>> /\ todo'[p] = Tail(todo[p]) /\ Head(todo[p]).job \in Updates
      /\ Head(todo[p]).job # "build"
      /\ reg[p].run = state.run /\ state' # NoFile /\ state'.run = state.run
      /\ state'.sequence = reg[p].sequence /\ state'.last_event_hash = reg[p].last_event_hash
      /\ state'.checkpointed = reg[p].checkpointed
  BY UpdateWriteStep DEF PlainStep
<1>2. Sound /\ (BuildsFirst(todo[p]) \/ crate = state.run)
  BY <1>1, PlainSound
<1>3. ~Midway /\ ~Midway'
  BY <1>1, ConstantsAssumption DEF Midway, Steps
<1>4. state.run \notin undone' => JournalOf(events', state')
  <2> SUFFICES ASSUME state.run \notin undone PROVE JournalOf(events, state')
    BY <1>1
  <2>1. Agree(reg[p], state)
    BY <1>1 DEF FileInv, RegInv, RegOf
  <2>2. JournalOf(events, state)
    BY <1>2, <1>3 DEF Sound
  <2> QED
    BY <1>1, <2>1, <2>2, SameTip DEF Agree
<1>5. state'.checkpointed => crate' = state.run
  BY <1>1 DEF FileInv, RegInv, RegOf
<1>6. BuildsFirst(todo'[p]) \/ crate' = state.run
  BY <1>1, <1>2, BuildsLeft
<1>7. RegOf(p)' /\ \A q \in Proc \ {p} : lock # q
  BY <1>1 DEF RegOf
<1> QED
  BY <1>1, <1>2, <1>3, <1>4, <1>5, <1>6, <1>7, PlainFiles DEF Sound

\* An unlocked save.
LEMMA SaveFiles ==
    ASSUME OrderInv, OrderInv', FileInv, NEW p \in Proc, SaveWrite(p)
    PROVE  FileInv'
<1>1. /\ PlainStep(p) /\ UNCHANGED <<events, crate, lock, minted>>
      /\ lock # p /\ reg[p] # NoFile /\ reg'[p] = NoFile
      /\ todo[p] # <<>> /\ todo'[p] = Tail(todo[p])
      /\ Head(todo[p]).job # "build" /\ state' # NoFile
      /\ state'.checkpointed => \/ reg[p].checkpointed
                                \/ Head(todo[p]).job = "mark_checkpoint"
      /\ state.run \notin undone' => state = reg[p] /\ Agree(state, state')
  BY SaveWriteStep
<1>2. Sound /\ (BuildsFirst(todo[p]) \/ crate = state.run)
  BY <1>1, PlainSound
<1>3. Midway' <=> Midway
  BY <1>1, MidwaySame
<1>4. state.run \notin undone' => state.run \notin undone
  BY <1>1 DEF PlainStep, Orderly
<1>5. state.run \notin undone' =>
        IF Midway' THEN Numbered(events', state.run) ELSE JournalOf(events', state')
  <2> SUFFICES ASSUME state.run \notin undone'
               PROVE  IF Midway THEN Numbered(events, state.run) ELSE JournalOf(events, state')
    BY <1>1, <1>3
  <2>1. Agree(state, state')
    BY <1>1
  <2> QED
    BY <1>2, <1>4, <2>1, SameTip DEF Sound, Agree
<1>6. Head(todo[p]).job = "mark_checkpoint" => ~BuildsFirst(todo[p])
  <2>1. todo[p] \in Seq(Jobs)
    BY DEF OrderInv, TypeOK
  <2>2. Len(todo[p]) \in Nat \ {0} /\ Head(todo[p]) = todo[p][1]
    BY <1>1, <2>1, JobsLeft
  <2> QED
    BY <2>2 DEF BuildsFirst
<1>7. state'.checkpointed => crate' = state.run
  <2>1. reg[p].checkpointed => crate = state.run
    BY <1>1 DEF FileInv, RegInv, RegOf
  <2> QED
    BY <1>1, <1>2, <1>6, <2>1
<1>8. BuildsFirst(todo'[p]) \/ crate' = state.run
  BY <1>1, <1>2, BuildsLeft
<1>9. RegOf(p)'
  BY <1>1 DEF RegOf
<1>10. events' # <<>> /\ OfRun(events', state.run)
  BY <1>1, <1>2 DEF Sound
<1> QED
  BY <1>1, <1>5, <1>7, <1>8, <1>9, <1>10, PlainFiles

\* A build.
LEMMA BuildFiles ==
    ASSUME OrderInv, OrderInv', FileInv, NEW p \in Proc, Build(p)
    PROVE  FileInv'
<1>1. /\ PlainStep(p) /\ UNCHANGED <<events, state, lock, reg, undone, minted>>
      /\ Free(p)
      /\ \/ crate' = state.run
         \/ crate' = crate /\ Plain(todo'[p])
  BY BuildStep
<1>2. Sound /\ state # NoFile
  BY <1>1, PlainSound DEF PlainStep
<1>3. Midway' <=> Midway
  BY <1>1, MidwaySame DEF Free
<1>4. RegOf(p)'
  BY <1>1 DEF RegOf, Free
<1>5. Agree(state, state')
  BY <1>1 DEF Agree
<1> QED
  BY <1>1, <1>2, <1>3, <1>4, <1>5, PlainFiles DEF Sound, Plain

\* In a step of the process that creates a run, outside its first append, nobody has
\* locked or loaded anything.
LEMMA LoneReg ==
    ASSUME OrderInv, NEW p \in Proc, NEW k \in 1 .. 8, LoneStep(p, k), Free(p),
           lock' = lock, reg'[p] = NoFile
    PROVE  RegInv' /\ ~Midway /\ ~Midway'
<1>1. lock = NoProc /\ ~Midway /\ \A q \in Proc : reg[q] = NoFile
  BY Nobody DEF LoneStep
<1>2. \A q \in Proc : reg'[q] = NoFile /\ lock' # q
  BY <1>1, ConstantsAssumption DEF LoneStep, Locks
<1>3. ~Midway'
  BY <1>2 DEF Midway
<1>4. RegInv'
  BY <1>2 DEF RegInv, RegOf
<1> QED
  BY <1>1, <1>3, <1>4

\* A move of the archiving.
LEMMA ArchiveFiles ==
    ASSUME OrderInv, OrderInv', FileInv, NEW p \in Proc, Move(p)
    PROVE  FileInv'
<1>1. PICK k \in 1 .. 4 :
        /\ At(todo[p], k) /\ LoneStep(p, k + 1) /\ MovedFile(k)
        /\ UNCHANGED <<locking, runs, minted>> /\ Free(p)
        /\ BuildsFirst(todo[p]) => BuildsFirst(todo'[p])
  BY MoveStep
<1>2. k \in 1 .. 7 /\ k + 1 \in 1 .. 8 /\ k + 1 # 8
  OBVIOUS
<1>3. /\ DiskAt(k) /\ BuildsFirst(todo[p])
      /\ \A i \in 1 .. Len(archive) : i # Len(archive) => Whole(archive[i], undone)
  BY <1>1, <1>2, LoneDisk
<1>4. archive # <<>>
  BY <1>1 DEF OrderInv, FreshDir
<1> DEFINE n == Len(archive)
<1>5. /\ n \in Nat \ {0} /\ Len(archive') = n
      /\ \A i \in 1 .. n : i # n => archive'[i] = archive[i]
      /\ archive'[n].events = (IF k = 1 THEN events ELSE archive[n].events)
      /\ archive'[n].state = (IF k = 2 THEN state ELSE archive[n].state)
      /\ archive'[n].idMap = (IF k = 3 THEN idMap ELSE archive[n].idMap)
      /\ archive'[n].crate = (IF k = 4 THEN crate ELSE archive[n].crate)
      /\ archive' \in Seq(Dirs)
  BY <1>1, <1>4, MovedDir DEF OrderInv
<1>6. archive' # <<>>
  BY <1>5, EmptySeq
<1>7. undone' = undone /\ lock' = lock /\ reg' = reg
  BY <1>1 DEF locking
<1>8. RegInv' /\ ~Midway
  BY <1>1, <1>2, <1>7, LoneReg DEF Free
<1>9. \A i \in 1 .. Len(archive') : i # Len(archive') => Whole(archive'[i], undone')
  BY <1>3, <1>5, <1>7
<1>10. DiskAt(k + 1)' /\ (k = 4 => Whole(archive'[n], undone'))
  <2>1. CASE k = 1
    <3>1. state # NoFile /\ Sound /\ Terminal(events)
      BY <1>3, <2>1 DEF DiskAt
    <3>2. events' = <<>> /\ UNCHANGED <<state, idMap, crate>> /\ archive'[n].events = events
      BY <1>1, <1>5, <2>1 DEF MovedFile
    <3>3. Chain(events, state, undone)
      BY <1>8, <3>1 DEF Chain, Sound
    <3>4. DiskAt(2)'
      BY <1>5, <1>6, <1>7, <3>1, <3>2, <3>3 DEF DiskAt, Sound, Last
    <3> QED
      BY <2>1, <3>4
  <2>2. CASE k = 2
    <3>1. /\ events = <<>> /\ state # NoFile
          /\ Last.events # <<>> /\ Chain(Last.events, state, undone) /\ Terminal(Last.events)
          /\ idMap = state.run /\ crate \in {NoRun, state.run}
      BY <1>3, <2>2 DEF DiskAt
    <3>2. /\ state' = NoFile /\ UNCHANGED <<events, idMap, crate>>
          /\ archive'[n].state = state /\ archive'[n].events = archive[n].events
      BY <1>1, <1>5, <2>2 DEF MovedFile
    <3>3. DiskAt(3)'
      BY <1>5, <1>6, <1>7, <3>1, <3>2 DEF DiskAt, Last
    <3> QED
      BY <2>2, <3>3
  <2>3. CASE k = 3
    <3>1. /\ events = <<>> /\ state = NoFile
          /\ Last.events # <<>> /\ Chain(Last.events, Last.state, undone) /\ Terminal(Last.events)
          /\ crate \in {NoRun, Last.state.run} /\ idMap = Last.state.run
      BY <1>3, <2>3 DEF DiskAt
    <3>2. /\ UNCHANGED <<events, state, crate>>
          /\ archive'[n].state = archive[n].state /\ archive'[n].events = archive[n].events
          /\ archive'[n].idMap = idMap
      BY <1>1, <1>5, <2>3 DEF MovedFile
    <3>3. DiskAt(4)'
      BY <1>5, <1>6, <1>7, <3>1, <3>2 DEF DiskAt, Last
    <3> QED
      BY <2>3, <3>3
  <2>4. CASE k = 4
    <3>1. /\ events = <<>> /\ state = NoFile
          /\ Last.events # <<>> /\ Chain(Last.events, Last.state, undone) /\ Terminal(Last.events)
          /\ crate \in {NoRun, Last.state.run} /\ Last.idMap = Last.state.run
      BY <1>3, <2>4 DEF DiskAt
    <3>2. /\ crate' = NoRun /\ UNCHANGED <<events, state, idMap>>
          /\ archive'[n].state = archive[n].state /\ archive'[n].events = archive[n].events
          /\ archive'[n].idMap = archive[n].idMap /\ archive'[n].crate = crate
      BY <1>1, <1>5, <2>4 DEF MovedFile
    <3>3. DiskAt(5)'
      BY <3>1, <3>2 DEF DiskAt, Bare
    <3>4. Whole(archive'[n], undone')
      BY <1>5, <1>7, <3>1, <3>2 DEF Whole, Last
    <3> QED
      BY <2>4, <3>3, <3>4
  <2> QED
    BY <2>1, <2>2, <2>3, <2>4
<1>11. k + 1 \notin 2 .. 4 => \A i \in 1 .. Len(archive') : Whole(archive'[i], undone')
  <2>1. k + 1 \notin 2 .. 4 => k = 4
    OBVIOUS
  <2>2. \A i \in 1 .. Len(archive') : i = n \/ i # Len(archive')
    BY <1>5
  <2> QED
    BY <1>9, <1>10, <2>1, <2>2
<1>12. BuildsFirst(todo'[p])
  BY <1>1, <1>3
<1> QED
  BY <1>1, <1>2, <1>8, <1>9, <1>10, <1>11, <1>12, LoneFiles

\* What is known of the files before and within the first append of a run.
LEMMA FirstDisk ==
    ASSUME OrderInv, FileInv, NEW p \in Proc, At(todo[p], 7)
    PROVE  /\ crate = NoRun /\ state = NewState(state.run) /\ state # NoFile /\ idMap = state.run
           /\ IF Midway THEN events # <<>> /\ Numbered(events, state.run) ELSE events = <<>>
           /\ BuildsFirst(todo[p]) /\ ~state.checkpointed
           /\ \A i \in 1 .. Len(archive) : Whole(archive[i], undone)
           /\ \A q \in Proc \ {p} : todo[q] = <<>> /\ reg[q] = NoFile /\ lock # q
<1>1. /\ DiskAt(7) /\ BuildsFirst(todo[p])
      /\ \A i \in 1 .. Len(archive) : Whole(archive[i], undone)
  BY LoneDisk
<1>2. /\ crate = NoRun /\ state = NewState(state.run) /\ state # NoFile /\ idMap = state.run
      /\ IF Midway THEN events # <<>> /\ Numbered(events, state.run) ELSE events = <<>>
  BY <1>1 DEF DiskAt
<1>3. state.run \in Nat
  BY StateFields DEF OrderInv, TypeOK
<1>4. ~state.checkpointed
  BY <1>2, <1>3, NewStateFields
<1>5. \A q \in Proc \ {p} : todo[q] = <<>>
  BY Alone1
<1>6. \A q \in Proc \ {p} : reg[q] = NoFile /\ lock # q
  BY <1>5, Unlocked DEF Free
<1> QED
  BY <1>1, <1>2, <1>4, <1>5, <1>6

\* The line of the first event of a run ...
LEMMA FirstLineFiles ==
    ASSUME OrderInv, OrderInv', FileInv, NEW p \in Proc, AppendLine(p),
           Head(todo[p]).job \notin PlainWords, state # NoFile
    PROVE  FileInv'
<1>1. /\ lock = NoProc /\ lock' = p
      /\ UNCHANGED <<state, idMap, crate, archive, pc, todo, reg, undone, runs>>
      /\ todo[p] # <<>> /\ Head(todo[p]).job \notin Steps /\ reg[p] = NoFile
      /\ Write(Written(Head(todo[p]).job, Head(todo[p]).name, OnDisk))
      /\ events' # <<>>
  BY LineStep
<1>2. At(todo[p], 7) /\ LoneStep(p, 7)
  BY FirstLine
<1>3. ~Midway /\ Midway'
  BY <1>1, NotMidway DEF Midway
<1>4. /\ crate = NoRun /\ state = NewState(state.run) /\ idMap = state.run
      /\ events = <<>> /\ BuildsFirst(todo[p])
      /\ \A i \in 1 .. Len(archive) : Whole(archive[i], undone)
      /\ \A q \in Proc \ {p} : reg[q] = NoFile
  BY <1>2, <1>3, FirstDisk
<1>5. TypeOK /\ state.run \in Nat
  BY StateFields DEF OrderInv, TypeOK
<1>6. JournalOf(events, state)
  <2>1. state.sequence = 0 /\ state.last_event_hash = NoHash
    BY <1>4, <1>5, NewStateFields
  <2> QED
    BY <1>4, <2>1, EmptySeq DEF JournalOf, Linked
<1>7. /\ Head(todo[p]).job = "run.started"
      /\ Head(todo[p]).job \in EventTypes /\ Head(todo[p]).name \in Labels
  BY <1>1, FirstJob, Appending
<1>8. Numbered(events', state.run)
  BY <1>1, <1>5, <1>6, <1>7, LineAppend
<1>9. DiskAt(7)'
  BY <1>1, <1>3, <1>4, <1>8 DEF DiskAt
<1>10. RegInv'
  BY <1>1, <1>4 DEF RegInv, RegOf
<1>11. /\ 7 \in 1 .. 8 /\ 7 # 8 /\ 7 \notin 2 .. 4
       /\ \A i \in 1 .. Len(archive') : Whole(archive'[i], undone')
       /\ BuildsFirst(todo'[p])
  BY <1>1, <1>4
<1> QED
  BY <1>2, <1>9, <1>10, <1>11, LoneFiles

\* ... the load of the state for its bump ...
LEMMA FirstLoadFiles ==
    ASSUME OrderInv, OrderInv', FileInv, NEW p \in Proc, BumpLoad(p),
           Head(todo[p]).job \notin PlainWords
    PROVE  FileInv'
<1>1. /\ lock = p /\ reg'[p] = state
      /\ UNCHANGED <<events, state, idMap, crate, archive, pc, todo, lock, undone, runs, minted>>
      /\ Head(todo[p]).job \notin Steps
  BY BumpLoadStep
<1>2. At(todo[p], 7) /\ LoneStep(p, 7)
  BY FirstBumpLoad
<1>3. Midway /\ Midway'
  BY <1>1 DEF Midway
<1>4. /\ crate = NoRun /\ state = NewState(state.run) /\ state # NoFile /\ idMap = state.run
      /\ events # <<>> /\ Numbered(events, state.run) /\ BuildsFirst(todo[p])
      /\ ~state.checkpointed
      /\ \A i \in 1 .. Len(archive) : Whole(archive[i], undone)
      /\ \A q \in Proc \ {p} : reg[q] = NoFile
  BY <1>2, <1>3, FirstDisk
<1>5. DiskAt(7)'
  BY <1>1, <1>3, <1>4 DEF DiskAt
<1>6. RegInv'
  <2> SUFFICES ASSUME NEW q \in Proc PROVE RegOf(q)'
    BY DEF RegInv
  <2>1. CASE q = p
    BY <1>1, <1>4, <2>1 DEF RegOf, Agree
  <2>2. CASE q # p
    <3>1. reg'[q] = NoFile
      BY <1>2, <1>4, <2>2 DEF LoneStep, Locks
    <3> QED
      BY <3>1 DEF RegOf
  <2> QED
    BY <2>1, <2>2
<1>7. /\ 7 \in 1 .. 8 /\ 7 # 8 /\ 7 \notin 2 .. 4
      /\ \A i \in 1 .. Len(archive') : Whole(archive'[i], undone')
      /\ BuildsFirst(todo'[p])
  BY <1>1, <1>4
<1> QED
  BY <1>2, <1>5, <1>6, <1>7, LoneFiles

\* ... and the bump.
LEMMA FirstWriteFiles ==
    ASSUME OrderInv, OrderInv', FileInv, NEW p \in Proc, BumpWrite(p),
           Head(todo[p]).job \notin PlainWords
    PROVE  FileInv'
<1>1. /\ lock = p /\ lock' = NoProc /\ reg'[p] = NoFile
      /\ \A q \in Proc \ {p} : reg'[q] = reg[q]
      /\ Head(todo[p]).job \notin Steps
      /\ events # <<>> /\ reg[p] # NoFile /\ reg[p].run = state.run /\ reg[p] \in States
      /\ state' = AtTip(reg[p], events) /\ state'.checkpointed = reg[p].checkpointed
      /\ state'.run = state.run
      /\ UNCHANGED <<events, idMap, crate, archive, undone, runs, minted>>
  BY BumpWriteStep
<1>2. /\ At(todo[p], 7) /\ LoneStep(p, 8) /\ state' # NoFile
      /\ BuildsFirst(todo[p]) => BuildsFirst(todo'[p])
  BY FirstBumpWrite
<1>3. Midway /\ ~Midway'
  BY <1>1, ConstantsAssumption DEF Midway
<1>4. /\ crate = NoRun /\ idMap = state.run /\ Numbered(events, state.run) /\ BuildsFirst(todo[p])
      /\ \A i \in 1 .. Len(archive) : Whole(archive[i], undone)
      /\ \A q \in Proc \ {p} : reg[q] = NoFile
  BY <1>2, <1>3, FirstDisk
<1>5. JournalOf(events, state')
  BY <1>1, <1>4, TipOf DEF OrderInv, TypeOK
<1>6. OfRun(events, state.run)
  BY <1>4 DEF Numbered, OfRun
<1>7. state'.checkpointed => crate = state.run
  BY <1>1 DEF FileInv, RegInv, RegOf
<1>8. Sound'
  BY <1>1, <1>3, <1>4, <1>5, <1>6, <1>7 DEF Sound
<1>9. RegInv'
  BY <1>1, <1>4 DEF RegInv, RegOf
<1>10. /\ 8 \in 1 .. 8 /\ 8 \notin 2 .. 4
       /\ \A i \in 1 .. Len(archive') : Whole(archive'[i], undone')
       /\ BuildsFirst(todo'[p])
  BY <1>1, <1>2, <1>4
<1> QED
  BY <1>2, <1>8, <1>9, <1>10, LoneFiles

\* The begin of the creation of a run.
LEMMA BeginFiles ==
    ASSUME OrderInv, OrderInv', FileInv, NEW p \in Proc,
           UNCHANGED <<events, state, idMap, crate, locking>>, Free(p),
           \A q \in Proc : At(todo[q], 8), BuildsFirst(todo'[p]),
           \/ LoneStep(p, 5) /\ state = NoFile /\ archive' = archive
           \/ /\ LoneStep(p, 1) /\ state # NoFile /\ ~IsActive(events)
              /\ archive' = Append(archive, EmptyDir)
    PROVE  FileInv'
<1>1. undone' = undone /\ lock' = lock /\ reg' = reg /\ reg'[p] = NoFile
  BY DEF locking, Free
<1>2. /\ IF state = NoFile THEN Bare ELSE Sound
      /\ \A i \in 1 .. Len(archive) : Whole(archive[i], undone)
  BY RestDisk
<1>3. CASE LoneStep(p, 5) /\ state = NoFile /\ archive' = archive
  <2>1. DiskAt(5)'
    BY <1>2, <1>3 DEF DiskAt, Bare
  <2>2. RegInv'
    BY <1>1, <1>3, LoneReg
  <2>3. 5 \in 1 .. 8 /\ 5 # 8
    OBVIOUS
  <2>4. \A i \in 1 .. Len(archive') : Whole(archive'[i], undone')
    BY <1>1, <1>2, <1>3
  <2> QED
    BY <1>3, <2>1, <2>2, <2>3, <2>4, LoneFiles
<1>4. CASE /\ LoneStep(p, 1) /\ state # NoFile /\ ~IsActive(events)
           /\ archive' = Append(archive, EmptyDir)
  <2>1. EmptyDir \in Dirs /\ archive \in Seq(Dirs)
    BY NoFileFields DEF EmptyDir, Dirs, OrderInv, TypeOK
  <2>2. /\ Len(archive') = Len(archive) + 1 /\ Len(archive) \in Nat
        /\ \A i \in 1 .. Len(archive) : archive'[i] = archive[i]
        /\ archive'[Len(archive) + 1] = EmptyDir
    BY <1>4, <2>1, AppendProperties, LenProperties
  <2>3. Whole(EmptyDir, undone')
    BY DEF Whole, EmptyDir
  <2>4. \A i \in 1 .. Len(archive') : Whole(archive'[i], undone')
    <3>1. \A i \in 1 .. Len(archive') : i \in 1 .. Len(archive) \/ i = Len(archive) + 1
      BY <2>2
    <3> QED
      BY <1>1, <1>2, <2>2, <2>3, <3>1
  <2>5. RegInv' /\ ~Midway /\ ~Midway'
    BY <1>1, <1>4, LoneReg
  <2>6. DiskAt(1)'
    BY <1>1, <1>2, <1>4, <2>5 DEF DiskAt, Sound, IsActive, Terminal
  <2>7. 1 \in 1 .. 8 /\ 1 # 8
    OBVIOUS
  <2> QED
    BY <1>4, <2>4, <2>5, <2>6, <2>7, LoneFiles
<1> QED
  BY <1>3, <1>4

\* The first files of a new run.
LEMMA BootstrapFiles ==
    ASSUME OrderInv, OrderInv', FileInv, NEW p \in Proc, WriteState(p) \/ WriteIdMap(p)
    PROVE  FileInv'
<1>1. CASE WriteState(p)
  <2>1. /\ At(todo[p], 5) /\ LoneStep(p, 6)
        /\ state' = NewState(runs + 1)
        /\ UNCHANGED <<events, idMap, crate, archive, locking, minted>> /\ Free(p)
        /\ BuildsFirst(todo[p]) => BuildsFirst(todo'[p])
    BY <1>1, WriteStateStep
  <2>2. 5 \in 1 .. 7 /\ 5 \notin 2 .. 4 /\ 6 \in 1 .. 8 /\ 6 # 8 /\ 6 \notin 2 .. 4
    OBVIOUS
  <2>3. /\ DiskAt(5) /\ BuildsFirst(todo[p])
        /\ \A i \in 1 .. Len(archive) : Whole(archive[i], undone)
    BY <2>1, <2>2, LoneDisk
  <2>4. runs + 1 \in Nat /\ runs + 1 # 0
    BY DEF OrderInv, TypeOK
  <2>5. state'.run = runs + 1 /\ state' # NoFile
    BY <2>1, <2>4, NewStateFields, NoFileFields
  <2>6. DiskAt(6)'
    BY <2>1, <2>3, <2>5 DEF DiskAt, Bare
  <2>7. undone' = undone /\ lock' = lock /\ reg'[p] = NoFile
    BY <2>1 DEF locking, Free
  <2>8. RegInv'
    BY <2>1, <2>2, <2>7, LoneReg
  <2>9. \A i \in 1 .. Len(archive') : Whole(archive'[i], undone')
    BY <2>1, <2>3, <2>7
  <2> QED
    BY <2>1, <2>2, <2>3, <2>6, <2>8, <2>9, LoneFiles
<1>2. CASE WriteIdMap(p)
  <2>1. /\ At(todo[p], 6) /\ LoneStep(p, 7)
        /\ idMap' = state.run
        /\ UNCHANGED <<events, state, crate, archive, locking, minted>> /\ Free(p)
        /\ BuildsFirst(todo[p]) => BuildsFirst(todo'[p])
    BY <1>2, WriteIdMapStep
  <2>2. 6 \in 1 .. 7 /\ 6 \notin 2 .. 4 /\ 7 \in 1 .. 8 /\ 7 # 8 /\ 7 \notin 2 .. 4
    OBVIOUS
  <2>3. /\ DiskAt(6) /\ BuildsFirst(todo[p])
        /\ \A i \in 1 .. Len(archive) : Whole(archive[i], undone)
    BY <2>1, <2>2, LoneDisk
  <2>4. undone' = undone /\ lock' = lock /\ reg'[p] = NoFile
    BY <2>1 DEF locking, Free
  <2>5. RegInv' /\ ~Midway'
    BY <2>1, <2>2, <2>4, LoneReg
  <2>6. DiskAt(7)'
    BY <2>1, <2>3, <2>5 DEF DiskAt, Bare
  <2>7. \A i \in 1 .. Len(archive') : Whole(archive'[i], undone')
    BY <2>1, <2>3, <2>4
  <2> QED
    BY <2>1, <2>2, <2>3, <2>5, <2>6, <2>7, LoneFiles
<1> QED
  BY <1>1, <1>2

\* A kill.
LEMMA KillFiles ==
    ASSUME SafelyKilled, OrderInv, OrderInv', FileInv, NEW p \in Proc, Kill(p)
    PROVE  FileInv'
<1>1. /\ UNCHANGED <<events, state, idMap, crate, archive, lock, undone>> /\ todo'[p] = <<>>
      /\ lock # p /\ reg'[p] = NoFile
      /\ Head(todo[p]).job \in KillBefore
      /\ \/ Quiet(p)
         \/ LoneStep(p, 8) /\ \E k \in 1 .. 7 : At(todo[p], k) /\ Head(todo[p]).job = Creating[k]
  BY KillStep DEF disk
<1>2. BuildsFirst(todo'[p])
  BY <1>1, Parts
<1>3. CASE Quiet(p)
  BY <1>2, <1>3, QuietFiles
<1>4. CASE LoneStep(p, 8) /\ \E k \in 1 .. 7 : At(todo[p], k) /\ Head(todo[p]).job = Creating[k]
  <2>1. PICK k \in 1 .. 7 : At(todo[p], k) /\ Head(todo[p]).job = Creating[k]
    BY <1>4
  <2>2. k = 1 \/ k = 5
    <3>1. k = 1 \/ k = 2 \/ k = 3 \/ k = 4 \/ k = 5 \/ k = 6 \/ k = 7
      OBVIOUS
    <3> QED
      BY <1>1, <2>1, <3>1, Words DEF SafelyKilled
  <2>3. todo[p] # <<>> /\ Head(todo[p]).job \in Steps \ (Updates \cup Saves)
    <3>1. todo[p] # <<>>
      BY <2>1, Alone1
    <3>2. Head(todo[p]).job \in {"events.ndjson", "write_state"}
      BY <2>1, <2>2, Words
    <3> QED
      BY <3>1, <3>2 DEF Steps, Files, Updates, Saves
  <2>4. Free(p)
    BY <2>3, Unlocked
  <2>5. RegInv' /\ ~Midway /\ ~Midway'
    BY <1>1, <1>4, <2>4, LoneReg
  <2>6. DiskAt(k) /\ (k \notin 2 .. 4 => \A i \in 1 .. Len(archive) : Whole(archive[i], undone))
    BY <2>1, LoneDisk
  <2>7. \A i \in 1 .. Len(archive') : Whole(archive'[i], undone')
    BY <1>1, <2>2, <2>6
  <2>8. IF state = NoFile THEN Bare ELSE Sound
    BY <2>2, <2>6 DEF DiskAt
  <2>9. IF state' = NoFile THEN Bare' ELSE Sound'
    BY <1>1, <2>5, <2>8 DEF Bare, Sound
  <2> QED
    BY <1>2, <1>4, <2>5, <2>7, <2>9, LoneFiles
<1> QED
  BY <1>1, <1>3, <1>4

\* A step that changes none of the files, nor who does what.
LEMMA SameFiles ==
    ASSUME FileInv, UNCHANGED <<disk, pc, todo, locking, runs, minted>>
    PROVE  FileInv'
<1>1. UNCHANGED <<events, state, idMap, crate, archive, todo, lock, reg, undone>>
  BY DEF disk, locking
<1>2. Midway' <=> Midway
  BY <1>1 DEF Midway
<1>3. Sound' <=> Sound
  BY <1>1, <1>2 DEF Sound
<1>4. \A k : DiskAt(k) => DiskAt(k)'
  BY <1>1, <1>2, <1>3 DEF DiskAt, Bare, Last
<1>5. DiskInv'
  BY <1>1, <1>4 DEF FileInv, DiskInv
<1>6. RestInv'
  BY <1>1, <1>3 DEF FileInv, RestInv, Bare
<1>7. ArchiveInv' /\ MarkInv' /\ RegInv'
  BY <1>1 DEF FileInv, ArchiveInv, MarkInv, RegInv, RegOf
<1> QED
  BY <1>5, <1>6, <1>7 DEF FileInv

\* ... and after every step.
LEMMA FileNext ==
    StartsAlone /\ SafelyKilled /\ OrderInv /\ OrderInv' /\ FileInv /\ [Next]_vars => FileInv'
<1> SUFFICES ASSUME StartsAlone, SafelyKilled, OrderInv, OrderInv', FileInv, [Next]_vars
             PROVE  FileInv'
  OBVIOUS
<1>1. CASE UNCHANGED vars
  BY <1>1, SameFiles DEF vars
<1>2. ASSUME NEW p \in Proc, Command(p) \/ Job(p) \/ Kill(p)
      PROVE  FileInv'
  <2>1. CASE Start(p)
    BY <2>1, StartStep, QuietFiles, BeginFiles
  <2>2. CASE Hook(p)
    <3>1. /\ UNCHANGED <<events, state, idMap, crate, locking>> /\ archive' = archive
          /\ Free(p) /\ \A q \in Proc : At(todo[q], 8)
          /\ BuildsFirst(todo'[p])
          /\ Quiet(p) \/ (LoneStep(p, 5) /\ state = NoFile)
      BY <2>2, HookStep DEF disk
    <3> QED
      BY <3>1, QuietFiles, BeginFiles
  <2>3. CASE Main(p)
    <3>1. CASE state = NoFile
      BY <2>3, <3>1, MainFails, SameFiles
    <3>2. CASE state # NoFile
      <4>1. /\ PlainStep(p) /\ Recover /\ crate' = crate /\ todo' = todo
            /\ UNCHANGED <<lock, reg, undone>> /\ Free(p)
        BY <2>3, <3>2, MainStep
      <4>2. BuildsFirst(todo[p]) \/ crate = state.run
        BY <4>1, PlainSound
      <4>3. BuildsFirst(todo'[p]) \/ crate = state.run
        BY <4>1, <4>2
      <4> QED
        BY <4>1, <4>3, RecoverFiles
    <3> QED
      BY <3>1, <3>2
  <2>4. CASE \/ Note(p) \/ Abort(p) \/ Resume(p) \/ Phase(p) \/ PhaseComplete(p) \/ Step(p)
             \/ Declare(p) \/ Checkpoint(p) \/ Finalize(p)
    BY <2>4, NewCommand, QuietFiles DEF Plain
  <2>5. CASE AppendLine(p)
    <3>1. CASE state = NoFile
      BY <2>5, <3>1, LineFails, FirstDisk
    <3>2. CASE state # NoFile
      BY <2>5, <3>2, LineFiles, FirstLineFiles
    <3> QED
      BY <3>1, <3>2
  <2>6. CASE BumpLoad(p)
    <3>1. CASE Head(todo[p]).job \notin PlainWords
      BY <2>6, <3>1, FirstLoadFiles
    <3>2. CASE Head(todo[p]).job \in PlainWords
      <4>1. /\ Orderly(p) /\ lock = p /\ reg'[p] = state
            /\ UNCHANGED <<events, state, idMap, crate, archive, pc, todo, lock, undone, runs>>
            /\ todo[p] # <<>> /\ Head(todo[p]).job \notin Steps
        BY <2>6, BumpLoadStep
      <4>2. PlainStep(p)
        BY <3>2, <4>1, Stays
      <4>3. Midway' <=> Midway
        BY <4>1 DEF Midway
      <4> QED
        BY <4>1, <4>2, <4>3, LoadFiles
    <3> QED
      BY <3>1, <3>2
  <2>7. CASE BumpWrite(p)
    BY <2>7, BumpFiles, FirstWriteFiles
  <2>8. CASE Move(p)
    BY <2>8, ArchiveFiles
  <2>9. CASE WriteState(p) \/ WriteIdMap(p)
    BY <2>9, BootstrapFiles
  <2>10. CASE RecoverJob(p)
    <3>1. /\ PlainStep(p) /\ Recover /\ crate' = crate
          /\ UNCHANGED <<lock, reg, undone>> /\ Free(p)
          /\ todo[p] # <<>> /\ todo'[p] = Tail(todo[p]) /\ Head(todo[p]).job # "build"
      BY <2>10, RecoverStep
    <3>2. BuildsFirst(todo[p]) \/ crate = state.run
      BY <3>1, PlainSound
    <3>3. BuildsFirst(todo'[p]) \/ crate = state.run
      BY <3>1, <3>2, BuildsLeft
    <3> QED
      BY <3>1, <3>3, RecoverFiles
  <2>11. CASE ResumeIfActive(p) \/ Gate(p)
    BY <2>11, QuietJob, QuietFiles DEF Plain
  <2>12. CASE UpdateLoad(p)
    <3>1. /\ PlainStep(p) /\ lock = NoProc /\ lock' = p /\ reg'[p] = state
          /\ Head(todo[p]).job \in Updates
          /\ UNCHANGED <<events, state, crate, todo, undone>>
      BY <2>12, UpdateLoadStep
    <3>2. ~Midway /\ ~Midway'
      BY <3>1, NotMidway DEF Midway, Steps
    <3> QED
      BY <3>1, <3>2, LoadFiles
  <2>13. CASE UpdateWrite(p)
    BY <2>13, UpdateFiles
  <2>14. CASE SaveLoad(p)
    <3>1. /\ PlainStep(p) /\ lock # p /\ reg'[p] = state /\ lock' = lock
          /\ UNCHANGED <<events, state, crate, todo, undone>>
      BY <2>14, SaveLoadStep
    <3> QED
      BY <3>1, MidwaySame, LoadFiles
  <2>15. CASE SaveWrite(p)
    BY <2>15, SaveFiles
  <2>16. CASE Build(p)
    BY <2>16, BuildFiles
  <2>17. CASE Kill(p)
    BY <2>17, KillFiles
  <2> QED
    BY <1>2, <2>1, <2>2, <2>3, <2>4, <2>5, <2>6, <2>7, <2>8, <2>9, <2>10, <2>11, <2>12,
       <2>13, <2>14, <2>15, <2>16, <2>17
       DEF Command, Job
<1> QED
  BY <1>1, <1>2 DEF Next, Done

-----------------------------------------------------------------------------
(* The theorems. *)

\* What the files hold at every stage, for runs whose creation is cut only where it may be.
LEMMA FileInvariant == StartsAlone /\ SafelyKilled => (Spec => [](OrderInv /\ FileInv))
<1> SUFFICES ASSUME StartsAlone, SafelyKilled PROVE Spec => [](OrderInv /\ FileInv)
  OBVIOUS
<1>1. Init => OrderInv /\ FileInv
  BY OrderInit, FileInit
<1>2. OrderInv /\ FileInv /\ [Next]_vars => (OrderInv /\ FileInv)'
  BY OrderNext, FileNext
<1> QED
  BY <1>1, <1>2, PTL DEF Spec

\* What the files hold while nobody creates a run.
LEMMA RestAgain ==
    ASSUME OrderInv, FileInv, ~SomeoneCreates
    PROVE  /\ \A p \in Proc : At(todo[p], 8)
           /\ IF state = NoFile THEN Bare ELSE Sound
           /\ \A i \in 1 .. Len(archive) : Whole(archive[i], undone)
<1>1. \A p \in Proc : At(todo[p], 8)
  BY NobodyCreates
<1> QED
  BY <1>1, RestDisk

\* The journal is that of the run state.json describes, whatever runs went before and
\* wherever a command was killed, the moves and first writes of a new run excepted; and as
\* long as no unlocked write of state.json took another process's write back, it is one
\* chain from the run's first event to the tip state.json holds.
THEOREM JournalOfRun == ASSUME StartsAlone, SafelyKilled PROVE Spec => []JournalIsOfRun
<1>1. OrderInv /\ FileInv => JournalIsOfRun
  BY RestAgain, NotMidway DEF JournalIsOfRun, Sound
<1> QED
  BY <1>1, FileInvariant, PTL

\* A run is archived whole, with the state, the id map and the crate that are its own; its
\* journal is one chain with the same exception.
THEOREM RunsArchivedWhole == ASSUME StartsAlone, SafelyKilled PROVE Spec => []ArchivedRunsWhole
<1>1. OrderInv /\ FileInv => ArchivedRunsWhole
  BY RestAgain DEF ArchivedRunsWhole, Whole, Chain, Terminal
<1> QED
  BY <1>1, FileInvariant, PTL

\* The crate in place is never an earlier run's, and a checkpointed run has its own.
THEOREM CrateOfRun == ASSUME StartsAlone, SafelyKilled PROVE Spec => []CrateIsOfRun
<1>1. OrderInv /\ FileInv => CrateIsOfRun
  BY RestAgain DEF CrateIsOfRun, Sound
<1> QED
  BY <1>1, FileInvariant, PTL
=============================================================================
