-------------------------- MODULE StateCacheProofs --------------------------
(***************************************************************************)
(* state.json is a cache of the journal: the proof that the phase, the     *)
(* step and the declarations of module RunLifecycle follow the journal,    *)
(* for any names and scripts, in every run in which no unlocked write has  *)
(* taken another's back.                                                   *)
(***************************************************************************)
EXTENDS RunLifecycleProofs

-----------------------------------------------------------------------------
(* The fields of state.json that repeat the journal. *)

\* The commands that set one of them; Updates are the jobs that do.
UpdateCommands == {"phase", "complete", "step", "declare"}

FieldEvents == {"workflow.phase.started", "workflow.phase.completed", "workflow.step.started",
                "workflow.step.completed", "workflow.input.declared"}

MayUpdate(p) == \E i \in 1 .. Len(Script[p]) : Script[p][i] \cap UpdateCommands # {}

\* One process sets them: the agent.  Its hooks do not.
OneUpdater == \A p, q \in Proc : MayUpdate(p) /\ MayUpdate(q) => p = q

\* No kill between an event and the field that repeats it, nor between the end of a
\* phase and the start of the next.
UpdatesNotCut == KillBefore \cap (Updates \cup {"workflow.phase.started"}) = {}

\* What is left of a command that sets no field, and of one that does.
Untracked(jobs) == \A i \in 1 .. Len(jobs) : jobs[i].job \notin Updates \cup FieldEvents

Tracked(jobs) ==
    jobs # <<>> /\ \A i \in 1 .. Len(jobs) : jobs[i].job \in Updates \cup FieldEvents

PhaseFollows == \A x \in Names : state.phase = x <=> OpenPhase(x)

StepFollows == \A x \in Names : state.step = x <=> OpenStep(x)

Declared == {events[i].name : i \in Indices("workflow.input.declared")}

DeclaredFollows == state.declared = Declared

Followed == PhaseFollows /\ StepFollows /\ DeclaredFollows

\* A command that has not appended its event yet ...
Before(jobs) ==
    \/ \E n \in Names, x \in Labels :
         jobs = <<DoWith("workflow.phase.completed", x), DoWith("workflow.phase.started", n),
                  DoWith("set_phase", n)>>
    \/ \E x \in Labels : jobs = <<DoWith("workflow.phase.completed", x), Do("clear_phase")>>
    \/ \E n \in Names : jobs = <<DoWith("workflow.step.started", n), DoWith("set_step", n)>>
    \/ \E n \in Names : jobs = <<DoWith("workflow.step.completed", n), DoWith("clear_step", n)>>
    \/ \E n \in Names : jobs = <<DoWith("workflow.input.declared", n), DoWith("set_declared", n)>>

\* ... and one that has, with what the journal then says and the field does not yet.
Phasing(jobs) == StepFollows /\ DeclaredFollows /\
    \/ \E n \in Names : jobs = <<DoWith("workflow.phase.started", n), DoWith("set_phase", n)>>
    \/ \E n \in Names : /\ jobs = <<DoWith("set_phase", n)>>
                        /\ \A x \in Names : OpenPhase(x) <=> x = n
    \/ jobs = <<Do("clear_phase")>> /\ \A x \in Names : ~OpenPhase(x)

Stepping(jobs) == PhaseFollows /\ DeclaredFollows /\
    \/ \E n \in Names : /\ jobs = <<DoWith("set_step", n)>>
                        /\ \A x \in Names : OpenStep(x) <=> x = n
    \/ \E n \in Names : /\ jobs = <<DoWith("clear_step", n)>>
                        /\ \A x \in Names : OpenStep(x) <=> state.step = x /\ x # n

Declaring(jobs) == PhaseFollows /\ StepFollows /\
    \E n \in Names : jobs = <<DoWith("set_declared", n)>> /\ Declared = state.declared \cup {n}

Underway(jobs) ==
    (Before(jobs) /\ Followed) \/ Phasing(jobs) \/ Stepping(jobs) \/ Declaring(jobs)

\* The jobs whose effect a reader of the journal does not find yet: an append counts as
\* done when its line is written.
Left(p) ==
    IF lock = p /\ todo[p] # <<>> /\ Head(todo[p]).job \notin Steps THEN Tail(todo[p]) ELSE todo[p]

\* The journal has no event about a field.
NoneYet == \A word \in FieldEvents : Indices(word) = {}

\* Between runs the fields repeat nothing; in a run they repeat the journal, but for
\* the command that is about to set them, until an unlocked write undoes one.
FollowInv ==
    /\ \A p \in Proc : At(todo[p], 7) => NoneYet
    /\ \/ /\ \A p \in Proc : Untracked(todo[p])
          /\ \/ state = NoFile \/ state.run \in undone
             \/ \E p \in Proc : \E k \in 2 .. 7 : At(todo[p], k)
             \/ Followed
       \/ \E u \in Proc :
            /\ MayUpdate(u) /\ Tracked(todo[u])
            /\ \A p \in Proc \ {u} : Untracked(todo[p])
            /\ state.run \notin undone => Underway(Left(u))

\* What one more event changes of what a reader of the journal finds.
OneMore(type, name) ==
    /\ Len(events) \in Nat /\ Len(events') = Len(events) + 1
    /\ \A i \in 1 .. Len(events) : events'[i] = events[i]
    /\ events'[Len(events) + 1].event_type = type
    /\ events'[Len(events) + 1].name = name

\* The places of the events of one type.
LEMMA IndicesAppend ==
    ASSUME NEW type, NEW name, OneMore(type, name), NEW word
    PROVE  /\ Indices(word)' = Indices(word) \cup (IF word = type THEN {Len(events) + 1} ELSE {})
           /\ Indices(word) \subseteq 1 .. Len(events)
BY DEF OneMore, Indices

\* The open phase after one more event ...
LEMMA PhaseAppend ==
    ASSUME NEW type, NEW name, OneMore(type, name), NEW x
    PROVE  /\ type = "workflow.phase.started" => (OpenPhase(x)' <=> x = name)
           /\ type = "workflow.phase.completed" => ~OpenPhase(x)'
           /\ type \notin {"workflow.phase.started", "workflow.phase.completed"} =>
                (OpenPhase(x)' <=> OpenPhase(x))
<1> DEFINE n == Len(events)
<1> DEFINE S == Indices("workflow.phase.started")
<1> DEFINE C == Indices("workflow.phase.completed")
<1>1. /\ n \in Nat /\ \A i \in 1 .. n : events'[i] = events[i]
      /\ events'[n + 1].name = name /\ S \subseteq 1 .. n /\ C \subseteq 1 .. n
  BY IndicesAppend DEF OneMore
<1>2. OpenPhase(x) <=> \E i \in S : events[i].name = x /\ \A j \in S \cup C : j <= i
  BY DEF OpenPhase
<1>3. OpenPhase(x)' <=> \E i \in S' : events'[i].name = x /\ \A j \in S' \cup C' : j <= i
  BY DEF OpenPhase
<1>4. CASE type = "workflow.phase.started"
  <2>1. S' = S \cup {n + 1} /\ C' = C
    <3>1. S' = S \cup {n + 1}
      BY <1>4, IndicesAppend
    <3>2. "workflow.phase.completed" # type
      BY <1>4
    <3>3. C' = C
      BY <3>2, IndicesAppend
    <3> QED
      BY <3>1, <3>3
  <2> HIDE DEF S, C
  <2>2. \A j \in S' \cup C' : j \in 1 .. n \/ j = n + 1
    BY <1>1, <2>1
  <2>3. OpenPhase(x)' => x = name
    BY <1>1, <1>3, <2>1, <2>2
  <2>4. x = name => OpenPhase(x)'
    BY <1>1, <1>3, <2>1, <2>2
  <2> QED
    BY <1>4, <2>3, <2>4
<1>5. CASE type = "workflow.phase.completed"
  <2>1. S' = S /\ C' = C \cup {n + 1}
    BY <1>5, IndicesAppend
  <2> HIDE DEF S, C
  <2>2. \A i \in S' : ~(n + 1 <= i)
    BY <1>1, <2>1
  <2> QED
    BY <1>3, <1>5, <2>1, <2>2
<1>6. CASE type \notin {"workflow.phase.started", "workflow.phase.completed"}
  <2>1. S' = S /\ C' = C
    BY <1>6, IndicesAppend
  <2> HIDE DEF S, C
  <2>2. \A i \in S : events'[i] = events[i]
    BY <1>1
  <2> QED
    BY <1>2, <1>3, <1>6, <2>1, <2>2
<1> QED
  BY <1>4, <1>5, <1>6

\* ... the open step ...
LEMMA StepAppend ==
    ASSUME NEW type, NEW name, OneMore(type, name), NEW x
    PROVE  /\ type = "workflow.step.started" => (OpenStep(x)' <=> x = name)
           /\ type = "workflow.step.completed" => (OpenStep(x)' <=> OpenStep(x) /\ x # name)
           /\ type \notin {"workflow.step.started", "workflow.step.completed"} =>
                (OpenStep(x)' <=> OpenStep(x))
<1> DEFINE n == Len(events)
<1> DEFINE S == Indices("workflow.step.started")
<1> DEFINE C == Indices("workflow.step.completed")
<1>1. /\ n \in Nat /\ \A i \in 1 .. n : events'[i] = events[i]
      /\ events'[n + 1].name = name /\ S \subseteq 1 .. n /\ C \subseteq 1 .. n
  BY IndicesAppend DEF OneMore
<1>2. OpenStep(x) <=> \E i \in S : /\ events[i].name = x
                                   /\ \A j \in S : j <= i
                                   /\ \A j \in C : j > i => events[j].name # x
  BY DEF OpenStep
<1>3. OpenStep(x)' <=> \E i \in S' : /\ events'[i].name = x
                                     /\ \A j \in S' : j <= i
                                     /\ \A j \in C' : j > i => events'[j].name # x
  BY DEF OpenStep
<1>4. CASE type = "workflow.step.started"
  <2>1. S' = S \cup {n + 1} /\ C' = C
    <3>1. S' = S \cup {n + 1}
      BY <1>4, IndicesAppend
    <3>2. "workflow.step.completed" # type
      BY <1>4
    <3>3. C' = C
      BY <3>2, IndicesAppend
    <3> QED
      BY <3>1, <3>3
  <2> HIDE DEF S, C
  <2>2. \A j \in S' : j \in 1 .. n \/ j = n + 1
    BY <1>1, <2>1
  <2>3. \A j \in C' : ~(j > n + 1)
    BY <1>1, <2>1
  <2>4. OpenStep(x)' => x = name
    BY <1>1, <1>3, <2>1, <2>2
  <2>5. x = name => OpenStep(x)'
    BY <1>1, <1>3, <2>1, <2>2, <2>3
  <2> QED
    BY <1>4, <2>4, <2>5
<1>5. CASE type = "workflow.step.completed"
  <2>1. S' = S /\ C' = C \cup {n + 1}
    BY <1>5, IndicesAppend
  <2> HIDE DEF S, C
  <2>2. \A i \in S : n + 1 > i /\ events'[i] = events[i]
    BY <1>1
  <2>3. \A j \in C : events'[j] = events[j]
    BY <1>1
  <2>4. OpenStep(x)' => OpenStep(x) /\ x # name
    BY <1>1, <1>2, <1>3, <2>1, <2>2, <2>3
  <2>5. OpenStep(x) /\ x # name => OpenStep(x)'
    BY <1>1, <1>2, <1>3, <2>1, <2>2, <2>3
  <2> QED
    BY <1>5, <2>4, <2>5
<1>6. CASE type \notin {"workflow.step.started", "workflow.step.completed"}
  <2>1. S' = S /\ C' = C
    BY <1>6, IndicesAppend
  <2> HIDE DEF S, C
  <2>2. \A i \in S : events'[i] = events[i]
    BY <1>1
  <2>3. \A i \in C : events'[i] = events[i]
    BY <1>1
  <2> QED
    BY <1>2, <1>3, <1>6, <2>1, <2>2, <2>3
<1> QED
  BY <1>4, <1>5, <1>6

\* ... and the declared inputs.
LEMMA DeclaredAppend ==
    ASSUME NEW type, NEW name, OneMore(type, name)
    PROVE  Declared' = IF type = "workflow.input.declared" THEN Declared \cup {name} ELSE Declared
<1> DEFINE n == Len(events)
<1> DEFINE D == Indices("workflow.input.declared")
<1>1. /\ n \in Nat /\ \A i \in 1 .. n : events'[i] = events[i]
      /\ events'[n + 1].name = name /\ D \subseteq 1 .. n
      /\ D' = D \cup (IF type = "workflow.input.declared" THEN {n + 1} ELSE {})
  BY IndicesAppend DEF OneMore
<1>2. Declared = {events[i].name : i \in D} /\ Declared' = {events'[i].name : i \in D'}
  BY DEF Declared
<1> HIDE DEF D
<1>3. \A i \in D : events'[i].name = events[i].name
  BY <1>1
<1> QED
  BY <1>1, <1>2, <1>3

\* A step that changes nothing of it, nor the fields.
SameReadings ==
    /\ \A x \in Names : (OpenPhase(x)' <=> OpenPhase(x)) /\ (OpenStep(x)' <=> OpenStep(x))
    /\ Declared' = Declared
    /\ state'.phase = state.phase /\ state'.step = state.step /\ state'.declared = state.declared

\* After such a step fields and journal agree as far as before.
LEMMA UnderwaySame ==
    ASSUME SameReadings, NEW CONSTANT jobs
    PROVE  /\ Followed => Followed'
           /\ Underway(jobs) => Underway(jobs)'
<1>1. /\ PhaseFollows => PhaseFollows'
      /\ StepFollows => StepFollows'
      /\ DeclaredFollows => DeclaredFollows'
  BY DEF SameReadings, PhaseFollows, StepFollows, DeclaredFollows
<1>2. Followed => Followed'
  BY <1>1 DEF Followed
<1>3. Before(jobs) /\ Followed => Underway(jobs)'
  BY <1>2 DEF Underway, Before
<1>4. Phasing(jobs) => Phasing(jobs)'
  BY <1>1 DEF Phasing, SameReadings
<1>5. Stepping(jobs) => Stepping(jobs)'
  BY <1>1 DEF Stepping, SameReadings
<1>6. Declaring(jobs) => Declaring(jobs)'
  BY <1>1 DEF Declaring, SameReadings
<1> QED
  BY <1>2, <1>3, <1>4, <1>5, <1>6 DEF Underway

\* A command that sets a field still has that job to do.
LEMMA UnderwayHead ==
    ASSUME NEW jobs, Underway(jobs)
    PROVE  /\ jobs # <<>> /\ Head(jobs).job \in Updates \cup FieldEvents
           /\ \E i \in 1 .. Len(jobs) : jobs[i].job \in Updates
<1>1. \A n, x : DoWith(n, x).job = n /\ Do(n).job = n
  BY DEF DoWith, Do
<1>2. CASE Before(jobs)
  BY <1>1, <1>2 DEF Before, Updates, FieldEvents
<1>3. CASE Phasing(jobs)
  BY <1>1, <1>3 DEF Phasing, Updates, FieldEvents
<1>4. CASE Stepping(jobs)
  BY <1>1, <1>4 DEF Stepping, Updates, FieldEvents
<1>5. CASE Declaring(jobs)
  BY <1>1, <1>5 DEF Declaring, Updates, FieldEvents
<1> QED
  BY <1>2, <1>3, <1>4, <1>5 DEF Underway

\* The jobs and events of the fields are plain.
LEMMA FieldWords ==
    /\ Updates \cup FieldEvents \subseteq Unmarked \ {"build"}
    /\ Updates \subseteq Steps /\ FieldEvents \cap Steps = {}
<1>1. Updates \cup FieldEvents \subseteq Unmarked \ {"build"}
  BY DEF Updates, FieldEvents, Unmarked, PlainWords
<1>2. Updates \subseteq Steps
  BY DEF Steps
<1>3. FieldEvents \cap Steps = {}
  BY DEF Steps, FieldEvents, Files, Updates, Saves
<1> QED
  BY <1>1, <1>2, <1>3

\* A command that sets a field, job by job.
LEMMA TrackedTail ==
    ASSUME NEW jobs \in Seq(Jobs), Tracked(jobs)
    PROVE  /\ ~Untracked(jobs) /\ Head(jobs).job \in Updates \cup FieldEvents
           /\ Tail(jobs) = <<>> \/ Tracked(Tail(jobs))
<1>1. /\ Len(jobs) \in Nat \ {0} /\ Head(jobs) = jobs[1]
      /\ Len(Tail(jobs)) = Len(jobs) - 1
      /\ \A i \in 1 .. Len(Tail(jobs)) : Tail(jobs)[i] = jobs[i + 1]
  BY JobsLeft DEF Tracked
<1>2. 1 \in 1 .. Len(jobs) /\ \A i \in 1 .. Len(jobs) - 1 : i + 1 \in 1 .. Len(jobs)
  BY <1>1
<1>3. ~Untracked(jobs) /\ Head(jobs).job \in Updates \cup FieldEvents
  BY <1>1, <1>2 DEF Tracked, Untracked
<1>4. Tail(jobs) = <<>> \/ Tracked(Tail(jobs))
  BY <1>1, <1>2 DEF Tracked
<1> QED
  BY <1>3, <1>4

\* The jobs that are about no field.
LEMMA UntrackedTail ==
    ASSUME NEW jobs \in Seq(Jobs), jobs # <<>>, Untracked(jobs)
    PROVE  Untracked(Tail(jobs)) /\ Head(jobs).job \notin Updates \cup FieldEvents
<1>1. /\ Len(jobs) \in Nat \ {0} /\ Head(jobs) = jobs[1]
      /\ Len(Tail(jobs)) = Len(jobs) - 1
      /\ \A i \in 1 .. Len(Tail(jobs)) : Tail(jobs)[i] = jobs[i + 1]
  BY JobsLeft
<1>2. \A i \in 1 .. Len(jobs) - 1 : i + 1 \in 1 .. Len(jobs)
  BY <1>1
<1>3. 1 \in 1 .. Len(jobs)
  BY <1>1
<1>4. Untracked(Tail(jobs))
  BY <1>1, <1>2 DEF Untracked
<1> QED
  BY <1>1, <1>3, <1>4 DEF Untracked

\* Joined, they are still about none.
LEMMA UntrackedConcat ==
    ASSUME NEW jobs \in Seq(Jobs), NEW rest \in Seq(Jobs), Untracked(jobs), Untracked(rest)
    PROVE  Untracked(jobs \o rest)
<1> DEFINE all == jobs \o rest
<1> DEFINE n == Len(jobs)
<1>1. /\ Len(all) = n + Len(rest) /\ n \in Nat /\ Len(rest) \in Nat
      /\ \A i \in 1 .. n + Len(rest) : all[i] = IF i <= n THEN jobs[i] ELSE rest[i - n]
  BY ConcatProperties, LenProperties
<1> HIDE DEF all
<1>2. ASSUME NEW i \in 1 .. n + Len(rest) PROVE all[i].job \notin Updates \cup FieldEvents
  <2>1. CASE i <= n
    BY <1>1, <2>1 DEF Untracked
  <2>2. CASE ~(i <= n)
    <3>1. i - n \in 1 .. Len(rest)
      BY <1>1, <2>2
    <3> QED
      BY <1>1, <2>2, <3>1 DEF Untracked
  <2> QED
    BY <2>1, <2>2
<1> QED
  BY <1>1, <1>2 DEF Untracked, all

\* One or two jobs by their words.
LEMMA UntrackedWords ==
    ASSUME NEW v, NEW w, v \notin Updates \cup FieldEvents, w \notin Updates \cup FieldEvents
    PROVE  Untracked(<<>>) /\ Untracked(<<Do(v)>>) /\ Untracked(<<Do(v), Do(w)>>)
BY DEF Untracked, Do

\* Commands, or parts of one, that set no field.
Aside(jobs) == jobs \in Seq(Jobs) /\ Untracked(jobs)

\* Joined, or under a condition, they still set none.
LEMMA AsideParts ==
    ASSUME NEW jobs, NEW rest, Aside(jobs), Aside(rest), NEW condition \in BOOLEAN
    PROVE  Aside(jobs \o rest) /\ Aside(If(condition, jobs)) /\ Aside(<<>>)
<1>1. Aside(<<>>)
  BY Parts DEF Aside, Untracked
<1>2. Aside(If(condition, jobs))
  BY <1>1 DEF If
<1>3. Aside(jobs \o rest)
  BY UntrackedConcat, ConcatProperties DEF Aside
<1> QED
  BY <1>1, <1>2, <1>3

\* One or two jobs by their words.
LEMMA AsideWords ==
    ASSUME NEW v \in PlainWords, NEW w \in PlainWords,
           v \notin Updates \cup FieldEvents, w \notin Updates \cup FieldEvents
    PROVE  Aside(<<Do(v)>>) /\ Aside(<<Do(v), Do(w)>>)
<1>1. Do(v) \in Jobs /\ Do(w) \in Jobs
  BY DoType
<1>2. <<Do(v)>> \in Seq(Jobs) /\ <<Do(v), Do(w)>> \in Seq(Jobs)
  BY <1>1
<1> QED
  BY <1>2, UntrackedWords DEF Aside

\* The words of the other jobs.
Others == PlainWords \ (Updates \cup FieldEvents)

\* Some of them.
LEMMA OtherWords ==
    {"human.note", "run.aborted", "recover", "run.resumed", "gate", "run.finalized", "build",
     "crate.finalized", "run.export.blocked", "crate.checkpoint.failed", "save_state",
     "workflow.profile.selected", "session.started", "resume_if_active", "tool.requested",
     "crate.checkpoint.started", "crate.checkpoint.completed", "mark_checkpoint"} \subseteq Others
BY DEF Others, PlainWords, Updates, FieldEvents

\* A checkpoint sets no field ...
LEMMA AsideCheckpoint == \A jobs \in CheckpointJobs : Aside(jobs)
<1> SUFFICES ASSUME NEW extras \in Extras PROVE Aside(CheckpointPlan(extras))
  BY DEF CheckpointJobs
<1> DEFINE request == If("request" \in extras, <<Do("save_state")>>)
<1> DEFINE selection == If("selection" \in extras,
                           <<Do("workflow.profile.selected"), Do("save_state")>>)
<1> DEFINE drift == If("drift" \in extras, <<Do("save_state")>>)
<1> DEFINE build == <<Do("crate.checkpoint.started"), Do("build"), Do("save_state"),
                      Do("crate.checkpoint.completed"), Do("mark_checkpoint")>>
<1>1. Aside(<<Do("save_state")>>) /\ Aside(<<Do("workflow.profile.selected"), Do("save_state")>>)
  BY OtherWords, AsideWords DEF Others
<1>2. /\ ("request" \in extras) \in BOOLEAN /\ ("selection" \in extras) \in BOOLEAN
      /\ ("drift" \in extras) \in BOOLEAN
  OBVIOUS
<1>3. Aside(request) /\ Aside(selection) /\ Aside(drift)
  BY <1>1, <1>2, AsideParts
<1>4. Aside(build)
  <2>1. Untracked(build)
    BY DEF Untracked, Do, Updates, FieldEvents
  <2> QED
    BY <2>1, PlainBuild DEF Plain, Aside
<1>5. CheckpointPlan(extras) = request \o selection \o drift \o build
  BY DEF CheckpointPlan
<1> HIDE DEF request, selection, drift, build
<1>6. Aside(request \o selection)
  BY <1>3, AsideParts
<1>7. Aside(request \o selection \o drift)
  BY <1>3, <1>6, AsideParts
<1>8. Aside(request \o selection \o drift \o build)
  BY <1>4, <1>7, AsideParts
<1> QED
  BY <1>5, <1>8

\* ... nor does a hook ...
LEMMA AsideHook == \A jobs \in HookJobs : Aside(jobs)
<1> DEFINE ends == {<<Do("session.started"), Do("resume_if_active")>>, <<Do("tool.requested")>>}
<1> SUFFICES ASSUME NEW newSession \in BOOLEAN, NEW event \in ends
             PROVE  Aside(<<Do("recover")>> \o If(newSession, <<Do("save_state")>>) \o event)
  <2> DEFINE all(new, end) == <<Do("recover")>> \o If(new, <<Do("save_state")>>) \o end
  <2>1. HookJobs = {all(new, end) : new \in BOOLEAN, end \in ends}
    BY DEF HookJobs
  <2>2. (\A new \in BOOLEAN : \A end \in ends : Aside(all(new, end))) =>
          \A jobs \in HookJobs : Aside(jobs)
    <3> HIDE DEF ends, all
    <3> QED
      BY <2>1
  <2> QED
    BY <2>2
<1> DEFINE recover == <<Do("recover")>>
<1> DEFINE save == If(newSession, <<Do("save_state")>>)
<1>1. Aside(recover) /\ Aside(<<Do("save_state")>>) /\ Aside(event)
  BY OtherWords, AsideWords DEF Others
<1>2. Aside(save)
  BY <1>1, AsideParts
<1> HIDE DEF recover, save
<1>3. Aside(recover \o save)
  BY <1>1, <1>2, AsideParts
<1>4. Aside(recover \o save \o event)
  BY <1>1, <1>3, AsideParts
<1> QED
  BY <1>4 DEF recover, save

\* ... nor the creation of a run.
LEMMA AsideCreation == Aside(BootstrapJobs) /\ Aside(ArchiveJobs \o BootstrapJobs)
<1>1. Untracked(BootstrapJobs) /\ Untracked(ArchiveJobs)
  BY DEF Untracked, BootstrapJobs, ArchiveJobs, Do, Updates, FieldEvents
<1>2. BootstrapJobs \in Seq(Jobs) /\ ArchiveJobs \in Seq(Jobs)
  <2>1. \A word \in CreatingWords \cup PlainWords : Do(word) \in Jobs
    BY DoType
  <2>2. "environment.observed" \in PlainWords
    BY DEF PlainWords
  <2> QED
    BY <2>1, <2>2, Words DEF BootstrapJobs, ArchiveJobs
<1>3. Aside(BootstrapJobs) /\ Aside(ArchiveJobs)
  BY <1>1, <1>2 DEF Aside
<1> QED
  BY <1>3, AsideParts

\* The steps that leave a command without such jobs.
LEMMA UntrackedStep ==
    ASSUME OrderInv, NEW p \in Proc, Untracked(todo[p]),
           \/ Start(p) \/ Hook(p) \/ Main(p) \/ Note(p) \/ Abort(p) \/ Resume(p) \/ Checkpoint(p)
           \/ Finalize(p) \/ Job(p) \/ Kill(p)
    PROVE  Untracked(todo'[p])
<1>1. TypeOK
  BY DEF OrderInv
<1>2. \A jobs : Proceed(p, jobs) /\ Aside(jobs) => Untracked(todo'[p])
  BY <1>1 DEF Proceed, TypeOK, Aside
<1>3. /\ Aside(<<>>)
      /\ \A word \in Others : Aside(<<Do(word)>>)
      /\ \A v, w \in Others : Aside(<<Do(v), Do(w)>>)
  <2>1. Aside(<<>>)
    BY Parts DEF Aside, Untracked
  <2>2. \A v, w \in Others : Aside(<<Do(v)>>) /\ Aside(<<Do(v), Do(w)>>)
    BY AsideWords DEF Others
  <2>3. \A word \in Others : Aside(<<Do(word)>>)
    BY <2>2
  <2> QED
    BY <2>1, <2>2, <2>3
<1>4. \A jobs, rest : Aside(jobs) /\ Aside(rest) => Aside(jobs \o rest)
  BY AsideParts
<1>5. todo[p] # <<>> /\ Finish(p) => Untracked(todo'[p])
  <2> SUFFICES ASSUME todo[p] # <<>>, Finish(p) PROVE Untracked(todo'[p])
    OBVIOUS
  <2>1. todo[p] \in Seq(Jobs)
    BY <1>1 DEF TypeOK
  <2>2. Aside(Tail(todo[p]))
    BY <2>1, UntrackedTail, JobsLeft DEF Aside
  <2> QED
    BY <1>2, <2>2 DEF Finish
<1>6. todo'[p] = todo[p] => Untracked(todo'[p])
  OBVIOUS
<1>7. CASE Start(p)
  <2>1. PICK checkpoint \in {<<>>} \cup CheckpointJobs :
          \/ Proceed(p, <<Do("recover")>> \o checkpoint)
          \/ Proceed(p, BootstrapJobs \o checkpoint)
          \/ Proceed(p, ArchiveJobs \o BootstrapJobs \o checkpoint)
    BY <1>7 DEF Start
  <2>2. Aside(checkpoint)
    BY <1>3, AsideCheckpoint
  <2>3. Aside(<<Do("recover")>> \o checkpoint)
    BY <1>3, <1>4, <2>2, OtherWords
  <2>4. Aside(BootstrapJobs \o checkpoint)
    BY <1>4, <2>2, AsideCreation
  <2>5. Aside(ArchiveJobs \o BootstrapJobs \o checkpoint)
    BY <1>4, <2>2, AsideCreation
  <2> QED
    BY <1>2, <2>1, <2>3, <2>4, <2>5
<1>8. CASE Hook(p)
  <2>1. PICK jobs \in HookJobs : Proceed(p, BootstrapJobs \o jobs) \/ Proceed(p, jobs)
    BY <1>8 DEF Hook
  <2>2. Aside(jobs) /\ Aside(BootstrapJobs \o jobs)
    BY <1>4, AsideHook, AsideCreation
  <2> QED
    BY <1>2, <2>1, <2>2
<1>9. CASE Main(p)
  BY <1>9 DEF Main
<1>10. CASE Note(p) \/ Abort(p) \/ Resume(p)
  <2>1. \/ Proceed(p, <<Do("human.note")>>) \/ Proceed(p, <<Do("run.aborted")>>)
        \/ Proceed(p, <<Do("recover"), Do("run.resumed")>>)
    BY <1>10 DEF Note, Abort, Resume
  <2> QED
    BY <1>2, <1>3, <2>1, OtherWords
<1>11. CASE Checkpoint(p)
  BY <1>2, <1>11, AsideCheckpoint DEF Checkpoint
<1>12. CASE Finalize(p)
  <2>1. Aside(<<Do("gate")>>)
    BY <1>3, OtherWords
  <2>2. \A jobs \in CheckpointJobs : Aside(jobs \o <<Do("gate")>>)
    BY <1>4, <2>1, AsideCheckpoint
  <2> QED
    BY <1>2, <1>12, <2>1, <2>2 DEF Finalize
<1>13. CASE AppendLine(p) \/ BumpLoad(p) \/ BumpWrite(p)
  BY <1>2, <1>3, <1>5, <1>6, <1>13 DEF AppendLine, BumpLoad, BumpWrite
<1>14. CASE Move(p) \/ WriteState(p) \/ WriteIdMap(p) \/ RecoverJob(p)
  BY <1>5, <1>14 DEF Move, WriteState, WriteIdMap, RecoverJob
<1>15. CASE ResumeIfActive(p)
  BY <1>2, <1>3, <1>15, OtherWords DEF ResumeIfActive
<1>16. CASE UpdateLoad(p) \/ UpdateWrite(p) \/ SaveLoad(p) \/ SaveWrite(p)
  BY <1>2, <1>3, <1>5, <1>6, <1>16 DEF UpdateLoad, UpdateWrite, SaveLoad, SaveWrite, Busy
<1>17. CASE Build(p)
  BY <1>2, <1>3, <1>5, <1>17, OtherWords DEF Build, Busy
<1>18. CASE Gate(p)
  BY <1>2, <1>3, <1>18, OtherWords DEF Gate
<1>19. CASE Kill(p)
  BY <1>2, <1>3, <1>19 DEF Kill
<1> QED
  BY <1>7, <1>8, <1>9, <1>10, <1>11, <1>12, <1>13, <1>14, <1>15, <1>16, <1>17, <1>18, <1>19
     DEF Job

-----------------------------------------------------------------------------
(* The fields follow the journal. *)

\* Whoever has such jobs left is the one whose command sets a field.
LEMMA TheUpdater ==
    ASSUME FollowInv, NEW u \in Proc, ~Untracked(todo[u])
    PROVE  /\ MayUpdate(u) /\ Tracked(todo[u])
           /\ state.run \notin undone => Underway(Left(u))
           /\ \A p \in Proc \ {u} : Untracked(todo[p])
BY DEF FollowInv

\* While a run is created there is none.
LEMMA CreatorUntracked ==
    ASSUME OrderInv, FollowInv, NEW p \in Proc, NEW k \in 1 .. 7, At(todo[p], k)
    PROVE  \A q \in Proc : Untracked(todo[q])
<1>1. SUFFICES ASSUME NEW u \in Proc, Tracked(todo[u]) PROVE FALSE
  BY DEF FollowInv
<1>2. todo[u] \in Seq(Jobs) /\ todo[u] # <<>>
  BY <1>1 DEF OrderInv, TypeOK, Tracked
<1>3. Head(todo[u]).job \in Updates \cup FieldEvents
  BY <1>1, <1>2, TrackedTail
<1>4. u = p
  BY <1>2, Alone1
<1>5. Head(todo[p]).job \in CreatingWords
  BY Alone1, Words
<1> QED
  BY <1>3, <1>4, <1>5, FieldWords, Words DEF Unmarked

\* In a run, when no command sets a field, the fields are those of the journal.
LEMMA FollowedNow ==
    ASSUME OrderInv, FollowInv, state # NoFile, state.run \notin undone,
           \A p \in Proc : Untracked(todo[p]),
           \A p \in Proc : \A k \in 2 .. 7 : ~At(todo[p], k)
    PROVE  Followed
<1>1. \A u \in Proc : ~Tracked(todo[u])
  BY TrackedTail DEF OrderInv, TypeOK
<1> QED
  BY <1>1 DEF FollowInv

\* Nobody in a run is in the middle of a creation.
LEMMA NoStages ==
    ASSUME NEW jobs \in Seq(Jobs), At(jobs, 8)
    PROVE  \A k \in 1 .. 7 : ~At(jobs, k)
<1>1. \A k \in 1 .. 7 : k \in 1 .. 8 /\ k # 8
  OBVIOUS
<1> QED
  BY <1>1, OneStage

\* Before and after a step in a run nobody is.
LEMMA PlainStages ==
    ASSUME OrderInv, NEW p \in Proc, PlainStep(p)
    PROVE  \A q \in Proc : \A k \in 1 .. 7 : ~At(todo[q], k) /\ ~At(todo'[q], k)
<1>1. PICK jobs \in Seq(Jobs) : At(jobs, 8) /\ Turn(p, jobs)
  BY DEF PlainStep
<1>2. \A q \in Proc : /\ todo[q] \in Seq(Jobs) /\ At(todo[q], 8)
                      /\ todo'[q] \in Seq(Jobs) /\ At(todo'[q], 8)
  BY <1>1 DEF PlainStep, Turn, OrderInv, TypeOK
<1> QED
  BY <1>2, NoStages

\* Steps after which a reader finds what was there before.
LEMMA SameDisk ==
    ASSUME events' = events, state' = state
    PROVE  SameReadings /\ (Followed => Followed')
<1>1. SameReadings
  BY DEF SameReadings, OpenPhase, OpenStep, Declared, Indices
<1> QED
  BY <1>1, UnderwaySame

\* A step that changes neither the files nor who does what.
LEMMA FollowSame ==
    ASSUME FollowInv, UNCHANGED <<events, state, todo, lock, undone>>
    PROVE  FollowInv'
<1>1. SameReadings /\ (Followed => Followed') /\ (NoneYet => NoneYet')
  BY SameDisk DEF NoneYet, Indices
<1>2. ASSUME NEW u \in Proc, Underway(Left(u)) PROVE Underway(Left(u))'
  <2>1. PICK jobs : jobs = Left(u)
    OBVIOUS
  <2>2. Underway(jobs)'
    BY <1>1, <1>2, <2>1, UnderwaySame
  <2>3. Left(u)' = jobs
    BY <2>1 DEF Left
  <2> QED
    BY <2>2, <2>3
<1> QED
  BY <1>1, <1>2 DEF FollowInv

\* A step of the process that creates a run.
LEMMA FollowLone ==
    ASSUME OrderInv, TypeOK', NEW p \in Proc, NEW k \in 1 .. 8, LoneStep(p, k),
           Untracked(todo'[p]), k = 7 => NoneYet',
           k \in 2 .. 7 \/ state' = NoFile \/ state'.run \in undone' \/ Followed'
    PROVE  FollowInv'
<1>1. \A q \in Proc \ {p} : todo'[q] = <<>>
  BY DEF LoneStep, Turn
<1>2. \A q \in Proc : Untracked(todo'[q])
  BY <1>1, UntrackedWords DEF Untracked
<1>3. k \in 2 .. 7 => \E q \in Proc : \E l \in 2 .. 7 : At(todo'[q], l)
  BY DEF LoneStep
<1>4. /\ \A q \in Proc \ {p} : ~At(todo'[q], 7)
      /\ At(todo'[p], 7) => k = 7
  BY Turned
<1> QED
  BY <1>2, <1>3, <1>4 DEF FollowInv

\* What another process has left stays.
LEMMA LeftStays ==
    ASSUME NEW p \in Proc, PlainStep(p), NEW u \in Proc \ {p}
    PROVE  Left(u)' = Left(u)
<1>1. todo'[u] = todo[u] /\ (lock' = u <=> lock = u)
  BY DEF PlainStep, Turn, Orderly, Locks
<1> QED
  BY <1>1 DEF Left

\* A step of a command that sets no field.
LEMMA FollowPlain ==
    ASSUME OrderInv, FollowInv, NEW p \in Proc, PlainStep(p),
           state.run \notin undone' => SameReadings,
           Untracked(todo[p]), Untracked(todo'[p])
    PROVE  FollowInv'
<1>1. /\ \A q \in Proc \ {p} : todo'[q] = todo[q]
      /\ state # NoFile /\ state'.run = state.run
      /\ undone \subseteq undone'
  BY DEF PlainStep, Turn, Orderly
<1>2. \A q \in Proc : \A k \in 1 .. 7 : ~At(todo[q], k) /\ ~At(todo'[q], k)
  BY PlainStages
<1>3. \A q \in Proc : At(todo'[q], 7) => NoneYet'
  BY <1>2
<1>4. CASE \A q \in Proc : Untracked(todo[q])
  <2>1. ASSUME state.run \notin undone' PROVE Followed'
    <3>1. Followed
      BY <1>1, <1>2, <1>4, <2>1, FollowedNow
    <3> QED
      BY <2>1, <3>1, UnderwaySame
  <2>2. \A q \in Proc : Untracked(todo'[q])
    BY <1>1, <1>4
  <2> QED
    BY <1>1, <1>3, <2>1, <2>2 DEF FollowInv
<1>5. ASSUME NEW u \in Proc, ~Untracked(todo[u]) PROVE FollowInv'
  <2>1. /\ u # p /\ MayUpdate(u) /\ Tracked(todo[u])
        /\ state.run \notin undone => Underway(Left(u))
        /\ \A q \in Proc \ {u} : Untracked(todo[q])
    BY <1>5, TheUpdater
  <2>2. todo'[u] = todo[u] /\ \A q \in Proc \ {u} : Untracked(todo'[q])
    BY <1>1, <2>1
  <2>3. ASSUME state.run \notin undone' PROVE Underway(Left(u))'
    <3>1. PICK jobs : jobs = Left(u)
      OBVIOUS
    <3>2. Underway(jobs)'
      BY <1>1, <2>1, <2>3, <3>1, UnderwaySame
    <3>3. Left(u)' = jobs
      BY <2>1, <3>1, LeftStays
    <3> QED
      BY <3>2, <3>3
  <2>4. Tracked(todo'[u])
    BY <2>1, <2>2
  <2> QED
    BY <1>1, <1>3, <2>1, <2>2, <2>3, <2>4 DEF FollowInv
<1> QED
  BY <1>4, <1>5

\* A step of the command that sets one.
LEMMA FollowTracked ==
    ASSUME OrderInv, FollowInv, NEW p \in Proc, PlainStep(p), ~Untracked(todo[p]),
           todo'[p] \in {<<>>, todo[p], Tail(todo[p])},
           state.run \notin undone' => IF todo'[p] = <<>> THEN Followed' ELSE Underway(Left(p))'
    PROVE  FollowInv'
<1>1. /\ \A q \in Proc \ {p} : todo'[q] = todo[q]
      /\ state'.run = state.run
  BY DEF PlainStep, Turn
<1>2. \A q \in Proc : \A k \in 1 .. 7 : ~At(todo[q], k) /\ ~At(todo'[q], k)
  BY PlainStages
<1>3. \A q \in Proc : At(todo'[q], 7) => NoneYet'
  BY <1>2
<1>4. /\ MayUpdate(p) /\ Tracked(todo[p])
      /\ \A q \in Proc \ {p} : Untracked(todo'[q])
  BY <1>1, TheUpdater
<1>5. todo'[p] = <<>> \/ Tracked(todo'[p])
  BY <1>4, TrackedTail DEF OrderInv, TypeOK
<1>6. todo'[p] = <<>> => Untracked(todo'[p])
  BY UntrackedWords DEF Untracked
<1>7. CASE todo'[p] = <<>>
  BY <1>1, <1>3, <1>4, <1>6, <1>7 DEF FollowInv
<1>8. CASE todo'[p] # <<>>
  BY <1>1, <1>3, <1>4, <1>5, <1>8 DEF FollowInv
<1> QED
  BY <1>7, <1>8

\* The next line of the journal.
LEMMA LineOne ==
    ASSUME TypeOK, NEW type \in EventTypes, NEW name \in Labels,
           Write(Written(type, name, OnDisk))
    PROVE  OneMore(type, name)
<1>1. OnDisk \in Disks /\ OnDisk.log = events /\ OnDisk.state = state /\ OnDisk.minted = minted
  BY DEF OnDisk, Disks, TypeOK
<1>2. state \in States /\ minted + 1 \in Nat
  BY DEF TypeOK
<1>3. /\ Len(events) \in Nat /\ Len(events') = Len(events) + 1
      /\ \A i \in 1 .. Len(events) : events'[i] = events[i]
      /\ events'[Len(events) + 1] = Entry(state, minted + 1, type, name)
  BY <1>1, WrittenFields DEF Write
<1> QED
  BY <1>2, <1>3, EntryFields DEF OneMore

\* A line about no field changes nothing a reader finds.
LEMMA OtherLine ==
    ASSUME TypeOK, NEW type \in EventTypes, NEW name \in Labels, type \notin FieldEvents,
           Write(Written(type, name, OnDisk)), state' = state
    PROVE  SameReadings /\ (NoneYet => NoneYet')
<1>1. OneMore(type, name)
  BY LineOne
<1>2. /\ type # "workflow.phase.started" /\ type # "workflow.phase.completed"
      /\ type # "workflow.step.started" /\ type # "workflow.step.completed"
      /\ type # "workflow.input.declared"
  BY DEF FieldEvents
<1>3. \A x : (OpenPhase(x)' <=> OpenPhase(x)) /\ (OpenStep(x)' <=> OpenStep(x))
  BY <1>1, <1>2, PhaseAppend, StepAppend
<1>4. Declared' = Declared
  BY <1>1, <1>2, DeclaredAppend
<1>5. \A word \in FieldEvents : Indices(word)' = Indices(word)
  BY <1>1, IndicesAppend
<1> QED
  BY <1>3, <1>4, <1>5 DEF SameReadings, NoneYet

\* A recovery changes nothing in a run whose chain holds.
LEMMA RecoverQuiet ==
    ASSUME OrderInv, FileInv, NEW p \in Proc, PlainStep(p), Recover, undone' = undone
    PROVE  state.run \notin undone' => events' = events /\ state' = state
<1> SUFFICES ASSUME state.run \notin undone PROVE events' = events /\ state' = state
  OBVIOUS
<1>1. JournalOf(events, state)
  BY PlainSound, NotMidway DEF Recover, Sound
<1> QED
  BY <1>1, RecoverNothing DEF OrderInv

\* The bump of the state leaves its fields alone.
LEMMA BumpFields ==
    ASSUME OrderInv, FileInv, NEW p \in Proc, BumpWrite(p), state.run \notin undone
    PROVE  /\ SameReadings /\ (NoneYet => NoneYet')
           /\ state'.phase = state.phase /\ state'.step = state.step
           /\ state'.declared = state.declared
<1>1. /\ lock = p /\ reg[p] # NoFile /\ reg[p] \in States /\ events # <<>>
      /\ state' = AtTip(reg[p], events) /\ events' = events
  BY BumpWriteStep
<1>2. Agree(reg[p], state)
  BY <1>1 DEF FileInv, RegInv, RegOf
<1>3. events \in Seq(Events)
  BY DEF OrderInv, TypeOK
<1>4. /\ state'.phase = state.phase /\ state'.step = state.step
      /\ state'.declared = state.declared
  BY <1>1, <1>2, <1>3, TipFields DEF Agree
<1>5. SameReadings
  BY <1>1, <1>4 DEF SameReadings, OpenPhase, OpenStep, Declared, Indices
<1>6. NoneYet => NoneYet'
  BY <1>1 DEF NoneYet, Indices
<1> QED
  BY <1>4, <1>5, <1>6

\* The first append of a run: nothing is open or declared, nor do the fields say so.
LEMMA FollowFirst ==
    ASSUME OrderInv, TypeOK', FileInv, FollowInv, NEW p \in Proc,
           AppendLine(p) \/ BumpLoad(p) \/ BumpWrite(p), Head(todo[p]).job \notin PlainWords
    PROVE  FollowInv'
<1>1. At(todo[p], 7) /\ todo[p] # <<>> /\ Head(todo[p]).job = "run.started"
  <2>1. todo[p] # <<>> /\ Head(todo[p]).job \notin Steps
    BY DEF AppendLine, BumpLoad, BumpWrite, Current
  <2> QED
    BY <2>1, FirstJob
<1>2. Untracked(todo[p])
  <2>1. 7 \in 1 .. 7
    OBVIOUS
  <2> QED
    BY <1>1, <2>1, CreatorUntracked
<1>3. Untracked(todo'[p])
  BY <1>2, UntrackedStep DEF Job
<1>4. /\ state = NewState(state.run) /\ state # NoFile
      /\ ~Midway => events = <<>>
      /\ NoneYet
  BY <1>1, FirstDisk DEF FollowInv
<1>5. 7 \in 1 .. 8 /\ 7 \in 2 .. 7 /\ 8 \in 1 .. 8 /\ 8 # 7
  OBVIOUS
<1>6. CASE AppendLine(p)
  <2>1. LoneStep(p, 7)
    BY <1>4, <1>6, FirstLine
  <2>2. /\ state' = state
        /\ Write(Written(Head(todo[p]).job, Head(todo[p]).name, OnDisk))
        /\ Head(todo[p]).job \notin Steps
    BY <1>4, <1>6, LineStep
  <2>3. /\ Head(todo[p]).job \in EventTypes /\ Head(todo[p]).name \in Labels
        /\ Head(todo[p]).job \notin FieldEvents
    BY <1>1, <2>2, Appending DEF FieldEvents
  <2>4. NoneYet'
    BY <1>4, <2>2, <2>3, OtherLine DEF OrderInv
  <2> QED
    BY <1>3, <1>5, <2>1, <2>4, FollowLone
<1>7. CASE BumpLoad(p)
  <2>1. LoneStep(p, 7) /\ events' = events
    BY <1>7, FirstBumpLoad, BumpLoadStep
  <2>2. NoneYet'
    BY <1>4, <2>1 DEF NoneYet, Indices
  <2> QED
    BY <1>3, <1>5, <2>1, <2>2, FollowLone
<1>8. CASE BumpWrite(p)
  <2>1. LoneStep(p, 8) /\ state'.run = state.run /\ undone' = undone
    BY <1>8, FirstBumpWrite, BumpWriteStep
  <2>2. ASSUME state.run \notin undone PROVE Followed'
    <3>1. state.phase = NoName /\ state.step = NoName /\ state.declared = {}
      <4>1. state.run \in Nat
        BY StateFields DEF OrderInv, TypeOK
      <4> QED
        BY <1>4, <4>1, NewStateFields
    <3>2. Followed
      <4>1. \A word \in FieldEvents : Indices(word) = {}
        BY <1>4 DEF NoneYet
      <4>2. /\ Indices("workflow.phase.started") = {} /\ Indices("workflow.step.started") = {}
            /\ Indices("workflow.input.declared") = {}
        BY <4>1 DEF FieldEvents
      <4>3. \A x \in Names : ~OpenPhase(x) /\ ~OpenStep(x)
        BY <4>2 DEF OpenPhase, OpenStep
      <4>4. Declared = {}
        BY <4>2 DEF Declared
      <4>5. \A x \in Names : x # NoName
        BY ConstantsAssumption
      <4> QED
        BY <3>1, <4>3, <4>4, <4>5 DEF Followed, PhaseFollows, StepFollows, DeclaredFollows
    <3>3. SameReadings
      BY <1>8, <2>2, BumpFields
    <3> QED
      BY <3>2, <3>3, UnderwaySame
  <2> QED
    BY <1>3, <1>5, <2>1, <2>2, FollowLone
<1> QED
  BY <1>6, <1>7, <1>8

\* A command with one job before two others, or none.
LEMMA Prefixes ==
    ASSUME NEW a, NEW b, NEW c
    PROVE  <<a>> \o <<b, c>> = <<a, b, c>> /\ <<>> \o <<b, c>> = <<b, c>>
<1> DEFINE S == {a, b, c}
<1>1. <<a>> \in Seq(S) /\ <<b, c>> \in Seq(S)
  OBVIOUS
<1>2. Len(<<a>>) = 1 /\ Len(<<b, c>>) = 2 /\ Len(<<a, b, c>>) = 3
  OBVIOUS
<1>3. /\ <<a>> \o <<b, c>> \in Seq(S) /\ Len(<<a>> \o <<b, c>>) = 3
      /\ \A i \in 1 .. 3 : (<<a>> \o <<b, c>>)[i] = <<a, b, c>>[i]
  BY <1>1, <1>2, ConcatProperties
<1>4. <<a, b, c>> \in Seq(S)
  OBVIOUS
<1>5. <<a>> \o <<b, c>> = <<a, b, c>>
  BY <1>2, <1>3, <1>4, SeqEqual
<1>6. <<>> \o <<b, c>> = <<b, c>>
  BY <1>1, ConcatEmptySeq
<1> QED
  BY <1>5, <1>6

\* A command that sets a field begins.
LEMMA FollowUpdate ==
    ASSUME OneUpdater, OrderInv, FollowInv, NEW p \in Proc,
           Phase(p) \/ PhaseComplete(p) \/ Step(p) \/ Declare(p)
    PROVE  FollowInv'
<1>0. TypeOK
  BY DEF OrderInv
<1>1. /\ pc[p] = "ready" /\ MayUpdate(p)
      /\ events' = events /\ state' = state /\ lock' = lock /\ undone' = undone
  <2>1. PICK command \in UpdateCommands : Ready(p, command)
    BY DEF Phase, PhaseComplete, Step, Declare, UpdateCommands
  <2>2. ran[p] \in Nat /\ Len(Script[p]) \in Nat
    BY <1>0, ConstantsAssumption, LenProperties DEF TypeOK
  <2>3. ran[p] + 1 \in 1 .. Len(Script[p])
    BY <2>1, <2>2 DEF Ready, Takes
  <2> QED
    BY <2>1, <2>3 DEF Ready, Takes, MayUpdate, disk, locking
<1>2. PlainStep(p) /\ lock # p
  BY NewCommand DEF Quiet
<1>3. /\ \A q \in Proc : At(todo[q], 8)
      /\ \A q \in Proc \ {p} : todo'[q] = todo[q]
      /\ state # NoFile
  BY <1>2 DEF PlainStep, Turn
<1>4. todo[p] = <<>>
  BY <1>1 DEF OrderInv, Staged
<1>5. \A q \in Proc : Untracked(todo[q])
  <2> SUFFICES ASSUME NEW u \in Proc, ~Untracked(todo[u]) PROVE FALSE
    OBVIOUS
  <2>1. MayUpdate(u)
    BY TheUpdater
  <2>2. u = p
    BY <1>1, <2>1 DEF OneUpdater
  <2> QED
    BY <1>4, <2>2, UntrackedWords DEF Untracked
<1>6. \A q \in Proc : \A k \in 1 .. 7 : ~At(todo[q], k) /\ ~At(todo'[q], k)
  BY <1>2, PlainStages
<1>7. state.run \notin undone => Followed'
  BY <1>1, <1>3, <1>5, <1>6, FollowedNow, SameDisk
<1>8. state.phase \in Labels
  BY <1>0, StateFields DEF TypeOK
<1>9. \A jobs : Proceed(p, jobs) => todo'[p] = jobs
  BY <1>0 DEF Proceed, TypeOK
<1> DEFINE Listed(jobs) == Before(jobs) \/ \E n \in Names :
             jobs = <<DoWith("workflow.phase.started", n), DoWith("set_phase", n)>>
<1>10. Listed(todo'[p])
  <2>1. CASE Phase(p)
    <3>1. PICK name \in Names, completeCurrent \in BOOLEAN :
            Proceed(p, (IF completeCurrent /\ state.phase # NoName
                        THEN <<DoWith("workflow.phase.completed", state.phase)>> ELSE <<>>)
                       \o <<DoWith("workflow.phase.started", name), DoWith("set_phase", name)>>)
      BY <2>1 DEF Phase
    <3> DEFINE rest == <<DoWith("workflow.phase.started", name), DoWith("set_phase", name)>>
    <3>3. \/ todo'[p] = <<DoWith("workflow.phase.completed", state.phase)>> \o rest
          \/ todo'[p] = <<>> \o rest
      BY <1>9, <3>1
    <3>4. \/ todo'[p] = <<DoWith("workflow.phase.completed", state.phase),
                          DoWith("workflow.phase.started", name), DoWith("set_phase", name)>>
          \/ todo'[p] = rest
      BY <3>3, Prefixes
    <3> QED
      BY <1>8, <3>4 DEF Before
  <2>2. CASE PhaseComplete(p)
    <3>1. PICK name \in Names \cup {state.phase} :
            Proceed(p, <<DoWith("workflow.phase.completed", name), Do("clear_phase")>>)
      BY <2>2 DEF PhaseComplete
    <3>2. name \in Labels
      BY <1>8 DEF Labels
    <3> QED
      BY <1>9, <3>1, <3>2 DEF Before
  <2>3. CASE Step(p)
    <3>1. PICK id \in Names :
            \/ Proceed(p, <<DoWith("workflow.step.started", id), DoWith("set_step", id)>>)
            \/ Proceed(p, <<DoWith("workflow.step.completed", id), DoWith("clear_step", id)>>)
      BY <2>3 DEF Step
    <3> QED
      BY <1>9, <3>1 DEF Before
  <2>4. CASE Declare(p)
    <3>1. PICK path \in Names :
            Proceed(p, <<DoWith("workflow.input.declared", path), DoWith("set_declared", path)>>)
      BY <2>4 DEF Declare
    <3> QED
      BY <1>9, <3>1 DEF Before
  <2> QED
    BY <2>1, <2>2, <2>3, <2>4
<1>11. Tracked(todo'[p])
  <2>1. \A w, x : DoWith(w, x).job = w /\ Do(w).job = w
    BY DEF DoWith, Do
  <2>2. PICK jobs : jobs = todo'[p]
    OBVIOUS
  <2>3. Listed(jobs)
    BY <1>10, <2>2
  <2>4. Tracked(jobs)
    BY <2>1, <2>3 DEF Before, Tracked, Updates, FieldEvents
  <2> QED
    BY <2>2, <2>4
<1>12. ASSUME state.run \notin undone PROVE Underway(Left(p))'
  <2>1. Left(p)' = todo'[p]
    BY <1>1, <1>2 DEF Left
  <2>2. PICK jobs : jobs = todo'[p]
    OBVIOUS
  <2>3. Followed' /\ StepFollows' /\ DeclaredFollows'
    BY <1>7, <1>12 DEF Followed
  <2>4. Listed(jobs)
    BY <1>10, <2>2
  <2>5. Underway(jobs)'
    BY <2>3, <2>4 DEF Underway, Before, Phasing
  <2> QED
    BY <2>1, <2>2, <2>5
<1>13. \A q \in Proc \ {p} : Untracked(todo'[q])
  BY <1>3, <1>5
<1>14. \A q \in Proc : ~At(todo'[q], 7)
  BY <1>6
<1> HIDE DEF Listed
<1> QED
  BY <1>1, <1>11, <1>12, <1>13, <1>14 DEF FollowInv

\* The jobs of such a command, one at a time.
LEMMA HeadTail ==
    ASSUME NEW a, NEW b, NEW c
    PROVE  /\ Head(<<a>>) = a /\ Tail(<<a>>) = <<>>
           /\ Head(<<a, b>>) = a /\ Tail(<<a, b>>) = <<b>>
           /\ Head(<<a, b, c>>) = a /\ Tail(<<a, b, c>>) = <<b, c>>
OBVIOUS

\* It writes its line: the journal says what the field is going to.
LEMMA FollowLine ==
    ASSUME OrderInv, FileInv, FollowInv, NEW p \in Proc, AppendLine(p), ~Untracked(todo[p])
    PROVE  FollowInv'
<1>0. TypeOK /\ todo[p] \in Seq(Jobs)
  BY DEF OrderInv, TypeOK
<1> PICK jobs : jobs = todo[p]
  OBVIOUS
<1> DEFINE type == Head(jobs).job
<1> DEFINE name == Head(jobs).name
<1>1. Tracked(jobs) /\ (state.run \notin undone => Underway(Left(p)))
  BY TheUpdater
<1>2. jobs # <<>> /\ type \notin Steps
  BY DEF AppendLine, Current
<1>3. type \in FieldEvents
  BY <1>0, <1>1, <1>2, TrackedTail, FieldWords
<1>4. type \in PlainWords
  BY <1>3, FieldWords DEF Unmarked
<1>5. name \in Labels
  BY <1>0, <1>2, JobsLeft
<1>6. state # NoFile
  BY <1>2, <1>4, WorkingPlain
<1>7. /\ Orderly(p) /\ lock # p /\ lock' = p /\ events' # <<>>
      /\ UNCHANGED <<state, idMap, archive, pc, todo, undone, runs>>
      /\ Write(Written(type, name, OnDisk))
  BY <1>6, LineStep, ConstantsAssumption
<1>8. PlainStep(p)
  BY <1>2, <1>4, <1>7, Stays
<1>9. Left(p) = jobs /\ Left(p)' = Tail(jobs)
  BY <1>2, <1>7 DEF Left
<1>10. /\ OneMore(type, name)
       /\ state'.phase = state.phase /\ state'.step = state.step
       /\ state'.declared = state.declared
  BY <1>0, <1>4, <1>5, <1>7, LineOne DEF EventTypes
<1> HIDE DEF type, name
<1>11. \A x : /\ type = "workflow.phase.started" => (OpenPhase(x)' <=> x = name)
              /\ type = "workflow.phase.completed" => ~OpenPhase(x)'
              /\ type \notin {"workflow.phase.started", "workflow.phase.completed"} =>
                   (OpenPhase(x)' <=> OpenPhase(x))
  BY <1>10, PhaseAppend
<1>12. \A x : /\ type = "workflow.step.started" => (OpenStep(x)' <=> x = name)
              /\ type = "workflow.step.completed" => (OpenStep(x)' <=> OpenStep(x) /\ x # name)
              /\ type \notin {"workflow.step.started", "workflow.step.completed"} =>
                   (OpenStep(x)' <=> OpenStep(x))
  BY <1>10, StepAppend
<1>13. Declared' = IF type = "workflow.input.declared" THEN Declared \cup {name} ELSE Declared
  BY <1>10, DeclaredAppend
<1>14. /\ type \notin {"workflow.phase.started", "workflow.phase.completed"} =>
            (PhaseFollows => PhaseFollows')
       /\ type \notin {"workflow.step.started", "workflow.step.completed"} =>
            (StepFollows => StepFollows')
       /\ type # "workflow.input.declared" => (DeclaredFollows => DeclaredFollows')
  BY <1>10, <1>11, <1>12, <1>13 DEF PhaseFollows, StepFollows, DeclaredFollows
<1>15. \A w, x : DoWith(w, x).job = w /\ DoWith(w, x).name = x /\ Do(w).job = w
  BY DEF DoWith, Do
<1>16. Underway(jobs) => Underway(Tail(jobs))'
  <2> SUFFICES ASSUME Underway(jobs) PROVE Underway(Tail(jobs))'
    OBVIOUS
  <2>1. CASE Before(jobs) /\ Followed
    <3>0. PhaseFollows /\ StepFollows /\ DeclaredFollows
      BY <2>1 DEF Followed
    <3>1. ASSUME NEW n \in Names, NEW x \in Labels,
                 jobs = <<DoWith("workflow.phase.completed", x),
                             DoWith("workflow.phase.started", n), DoWith("set_phase", n)>>
          PROVE  Phasing(Tail(jobs))'
      <4>1. type = "workflow.phase.completed"
        BY <1>15, <3>1, HeadTail DEF type
      <4>2. StepFollows' /\ DeclaredFollows'
        BY <1>14, <3>0, <4>1
      <4>3. Tail(jobs) = <<DoWith("workflow.phase.started", n), DoWith("set_phase", n)>>
        BY <3>1, HeadTail
      <4> QED
        BY <4>2, <4>3 DEF Phasing
    <3>2. ASSUME NEW x \in Labels,
                 jobs = <<DoWith("workflow.phase.completed", x), Do("clear_phase")>>
          PROVE  Phasing(Tail(jobs))'
      <4>1. type = "workflow.phase.completed"
        BY <1>15, <3>2, HeadTail DEF type
      <4>2. StepFollows' /\ DeclaredFollows' /\ \A y \in Names : ~OpenPhase(y)'
        BY <1>11, <1>14, <3>0, <4>1
      <4>3. Tail(jobs) = <<Do("clear_phase")>>
        BY <3>2, HeadTail
      <4> QED
        BY <4>2, <4>3 DEF Phasing
    <3>3. ASSUME NEW n \in Names,
                 jobs = <<DoWith("workflow.step.started", n), DoWith("set_step", n)>>
          PROVE  Stepping(Tail(jobs))'
      <4>1. type = "workflow.step.started" /\ name = n
        BY <1>15, <3>3, HeadTail DEF type, name
      <4>2. PhaseFollows' /\ DeclaredFollows' /\ \A y \in Names : OpenStep(y)' <=> y = n
        BY <1>12, <1>14, <3>0, <4>1
      <4>3. Tail(jobs) = <<DoWith("set_step", n)>>
        BY <3>3, HeadTail
      <4> QED
        BY <4>2, <4>3 DEF Stepping
    <3>4. ASSUME NEW n \in Names,
                 jobs = <<DoWith("workflow.step.completed", n), DoWith("clear_step", n)>>
          PROVE  Stepping(Tail(jobs))'
      <4>1. type = "workflow.step.completed" /\ name = n
        BY <1>15, <3>4, HeadTail DEF type, name
      <4>2. PhaseFollows' /\ DeclaredFollows'
        BY <1>14, <3>0, <4>1
      <4>3. \A y \in Names : OpenStep(y)' <=> state'.step = y /\ y # n
        BY <1>10, <1>12, <3>0, <4>1 DEF StepFollows
      <4>4. Tail(jobs) = <<DoWith("clear_step", n)>>
        BY <3>4, HeadTail
      <4> QED
        BY <4>2, <4>3, <4>4 DEF Stepping
    <3>5. ASSUME NEW n \in Names,
                 jobs = <<DoWith("workflow.input.declared", n), DoWith("set_declared", n)>>
          PROVE  Declaring(Tail(jobs))'
      <4>1. type = "workflow.input.declared" /\ name = n
        BY <1>15, <3>5, HeadTail DEF type, name
      <4>2. PhaseFollows' /\ StepFollows' /\ Declared' = state'.declared \cup {n}
        BY <1>10, <1>13, <1>14, <3>0, <4>1 DEF DeclaredFollows
      <4>3. Tail(jobs) = <<DoWith("set_declared", n)>>
        BY <3>5, HeadTail
      <4> QED
        BY <4>2, <4>3 DEF Declaring
    <3> QED
      BY <2>1, <3>1, <3>2, <3>3, <3>4, <3>5 DEF Before, Underway
  <2>2. CASE Phasing(jobs)
    <3>1. PICK n \in Names :
            jobs = <<DoWith("workflow.phase.started", n), DoWith("set_phase", n)>>
      <4>1. \A n : /\ jobs = <<DoWith("set_phase", n)>> => type \in Updates
                   /\ jobs = <<Do("clear_phase")>> => type \in Updates
        BY <1>15, HeadTail DEF type, Updates
      <4> QED
        BY <1>2, <2>2, <4>1, FieldWords DEF Phasing
    <3>2. type = "workflow.phase.started" /\ name = n
      BY <1>15, <3>1, HeadTail DEF type, name
    <3>3. StepFollows' /\ DeclaredFollows' /\ \A y \in Names : OpenPhase(y)' <=> y = n
      BY <1>11, <1>14, <2>2, <3>2 DEF Phasing
    <3>4. Tail(jobs) = <<DoWith("set_phase", n)>>
      BY <3>1, HeadTail
    <3> QED
      BY <3>3, <3>4 DEF Underway, Phasing
  <2>3. CASE Stepping(jobs) \/ Declaring(jobs)
    <3>1. \A n : /\ jobs = <<DoWith("set_step", n)>> => type \in Updates
                 /\ jobs = <<DoWith("clear_step", n)>> => type \in Updates
                 /\ jobs = <<DoWith("set_declared", n)>> => type \in Updates
      BY <1>15, HeadTail DEF type, Updates
    <3> QED
      BY <1>2, <2>3, <3>1, FieldWords DEF Stepping, Declaring
  <2> QED
    BY <2>1, <2>2, <2>3 DEF Underway
<1>17. jobs # <<>> /\ todo'[p] = jobs
  BY <1>2, <1>7
<1>18. state.run \notin undone' => Underway(Left(p))'
  BY <1>1, <1>7, <1>9, <1>16
<1> QED
  BY <1>8, <1>17, <1>18, FollowTracked

\* The rest of that append changes nothing of it.
LEMMA FollowBump ==
    ASSUME OrderInv, FileInv, FollowInv, NEW p \in Proc, BumpLoad(p) \/ BumpWrite(p),
           ~Untracked(todo[p])
    PROVE  FollowInv'
<1>0. todo[p] \in Seq(Jobs)
  BY DEF OrderInv, TypeOK
<1> PICK jobs : jobs = Left(p)
  OBVIOUS
<1>1. Tracked(todo[p]) /\ (state.run \notin undone => Underway(jobs))
  BY TheUpdater
<1>2. lock = p /\ todo[p] # <<>> /\ Head(todo[p]).job \notin Steps
  BY DEF BumpLoad, BumpWrite, Current
<1>3. jobs = Tail(todo[p])
  BY <1>2 DEF Left
<1>4. Head(todo[p]).job \in FieldEvents
  BY <1>0, <1>1, <1>2, TrackedTail, FieldWords
<1>5. Head(todo[p]).job \in PlainWords
  BY <1>4, FieldWords DEF Unmarked
<1>6. CASE BumpLoad(p)
  <2>1. /\ Orderly(p)
        /\ UNCHANGED <<events, state, idMap, archive, pc, todo, lock, undone, runs>>
    BY <1>6, BumpLoadStep
  <2>2. PlainStep(p)
    BY <1>2, <1>5, <2>1, Stays
  <2>3. Left(p)' = jobs
    BY <2>1 DEF Left
  <2>4. Underway(jobs) => Underway(jobs)'
    BY <2>1, SameDisk, UnderwaySame
  <2>5. state.run \notin undone' => Underway(Left(p))'
    BY <1>1, <2>1, <2>3, <2>4
  <2> QED
    BY <1>2, <2>1, <2>2, <2>5, FollowTracked
<1>7. CASE BumpWrite(p)
  <2>1. /\ undone' = undone /\ lock' = NoProc
        /\ todo'[p] \in {<<>>, Tail(todo[p])} /\ PlainStep(p)
    BY <1>5, <1>7, AppendStep, BumpWriteStep
  <2>2. todo'[p] = jobs
    <3>1. Head(todo[p]).job # "crate.checkpoint.failed"
      BY <1>4 DEF FieldEvents
    <3>2. Finish(p)
      BY <1>7, <3>1, BumpWriteStep
    <3> QED
      BY <1>3, <3>2 DEF Finish, Proceed, OrderInv, TypeOK
  <2>3. Left(p)' = jobs
    BY <2>1, <2>2, ConstantsAssumption DEF Left
  <2>4. ASSUME state.run \notin undone' PROVE todo'[p] # <<>> /\ Underway(Left(p))'
    <3>1. Underway(jobs)
      BY <1>1, <2>1, <2>4
    <3>2. SameReadings
      BY <1>7, <2>1, <2>4, BumpFields
    <3>3. Underway(jobs)'
      BY <3>1, <3>2, UnderwaySame
    <3> QED
      BY <2>2, <2>3, <3>1, <3>3, UnderwayHead
  <2> QED
    BY <2>1, <2>4, FollowTracked
<1> QED
  BY <1>6, <1>7

\* Before it sets its field the command loads the state.
LEMMA FollowLoad ==
    ASSUME OrderInv, FollowInv, NEW p \in Proc, UpdateLoad(p), ~Untracked(todo[p])
    PROVE  FollowInv'
<1> PICK jobs : jobs = Left(p)
  OBVIOUS
<1>1. /\ PlainStep(p) /\ Head(todo[p]).job \in Steps
      /\ UNCHANGED <<events, state, todo, undone>>
  BY UpdateLoadStep, FieldWords
<1>2. Left(p)' = jobs
  BY <1>1 DEF Left
<1>3. Underway(jobs) => Underway(jobs)'
  BY <1>1, SameDisk, UnderwaySame
<1>4. state.run \notin undone' => Underway(Left(p))'
  BY <1>1, <1>2, <1>3, TheUpdater
<1>5. todo[p] # <<>>
  BY UntrackedWords DEF Untracked
<1> QED
  BY <1>1, <1>4, <1>5, FollowTracked

\* The fields of a state with one of them changed.
LEMMA ChangedFields ==
    ASSUME NEW s \in States, NEW x
    PROVE  /\ [s EXCEPT !.phase = x].phase = x /\ [s EXCEPT !.phase = x].step = s.step
           /\ [s EXCEPT !.phase = x].declared = s.declared
           /\ [s EXCEPT !.step = x].step = x /\ [s EXCEPT !.step = x].phase = s.phase
           /\ [s EXCEPT !.step = x].declared = s.declared
           /\ [s EXCEPT !.declared = x].declared = x
           /\ [s EXCEPT !.declared = x].phase = s.phase
           /\ [s EXCEPT !.declared = x].step = s.step
           /\ [s EXCEPT !.checkpointed = x].phase = s.phase
           /\ [s EXCEPT !.checkpointed = x].step = s.step
           /\ [s EXCEPT !.checkpointed = x].declared = s.declared
BY DEF States

\* It sets its field, which then says what the journal does.
LEMMA FollowField ==
    ASSUME OrderInv, FileInv, FollowInv, NEW p \in Proc, UpdateWrite(p), ~Untracked(todo[p])
    PROVE  FollowInv'
<1> PICK jobs : jobs = todo[p]
  OBVIOUS
<1> DEFINE held == reg[p]
<1> DEFINE job == Head(jobs).job
<1> DEFINE name == Head(jobs).name
<1>1. /\ PlainStep(p) /\ UNCHANGED <<events, undone>> /\ lock = p /\ held # NoFile
      /\ todo'[p] = Tail(jobs) /\ job \in Updates
  BY UpdateWriteStep
<1>2. ASSUME state.run \notin undone PROVE Followed' /\ Tail(jobs) = <<>>
  <2>1. /\ \/ job = "set_phase" /\ state' = [held EXCEPT !.phase = name]
           \/ job = "clear_phase" /\ state' = [held EXCEPT !.phase = NoName]
           \/ job = "set_step" /\ state' = [held EXCEPT !.step = name]
           \/ /\ job = "clear_step"
              /\ state' = [held EXCEPT !.step = IF held.step = name THEN NoName ELSE held.step]
           \/ job = "set_declared" /\ state' = [held EXCEPT !.declared = held.declared \cup {name}]
    BY DEF UpdateWrite, Current
  <2>2. Underway(jobs)
    <3>1. Left(p) = jobs
      BY <1>1, FieldWords DEF Left
    <3> QED
      BY <1>2, <3>1, TheUpdater
  <2>3. /\ held \in States /\ held.phase = state.phase
        /\ held.step = state.step /\ held.declared = state.declared
    BY <1>1, <1>2 DEF OrderInv, TypeOK, FileInv, RegInv, RegOf, Agree
  <2>4. /\ \A x : (OpenPhase(x)' <=> OpenPhase(x)) /\ (OpenStep(x)' <=> OpenStep(x))
        /\ Declared' = Declared
    BY <1>1 DEF OpenPhase, OpenStep, Declared, Indices
  <2> HIDE DEF held, job, name
  <2>5. \A w, x : DoWith(w, x).job = w /\ DoWith(w, x).name = x /\ Do(w).job = w
    BY DEF DoWith, Do
  <2>6. NoName \notin Names
    BY ConstantsAssumption
  <2>7. /\ state'.phase = state.phase /\ PhaseFollows => PhaseFollows'
        /\ state'.step = state.step /\ StepFollows => StepFollows'
        /\ state'.declared = state.declared /\ DeclaredFollows => DeclaredFollows'
    BY <2>4 DEF PhaseFollows, StepFollows, DeclaredFollows
  <2>8. Followed' /\ Tail(jobs) = <<>>
    <3>1. CASE Before(jobs)
      <4>1. job \in FieldEvents
        BY <2>5, <3>1, HeadTail DEF Before, FieldEvents, job
      <4> QED
        BY <2>1, <4>1 DEF FieldEvents
    <3>2. CASE Phasing(jobs)
      <4>0. StepFollows /\ DeclaredFollows
        BY <3>2 DEF Phasing
      <4>1. \A n : jobs # <<DoWith("workflow.phase.started", n), DoWith("set_phase", n)>>
        <5>1. \A n : jobs = <<DoWith("workflow.phase.started", n), DoWith("set_phase", n)>>
                       => job = "workflow.phase.started"
          BY <2>5, HeadTail DEF job
        <5> QED
          BY <2>1, <5>1
      <4>2. ASSUME NEW n \in Names, jobs = <<DoWith("set_phase", n)>>,
                   \A x \in Names : OpenPhase(x) <=> x = n
            PROVE  Followed' /\ Tail(jobs) = <<>>
        <5>1. job = "set_phase" /\ name = n /\ Tail(jobs) = <<>>
          BY <2>5, <4>2, HeadTail DEF job, name
        <5>0. state' = [held EXCEPT !.phase = n]
          BY <2>1, <5>1
        <5>2. /\ state'.phase = n /\ state'.step = state.step /\ state'.declared = state.declared
          BY <2>3, <5>0, ChangedFields
        <5>3. PhaseFollows'
          BY <2>4, <4>2, <5>2 DEF PhaseFollows
        <5> QED
          BY <2>7, <4>0, <5>1, <5>2, <5>3 DEF Followed
      <4>3. ASSUME jobs = <<Do("clear_phase")>>, \A x \in Names : ~OpenPhase(x)
            PROVE  Followed' /\ Tail(jobs) = <<>>
        <5>1. job = "clear_phase" /\ Tail(jobs) = <<>>
          BY <2>5, <4>3, HeadTail DEF job
        <5>0. state' = [held EXCEPT !.phase = NoName]
          BY <2>1, <5>1
        <5>2. /\ state'.phase = NoName
              /\ state'.step = state.step /\ state'.declared = state.declared
          BY <2>3, <5>0, ChangedFields
        <5>3. PhaseFollows'
          BY <2>4, <2>6, <4>3, <5>2 DEF PhaseFollows
        <5> QED
          BY <2>7, <4>0, <5>1, <5>2, <5>3 DEF Followed
      <4> QED
        BY <3>2, <4>1, <4>2, <4>3 DEF Phasing
    <3>3. CASE Stepping(jobs)
      <4>0. PhaseFollows /\ DeclaredFollows
        BY <3>3 DEF Stepping
      <4>1. ASSUME NEW n \in Names, jobs = <<DoWith("set_step", n)>>,
                   \A x \in Names : OpenStep(x) <=> x = n
            PROVE  Followed' /\ Tail(jobs) = <<>>
        <5>1. job = "set_step" /\ name = n /\ Tail(jobs) = <<>>
          BY <2>5, <4>1, HeadTail DEF job, name
        <5>0. state' = [held EXCEPT !.step = n]
          BY <2>1, <5>1
        <5>2. /\ state'.step = n /\ state'.phase = state.phase /\ state'.declared = state.declared
          BY <2>3, <5>0, ChangedFields
        <5>3. StepFollows'
          BY <2>4, <4>1, <5>2 DEF StepFollows
        <5> QED
          BY <2>7, <4>0, <5>1, <5>2, <5>3 DEF Followed
      <4>2. ASSUME NEW n \in Names, jobs = <<DoWith("clear_step", n)>>,
                   \A x \in Names : OpenStep(x) <=> state.step = x /\ x # n
            PROVE  Followed' /\ Tail(jobs) = <<>>
        <5>1. job = "clear_step" /\ name = n /\ Tail(jobs) = <<>>
          BY <2>5, <4>2, HeadTail DEF job, name
        <5>0. state' = [held EXCEPT !.step = IF held.step = n THEN NoName ELSE held.step]
          BY <2>1, <5>1
        <5>2. /\ state'.step = (IF state.step = n THEN NoName ELSE state.step)
              /\ state'.phase = state.phase /\ state'.declared = state.declared
          BY <2>3, <5>0, ChangedFields
        <5>3. StepFollows'
          BY <2>4, <2>6, <4>2, <5>2 DEF StepFollows
        <5> QED
          BY <2>7, <4>0, <5>1, <5>2, <5>3 DEF Followed
      <4> QED
        BY <3>3, <4>1, <4>2 DEF Stepping
    <3>4. CASE Declaring(jobs)
      <4>0. PhaseFollows /\ StepFollows
        BY <3>4 DEF Declaring
      <4>1. PICK n \in Names : jobs = <<DoWith("set_declared", n)>>
                               /\ Declared = state.declared \cup {n}
        BY <3>4 DEF Declaring
      <4>2. job = "set_declared" /\ name = n /\ Tail(jobs) = <<>>
        BY <2>5, <4>1, HeadTail DEF job, name
      <4>3. state' = [held EXCEPT !.declared = held.declared \cup {n}]
        BY <2>1, <4>2
      <4>4. /\ state'.declared = state.declared \cup {n}
            /\ state'.phase = state.phase /\ state'.step = state.step
        BY <2>3, <4>3, ChangedFields
      <4>5. DeclaredFollows'
        BY <2>4, <4>1, <4>4 DEF DeclaredFollows
      <4> QED
        BY <2>7, <4>0, <4>2, <4>4, <4>5 DEF Followed
    <3> QED
      BY <2>2, <3>1, <3>2, <3>3, <3>4 DEF Underway
  <2> QED
    BY <2>8
<1>3. state.run \notin undone' => todo'[p] = <<>> /\ Followed'
  BY <1>1, <1>2
<1> HIDE DEF held, job, name
<1> QED
  BY <1>1, <1>3, FollowTracked

\* It is killed before its event, or after its field.
LEMMA FollowKill ==
    ASSUME UpdatesNotCut, OrderInv, FollowInv, NEW p \in Proc, Kill(p), ~Untracked(todo[p])
    PROVE  FollowInv'
<1> PICK jobs : jobs = todo[p]
  OBVIOUS
<1>1. /\ UNCHANGED <<events, state, undone>> /\ todo'[p] = <<>> /\ lock # p
      /\ Head(jobs).job \notin Updates /\ Head(jobs).job # "workflow.phase.started"
  BY KillStep DEF UpdatesNotCut, disk
<1>2. PlainStep(p)
  <2>1. Quiet(p) \/ \E k \in 1 .. 7 : At(todo[p], k)
    BY KillStep
  <2> QED
    BY <2>1, CreatorUntracked DEF Quiet
<1>3. ASSUME state.run \notin undone' PROVE Followed'
  <2>1. Underway(jobs)
    <3>1. Left(p) = jobs
      BY <1>1 DEF Left
    <3> QED
      BY <1>1, <1>3, <3>1, TheUpdater
  <2>2. \A w, x : DoWith(w, x).job = w /\ Do(w).job = w
    BY DEF DoWith, Do
  <2>3. ~Phasing(jobs)
    BY <1>1, <2>2, HeadTail DEF Phasing, Updates
  <2>4. ~Stepping(jobs) /\ ~Declaring(jobs)
    BY <1>1, <2>2, HeadTail DEF Stepping, Declaring, Updates
  <2>5. Followed
    BY <2>1, <2>3, <2>4 DEF Underway
  <2> QED
    BY <1>1, <2>5, SameDisk
<1> QED
  BY <1>1, <1>2, <1>3, FollowTracked

\* FollowInv holds at first ...
LEMMA FollowInit == Init => FollowInv
<1> SUFFICES ASSUME Init PROVE FollowInv
  OBVIOUS
<1>1. state = NoFile /\ \A p \in Proc : todo[p] = <<>>
  BY DEF Init
<1>2. \A p \in Proc : Untracked(todo[p]) /\ ~At(todo[p], 7)
  BY <1>1, UntrackedWords, NoJobs DEF Untracked
<1> QED
  BY <1>1, <1>2 DEF FollowInv

\* A command begins.
LEMMA FollowBegin ==
    ASSUME StartsAlone, OneUpdater, OrderInv, FileInv, FollowInv, NEW p \in Proc, Command(p)
    PROVE  FollowInv'
<1>1. todo[p] = <<>>
  <2>1. pc[p] = "idle" \/ pc[p] = "ready"
    BY DEF Command, Start, Hook, Main, Note, Abort, Resume, Phase, PhaseComplete, Step, Declare,
           Checkpoint, Finalize, Invoke, Ready
  <2> QED
    BY <2>1 DEF OrderInv, Staged
<1>2. Untracked(todo[p])
  BY <1>1 DEF Untracked
<1>3. ASSUME Start(p) \/ Hook(p) PROVE FollowInv'
  <2>1. /\ UNCHANGED <<events, state, undone>> /\ TypeOK'
        /\ \A q \in Proc : At(todo[q], 8)
    BY <1>3, StartStep, HookStep DEF disk, locking
  <2>2. Untracked(todo'[p])
    BY <1>2, <1>3, UntrackedStep
  <2>3. Quiet(p) \/ (LoneStep(p, 5) /\ state = NoFile) \/ (LoneStep(p, 1) /\ state # NoFile)
    BY <1>3, StartStep, HookStep
  <2>4. 1 \in 1 .. 8 /\ 5 \in 1 .. 8 /\ 5 \in 2 .. 7 /\ 1 # 7 /\ 5 # 7
    OBVIOUS
  <2>5. CASE Quiet(p)
    BY <1>2, <2>1, <2>2, <2>5, SameDisk, FollowPlain DEF Quiet
  <2>6. CASE LoneStep(p, 5)
    BY <2>1, <2>2, <2>4, <2>6, FollowLone
  <2>7. CASE LoneStep(p, 1) /\ state # NoFile
    <3>1. \A q \in Proc : Untracked(todo[q])
      <4>1. \A q \in Proc \ {p} : todo[q] = <<>>
        BY <2>7 DEF LoneStep
      <4>2. Untracked(<<>>)
        BY DEF Untracked
      <4> QED
        BY <1>2, <4>1, <4>2
    <3>2. \A q \in Proc : \A k \in 2 .. 7 : ~At(todo[q], k)
      <4>1. \A q \in Proc : todo[q] \in Seq(Jobs)
        BY DEF OrderInv, TypeOK
      <4>2. \A q \in Proc : \A k \in 1 .. 7 : ~At(todo[q], k)
        BY <2>1, <4>1, NoStages
      <4>3. \A k \in 2 .. 7 : k \in 1 .. 7
        OBVIOUS
      <4> QED
        BY <4>2, <4>3
    <3>3. state.run \notin undone => Followed'
      BY <2>1, <2>7, <3>1, <3>2, FollowedNow, SameDisk
    <3> QED
      BY <2>1, <2>2, <2>4, <2>7, <3>3, FollowLone
  <2> QED
    BY <2>3, <2>5, <2>6, <2>7
<1>4. CASE Main(p)
  <2>1. CASE state = NoFile
    BY <1>4, <2>1, MainFails, FollowSame DEF disk, locking
  <2>2. CASE state # NoFile
    <3>1. PlainStep(p) /\ Recover /\ todo' = todo /\ undone' = undone
      BY <1>4, <2>2, MainStep
    <3>2. state.run \notin undone' => SameReadings
      BY <3>1, RecoverQuiet, SameDisk
    <3> QED
      BY <1>2, <3>1, <3>2, FollowPlain
  <2> QED
    BY <2>1, <2>2
<1>5. CASE Note(p) \/ Abort(p) \/ Resume(p) \/ Checkpoint(p) \/ Finalize(p)
  <2>1. Quiet(p) /\ events' = events /\ state' = state
    BY <1>5, NewCommand DEF Quiet, disk
  <2>2. Untracked(todo'[p])
    BY <1>2, <1>5, UntrackedStep
  <2> QED
    BY <1>2, <2>1, <2>2, SameDisk, FollowPlain DEF Quiet
<1>6. CASE Phase(p) \/ PhaseComplete(p) \/ Step(p) \/ Declare(p)
  BY <1>6, FollowUpdate
<1> QED
  BY <1>3, <1>4, <1>5, <1>6 DEF Command

\* An append of a command that sets no field.
LEMMA FollowEvent ==
    ASSUME OrderInv, FileInv, FollowInv, NEW p \in Proc,
           AppendLine(p) \/ BumpLoad(p) \/ BumpWrite(p),
           Head(todo[p]).job \in PlainWords, Untracked(todo[p])
    PROVE  FollowInv'
<1>0. TypeOK /\ todo[p] \in Seq(Jobs)
  BY DEF OrderInv, TypeOK
<1>1. todo[p] # <<>> /\ Head(todo[p]).job \notin Steps
  BY DEF AppendLine, BumpLoad, BumpWrite, Current
<1>2. Untracked(todo'[p])
  BY UntrackedStep DEF Job
<1>3. CASE AppendLine(p)
  <2>1. state # NoFile
    BY <1>1, WorkingPlain
  <2>2. /\ Orderly(p)
        /\ UNCHANGED <<state, idMap, archive, pc, todo, undone, runs>>
        /\ Write(Written(Head(todo[p]).job, Head(todo[p]).name, OnDisk))
    BY <1>3, <2>1, LineStep
  <2>3. PlainStep(p)
    BY <1>1, <2>2, Stays
  <2>4. Head(todo[p]).job \in EventTypes /\ Head(todo[p]).name \in Labels
    BY <1>1, Appending
  <2>5. Head(todo[p]).job \notin FieldEvents
    BY <1>0, <1>1, UntrackedTail
  <2>6. SameReadings
    BY <1>0, <2>2, <2>4, <2>5, OtherLine
  <2> QED
    BY <1>2, <2>3, <2>6, FollowPlain
<1>4. CASE BumpLoad(p)
  <2>1. /\ Orderly(p)
        /\ UNCHANGED <<events, state, idMap, archive, pc, todo, undone, runs>>
    BY <1>4, BumpLoadStep
  <2>2. PlainStep(p)
    BY <1>1, <2>1, Stays
  <2> QED
    BY <1>2, <2>1, <2>2, SameDisk, FollowPlain
<1>5. CASE BumpWrite(p)
  <2>1. undone' = undone /\ PlainStep(p)
    BY <1>5, AppendStep, BumpWriteStep
  <2>2. state.run \notin undone' => SameReadings
    BY <1>5, <2>1, BumpFields
  <2> QED
    BY <1>2, <2>1, <2>2, FollowPlain
<1> QED
  BY <1>3, <1>4, <1>5

\* A command does its next job.
LEMMA FollowJob ==
    ASSUME OrderInv, FileInv, FollowInv, NEW p \in Proc, Job(p)
    PROVE  FollowInv'
<1>0. todo[p] \in Seq(Jobs)
  BY DEF OrderInv, TypeOK
<1>1. Untracked(todo[p]) => Untracked(todo'[p])
  BY UntrackedStep
<1>2. \A k \in 1 .. 7 : At(todo[p], k) => Untracked(todo[p])
  BY CreatorUntracked
<1>3. ~Untracked(todo[p]) => Head(todo[p]).job \in Updates \cup FieldEvents
  BY <1>0, TheUpdater, TrackedTail
<1>4. Saves \cup {"recover", "resume_if_active", "gate", "build"} \subseteq Others
  BY OtherWords DEF Saves
<1>5. Head(todo[p]).job \in Others => Untracked(todo[p])
  BY <1>3 DEF Others
<1>6. CASE AppendLine(p) \/ BumpLoad(p) \/ BumpWrite(p)
  <2>1. TypeOK'
    <3>1. CASE AppendLine(p) /\ state # NoFile
      BY <3>1, LineStep
    <3>2. CASE AppendLine(p) /\ state = NoFile
      BY <3>2, LineFails
    <3>3. CASE BumpLoad(p)
      BY <3>3, BumpLoadStep
    <3>4. CASE BumpWrite(p)
      BY <3>4, AppendStep, FirstBumpWrite
    <3> QED
      BY <1>6, <3>1, <3>2, <3>3, <3>4
  <2>2. CASE Head(todo[p]).job \notin PlainWords
    BY <1>6, <2>1, <2>2, FollowFirst
  <2>3. CASE Head(todo[p]).job \in PlainWords /\ Untracked(todo[p])
    BY <1>6, <2>3, FollowEvent
  <2>4. CASE ~Untracked(todo[p])
    BY <1>6, <2>4, FollowLine, FollowBump
  <2> QED
    BY <2>2, <2>3, <2>4
<1>7. CASE Move(p)
  <2>1. PICK k \in 1 .. 4 : At(todo[p], k) /\ LoneStep(p, k + 1) /\ TypeOK'
    BY <1>7, MoveStep
  <2>2. k \in 1 .. 7 /\ k + 1 \in 1 .. 8 /\ k + 1 \in 2 .. 7 /\ k + 1 # 7
    OBVIOUS
  <2> QED
    BY <1>1, <1>2, <2>1, <2>2, FollowLone
<1>8. CASE WriteState(p)
  <2>1. At(todo[p], 5) /\ LoneStep(p, 6) /\ TypeOK'
    BY <1>8, WriteStateStep
  <2>2. 5 \in 1 .. 7 /\ 6 \in 1 .. 8 /\ 6 \in 2 .. 7 /\ 6 # 7
    OBVIOUS
  <2> QED
    BY <1>1, <1>2, <2>1, <2>2, FollowLone
<1>9. CASE WriteIdMap(p)
  <2>1. At(todo[p], 6) /\ LoneStep(p, 7) /\ TypeOK' /\ events' = events
    BY <1>9, WriteIdMapStep
  <2>2. 6 \in 1 .. 7 /\ 7 \in 1 .. 8 /\ 7 \in 2 .. 7
    OBVIOUS
  <2>3. events = <<>>
    BY <2>1, <2>2 DEF FileInv, DiskInv, DiskAt
  <2>4. NoneYet'
    BY <2>1, <2>3 DEF NoneYet, Indices
  <2> QED
    BY <1>1, <1>2, <2>1, <2>2, <2>4, FollowLone
<1>10. CASE RecoverJob(p)
  <2>1. PlainStep(p) /\ Recover /\ undone' = undone
    BY <1>10, RecoverStep
  <2>2. Untracked(todo[p])
    BY <1>4, <1>5, <1>10 DEF RecoverJob, Current
  <2>3. state.run \notin undone' => SameReadings
    BY <2>1, RecoverQuiet, SameDisk
  <2> QED
    BY <1>1, <2>1, <2>2, <2>3, FollowPlain
<1>11. CASE ResumeIfActive(p) \/ Gate(p)
  <2>1. PlainStep(p) /\ events' = events /\ state' = state
    BY <1>11, QuietJob DEF Quiet, disk
  <2>2. Untracked(todo[p])
    BY <1>4, <1>5, <1>11 DEF ResumeIfActive, Gate, Current, Busy
  <2> QED
    BY <1>1, <2>1, <2>2, SameDisk, FollowPlain
<1>12. CASE UpdateLoad(p) \/ UpdateWrite(p)
  <2>1. ~Untracked(todo[p])
    <3>1. todo[p] # <<>> /\ Head(todo[p]).job \in Updates
      BY <1>12 DEF UpdateLoad, UpdateWrite, Busy, Current
    <3> QED
      BY <1>0, <3>1, UntrackedTail
  <2> QED
    BY <1>12, <2>1, FollowLoad, FollowField
<1>13. CASE SaveLoad(p) \/ SaveWrite(p)
  <2>1. Untracked(todo[p])
    BY <1>4, <1>5, <1>13 DEF SaveLoad, SaveWrite, Busy, Current
  <2>2. CASE SaveLoad(p)
    BY <1>1, <2>1, <2>2, SaveLoadStep, SameDisk, FollowPlain
  <2>3. CASE SaveWrite(p)
    <3>1. /\ PlainStep(p) /\ events' = events
          /\ state.run \notin undone' => Agree(state, state')
      BY <2>3, SaveWriteStep
    <3>2. state.run \notin undone' => SameReadings
      BY <3>1 DEF Agree, SameReadings, OpenPhase, OpenStep, Declared, Indices
    <3> QED
      BY <1>1, <2>1, <3>1, <3>2, FollowPlain
  <2> QED
    BY <1>13, <2>2, <2>3
<1>14. CASE Build(p)
  <2>1. PlainStep(p) /\ events' = events /\ state' = state
    BY <1>14, BuildStep
  <2>2. Untracked(todo[p])
    BY <1>4, <1>5, <1>14 DEF Build, Busy, Current
  <2> QED
    BY <1>1, <2>1, <2>2, SameDisk, FollowPlain
<1> QED
  BY <1>6, <1>7, <1>8, <1>9, <1>10, <1>11, <1>12, <1>13, <1>14 DEF Job

\* A command that sets no field is killed: during the creation of a run only before it
\* has done anything to the old one, or before the new one exists.
LEMMA FollowKilled ==
    ASSUME SafelyKilled, OrderInv, FileInv, FollowInv, NEW p \in Proc, Kill(p),
           Untracked(todo[p])
    PROVE  FollowInv'
<1>1. /\ UNCHANGED <<events, state, undone>> /\ TypeOK'
      /\ Head(todo[p]).job \in KillBefore
  BY KillStep DEF disk
<1>2. Untracked(todo'[p])
  BY UntrackedStep
<1>3. CASE Quiet(p)
  BY <1>1, <1>2, <1>3, SameDisk, FollowPlain DEF Quiet
<1>4. ASSUME LoneStep(p, 8), NEW k \in 1 .. 7, At(todo[p], k), Head(todo[p]).job = Creating[k]
      PROVE  FollowInv'
  <2>1. k = 1 \/ k = 5
    <3>1. k = 1 \/ k = 2 \/ k = 3 \/ k = 4 \/ k = 5 \/ k = 6 \/ k = 7
      OBVIOUS
    <3> QED
      BY <1>1, <1>4, <3>1, Words DEF SafelyKilled
  <2>2. DiskAt(k)
    BY <1>4 DEF FileInv, DiskInv
  <2>3. 8 \in 1 .. 8 /\ 8 # 7
    OBVIOUS
  <2>4. CASE k = 1
    <3>1. state # NoFile
      BY <2>2, <2>4 DEF DiskAt
    <3>2. \A q \in Proc : \A l \in 2 .. 7 : ~At(todo[q], l)
      <4>1. \A q \in Proc \ {p} : todo[q] = <<>>
        BY <1>4 DEF LoneStep
      <4>2. \A l \in 2 .. 7 : l \in 1 .. 7 /\ l \in 1 .. 8 /\ l # k
        BY <2>4
      <4>3. \A l \in 2 .. 7 : ~At(todo[p], l)
        BY <1>4, <4>2, OneStage DEF OrderInv, TypeOK
      <4>4. \A q \in Proc \ {p} : \A l \in 2 .. 7 : ~At(todo[q], l)
        BY <4>1, <4>2, NoJobs
      <4> QED
        BY <4>3, <4>4
    <3>3. \A q \in Proc : Untracked(todo[q])
      BY <1>4, CreatorUntracked
    <3>4. state'.run \notin undone' => Followed'
      BY <1>1, <3>1, <3>2, <3>3, FollowedNow, SameDisk
    <3> QED
      BY <1>1, <1>2, <1>4, <2>3, <3>4, FollowLone
  <2>5. CASE k = 5
    <3>1. state' = NoFile
      BY <1>1, <2>2, <2>5 DEF DiskAt
    <3> QED
      BY <1>1, <1>2, <1>4, <2>3, <3>1, FollowLone
  <2> QED
    BY <2>1, <2>4, <2>5
<1> QED
  BY <1>3, <1>4, KillStep

\* ... and after every step.
LEMMA FollowNext ==
    StartsAlone /\ SafelyKilled /\ OneUpdater /\ UpdatesNotCut
    /\ OrderInv /\ FileInv /\ FollowInv /\ [Next]_vars => FollowInv'
<1> SUFFICES ASSUME StartsAlone, SafelyKilled, OneUpdater, UpdatesNotCut,
                    OrderInv, FileInv, FollowInv, [Next]_vars
             PROVE  FollowInv'
  OBVIOUS
<1>1. CASE UNCHANGED vars
  BY <1>1, FollowSame DEF vars, disk, locking
<1>2. ASSUME NEW p \in Proc, Command(p) \/ Job(p) \/ Kill(p) PROVE FollowInv'
  BY <1>2, FollowBegin, FollowJob, FollowKilled, FollowKill
<1> QED
  BY <1>1, <1>2 DEF Next, Done

\* Between commands the phase, the step and the declarations of state.json are those a
\* reader of the journal finds, over every end and start of a run and whatever hooks and
\* checkpoints do meanwhile, in every run in which no unlocked write has taken another's
\* back; for commands of one process, not killed between an event and its field.
THEOREM StateIsCache ==
    ASSUME StartsAlone, SafelyKilled, OneUpdater, UpdatesNotCut
    PROVE  Spec => []StateFollowsJournal
<1>1. Init => OrderInv /\ FileInv /\ FollowInv
  BY OrderInit, FileInit, FollowInit
<1>2. OrderInv /\ FileInv /\ FollowInv /\ [Next]_vars => (OrderInv /\ FileInv /\ FollowInv)'
  BY OrderNext, FileNext, FollowNext
<1>3. OrderInv /\ FileInv /\ FollowInv => StateFollowsJournal
  <2> SUFFICES ASSUME OrderInv, FileInv, FollowInv, state # NoFile, state.run \notin undone,
                      ~SomeoneCreates, \A p \in Proc : ~Updating(p)
               PROVE  Followed
    BY DEF StateFollowsJournal, Followed, PhaseFollows, StepFollows, DeclaredFollows, Declared
  <2>1. ASSUME NEW u \in Proc, ~Untracked(todo[u]) PROVE FALSE
    <3>1. Underway(Left(u))
      BY <2>1, TheUpdater
    <3>2. PICK i \in 1 .. Len(Left(u)) : Left(u)[i].job \in Updates
      BY <3>1, UnderwayHead
    <3>3. todo[u] \in Seq(Jobs) /\ todo[u] # <<>>
      BY <2>1, UntrackedWords DEF OrderInv, TypeOK, Untracked
    <3>4. \E j \in 1 .. Len(todo[u]) : todo[u][j].job \in Updates
      <4>1. CASE Left(u) = todo[u]
        BY <3>2, <4>1
      <4>2. CASE Left(u) = Tail(todo[u])
        <5>1. i + 1 \in 1 .. Len(todo[u]) /\ Left(u)[i] = todo[u][i + 1]
          BY <3>2, <3>3, <4>2, JobsLeft
        <5> QED
          BY <3>2, <5>1
      <4> QED
        BY <4>1, <4>2 DEF Left
    <3> QED
      BY <3>4 DEF Updating
  <2>2. \A p \in Proc : \A k \in 2 .. 7 : ~At(todo[p], k)
    <3>1. \A p \in Proc : todo[p] \in Seq(Jobs) /\ At(todo[p], 8)
      BY RestAgain DEF OrderInv, TypeOK
    <3>2. \A p \in Proc : \A k \in 1 .. 7 : ~At(todo[p], k)
      BY <3>1, NoStages
    <3>3. \A k \in 2 .. 7 : k \in 1 .. 7
      OBVIOUS
    <3> QED
      BY <3>2, <3>3
  <2> QED
    BY <2>1, <2>2, FollowedNow
<1> QED
  BY <1>1, <1>2, <1>3, PTL DEF Spec
=============================================================================
