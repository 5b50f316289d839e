# A TLA+ model of ro-crate-run

`rcr` records what an agent and a human do in an append-only, hash-chained event journal
(`.ro-crate-run/events.ndjson`), keeps a derived cache of it (`state.json`), and materializes the
journal into an RO-Crate at checkpoints and at finalization. Every `rcr` command and every hook is an
operating-system process of its own. They share the state directory, the project's files and two file
locks, and nothing else: there is no daemon and no channel between them.

This directory holds TLA+ modules of that program, the TLC configurations that check them on small
instances, and TLAPS proofs of what holds for every instance. Source paths below are relative to
`src/src/ro_crate_run/`; `SPEC.md` and `tests/` are relative to `src/`.

Contents: [inventory](#1-inventory), [modules and the code](#2-modules-and-the-code),
[runs](#3-runs-bounds-and-fairness), [proofs](#4-proofs), [disagreements](#5-where-the-code-and-its-documents-disagree),
[limits](#6-limits-known-and-not-run), [not modelled](#7-what-is-not-modelled), [plan](#8-plan).

## 1. Inventory

| component | source | state it keeps | operations |
|---|---|---|---|
| event journal and run lock | `journal.py`, `events.py`, `state.py`, `fs.py` | `events.ndjson`, `state.json`, `lock` | `EventWriter.append`, `update_state`, `rewrite_chain`, `read_events`, `verify_hash_chain` |
| recovery | `recovery.py` | none of its own | `ensure_recovered`, run first by every command: truncate a torn line, reconcile `state.json`, close abandoned commands |
| run lifecycle | `commands.py`, `context.py` | `.ro-crate-run/archive/`, the fields `current_phase`, `current_step`, `declared_*` of `state.json` | start, auto-start, archive a closed run, resume, phase, step, input/output/software, abort |
| command runner | `runner.py`, `proc.py` | `commands/*.json`, `logs/` | `rcr run`: a started event, the child process, two pump threads, a sidecar, a terminal event, `redaction.applied` |
| hooks | `hooks.py` | `session_id` of `state.json` | one event per tool call, session start and end, tool policy, the Stop hook with its checkpoint and its verdict per mode |
| identifiers | `ids.py` | `id-map.json` | `entity_for_event`, `entity_for_step` |
| run model | `materialize/run_model.py`, `materialize/profiles.py` | none: a fold of the journal | one projector per event type, profile selection, workflow synthesis |
| file inclusion | `materialize/files.py` | none | which files enter the crate, and which are copied |
| checkpoint | `materialize/builder.py` | `ro-crate/`, `checkpoint.lock`, the fields `dirty`, `last_checkpoint`, `requested_profile`, `selected_profile` | record the profile, fix the high-water mark, build, validate, complete |
| crate mapping | `materialize/mapping/`, `summary.py`, `preview.py` | none: builds entities | one emitter per family, `_dedupe` |
| validation | `validation/` | none | journal, state, crate, profile, privacy and SHACL checks, run by checkpoint, validate and the export gate |
| export | `export.py`, `signing.py` | the archive file | finalize: checkpoint if stale, stage, gate, ship, sign |
| redaction | `redaction.py`, `redact.py` | none | patterns applied to what is recorded; `rcr redact` rewrites the journal and the text files of the run and its crate |
| mirror | `remote_journal.py` | a remote copy | one post per event, best effort or fail closed |
| adapters, probes, installer, CLI | `adapters/`, `git.py`, `software_probe.py`, `oci.py`, `install.py`, `cli.py`, `config.py` | configuration | parsing, subprocess calls, argument handling |

### How they interact

* An append holds the run lock from the load of `state.json` to its rewrite. The line reaches the disk
  first, then the mirror, then the bump of `sequence`, `last_event_hash` and `dirty`.
* A checkpoint holds `checkpoint.lock` throughout. It takes the run lock only inside each append. Its five
  other read-modify-writes of `state.json` hold no run lock.
* A hook writes `session_id` to `state.json` with no lock at all.
* `rcr run` reads `state.json` without the lock to number its command, and shares `id-map.json` with
  checkpoints without a lock.
* A build reads the journal up to its high-water mark, but the disk as it is while it runs.
* `rcr run` has threads of its own: one pump per stream of the child, which share `stream_counts`,
  `pump_errors` and the pipes with the child and with whatever the child started.
* `rcr redact` reads the journal without the run lock and rewrites it with the lock; it rewrites files in
  place with no lock. The gate of `rcr finalize` validates the live crate and scans the staged copy.
* Between two processes everything is an interleaving; each can be killed at any point.

### What is hard, and what makes each component correct

| component | hard behaviours | correct when |
|---|---|---|
| journal, recovery | concurrent appends; a kill between line and cache; a torn line; a mirror that raises; recovery racing a running command | the chain is whole, gap-free and append-only; the cache is the tip; every abandoned command is closed once; nobody waits for ever |
| checkpoint, export | appends during a build; two checkpoints at once; a kill or exception at any step; drift of version, profile or outputs | a run not marked dirty is wholly in its crate and validated; `last_checkpoint` never regresses; what ships is current; validation never blames the program's own bookkeeping |
| run lifecycle | archiving is four moves; a hook may act in the middle; state fields repeat events | journal, state, id map, crate and archive each belong to one run; no event is lost; fields agree with the journal |
| model, files, mapping, ids | any order of declarations, commands, edits, deletions, late terminal events; rebuilds | references resolve; each command has its action with its last status; the profile's own checks pass; sensitive files stay out and produced ones get in; a rebuild keeps identifiers |
| command runner | a full pipe, a pump that fails, a descendant that keeps the pipes, a signal, an interrupt, a kill between the records | one record, after the last line; the logs hold every line masked or the record says which log failed; nobody stays blocked |
| redaction, publication | secrets recorded before their pattern existed; a rewrite of the journal racing appends; a redaction that raises half-way; files that change between gate and archive | what is published holds no secret and verifies; what was removed stays away; nothing acknowledged is lost |
| Stop hook | staleness read before the hook's own append; a checkpoint that fails inside the hook | an enforced or monitored run ends only with a current crate |

`PROJECT.json` lists every component and, under `hazards`, each of these behaviours at its line with the
properties that watch it.

## 2. Modules and the code

```
AtomicJournal   <- refined by -  EventJournal
                                     | appends are atomic: assumed by
          +------------+-------------+-------------+---------------+
     Checkpoint   RunLifecycle     Crate      CommandRunner    Publication
                             (EXTENDS RunModel)    |
CapturedCommand <- refined by ---------------------+

EventJournalProofs, CheckpointProofs, CommandRunnerProofs, PublicationProofs (TLAPS)
RunLifecycleProofs <- StateCacheProofs (TLAPS)
RunModelProofs <- CrateProofs (TLAPS)
MCEventJournal, MCCheckpoint, MCRunLifecycle, MCCrate: small instances for TLC
```

The modules compose by assume and guarantee. `EventJournal` shows (model-checked and proved) that an
append and its state bump behave as one step of `AtomicJournal`. `Crate`, `CommandRunner` and `Publication`
take an append for one step because of that. `Checkpoint` and `RunLifecycle` do not: their unlocked writers of
`state.json` (checkpoints, and in `RunLifecycle` hooks too) can come between the line of an append, the load of
its bump and the write, so these are steps of their own. `Crate` takes from `Checkpoint` that checkpoints
exclude one another. `Publication` takes from `CommandRunner` that a command's record is whole, and makes
`rcr run` one step. Each module says at its head what it takes from another.

### EventJournal

A process runs one `rcr` invocation after another; `pc[p]` is its control point.

| model | code |
|---|---|
| `journal`, `tail` | `events.ndjson`: its lines, and what follows the last newline |
| `state`, `lock` | `sequence` and `last_event_hash` of `state.json`; the holder of the run lock |
| `Acquire`, `Release` | `journal_lock` around recovery and around each append |
| `ReadJournal`, `RewriteState`, `BlockOrphan` | `_recover_state_locked`: torn line, chain, lag, abandoned commands |
| `LoadState`, `WriteLine`, `MirrorFails`, `BumpState` | `EventWriter.append` step by step |
| `Note`, `StartCommand`, `FinishCommand` | a command of one append; `rcr run`'s two appends and its unlocked choice of `command_id` |
| `HookLoad`, `HookWrite` | the unlocked write of `session_id` |
| `Crash`, `TornWrite` | a kill at a control point; a kill inside the write of a line |

A hash is the number under which the event was minted: it covers a fresh uuid, so hashes do not collide.
`dirty` and `session_id` carry no information the properties need and are left out; `redaction.applied`
tallies and the exit codes of commands are abstracted to one terminal event.

`AtomicJournal` is what `append` promises its callers: a log and a head that change together. The
refinement maps the log to the lines written less the one whose bump is outstanding, and the head to
`state.json`.

### Checkpoint

`events` and `state` are the journal and the cache with the fields the bookkeeping uses; `crate` is the
high-water mark and the profile of `ro-crate/`. `job[p]` is what a process remembers of its command and
`reg[p]` the state it loaded last: every read-modify-write is a `Load` and a `Store` with other processes
in between, exactly where the code has them.

| model | code |
|---|---|
| `StartCheckpoint`, `LockTimeout` | `checkpoint.lock` with its 30 s timeout |
| `Preview`, `Drift`, `MarkDrift` | `_record_profile_selection`, the version and profile drift |
| `HighWater`, `Integrity`, `Build`, `Raise` | the mark, `_assert_journal_integrity`, `write_crate` and its exception |
| `Validate`, `Complete` | `validate_run`; `_record_checkpoint_completion` |
| `Refresh`, `MarkLoad`, `MarkWrite` | `_refresh_run_dirty` of `rcr status` |
| `Finalize`, `Stage`, `Gate`, `RecordExport`, `Ship` | `rcr finalize` without `--sign` |
| `StopRequested`, `StopStale`, `StopDecision` | the Stop hook: its event, the staleness it read before, its checkpoint, the verdict by mode |
| `Upgrade`, `ChangeOutput` | environment: a new materializer version, a rewritten output |

What the checks say of the crate's content is a free choice from `Verdicts`; what `check_journal` and
`check_state` say of the bookkeeping is computed (`Inconsistent`). The run begins as `rcr start
--no-checkpoint` and one `rcr output` leave it.

`released` is the history of an agent that was let go: what the Stop hook of an enforced or monitored run answers is
decided on the state after the hook's checkpoint, and `StopIsCurrent` says the crate was current then.

### RunLifecycle

One project directory over several runs. A command is a sequence of jobs (`todo`): an append, a change of
`state.json`, a move of one file into the archive, a build, a gate. Processes interleave between jobs and
inside those that load and write back `state.json`, and can be killed before any job named in `KillBefore`.
`Start`, `Hook`, `Phase`, `Step` and the others choose the jobs the way `commands.py` orders its calls.

| model | code |
|---|---|
| `events`, `state`, `idMap`, `crate` | `events.ndjson`; the fields of `state.json` that number the journal or repeat it; the run `id-map.json` and `ro-crate/` belong to |
| `archive`, `Move` | `.ro-crate-run/archive/`, and one `shutil.move` of `_archive_closed_run` |
| `WriteState`, `WriteIdMap`, `BootstrapJobs` | `_bootstrap_run` |
| `lock`, `reg[p]` | the run lock; the `state.json` a process has loaded and not written back yet |
| `AppendLine`, `BumpLoad`, `BumpWrite` | `EventWriter.append` and `_bump_state`, under the run lock |
| `UpdateLoad`, `UpdateWrite` | `update_state`, under the run lock: the phase, the step, a declaration |
| `SaveLoad`, `SaveWrite` | `load_state` and `write_state` without the run lock: a checkpoint's requested profile (`builder.py:96`), drift (`:114`), selected profile (`:150`), completion (`:175`) and selection (`:824`); a hook's `session_id` (`hooks.py:97`) |
| `Recover` | `ensure_recovered`; one step, as `EventJournal` has its parts: it writes nothing unless an unlocked write has left the state behind |
| `CheckpointPlan`, `HookJobs` | which of these jobs a checkpoint and a hook do, in order |

An unlocked save does not hold what the code changes (session, profile, `dirty` are not fields here); what
matters is that it puts back everything else as it was loaded. If another process has bumped the sequence or set a
field in between, that is undone, and the next event repeats a sequence number. `undone` is the history of the
runs to which this has happened. Such runs stay in the model, and their next events and their archiving with them: that
the journal holds no other run's event, that nothing is lost and that the crate is their own is claimed of
them too, whereas the unbroken chain and the agreement of the fields is claimed of the others only. `checkpoint.lock` is
`Checkpoint`'s: two checkpoints at once interleave more freely here than in the code.

### RunModel and Crate

`RunModel` is the reducer: one operator per projector of `run_model.py`, folded over the journal up to the
high-water mark, then `select_profile`, `synthesize_workflow` and `enrich_with_adapter`. An event's time is
its place in the journal (timestamps have microseconds and are taken to be monotonic).

`Crate` is the run that fills the journal and the builder that reads it. Its graph is what
`ro-crate-metadata.json` holds: entities with their types, references, action statuses and errors, merged
by `@id` as `_dedupe` merges them; one operator per emitter. The three loops of the code, over events, over
the files to plan and over what is emitted, are recursive functions (`Reduced`, `PlanFileInclusion`,
`Assembled`), so that the prover can follow them.

| model | code |
|---|---|
| `journal`, `disk`, `idMap`, `copied`, `crate` | `events.ndjson`, the project's files, `id-map.json`, the files and the graph in `ro-crate/` |
| `CommandLoad`, `CommandStart`, `CommandEnd` | `rcr run`: the id map loaded, then saved with the started event; the child's effect on the disk and its terminal event |
| `CommandBlocked` | recovery giving a command up, possibly before it ends |
| `Open`, `Write` | a checkpoint reads journal, profile and id map; later it reads the disk, writes crate and id map |
| `Considered`, `Consider`, `PlanFileInclusion` | `plan_file_inclusion`: declarations, products and edits in their order, each merged into the plan of its path |
| `Build...`, `Sections` | the emitters, in the order `write_crate` calls them |
| `Place`, `BuildTimeline`, `Woven` | `_weave_synthetic_workflow_steps`: actions sorted by time |
| `Merge`, `Assembled`, `Graph` | `_dedupe`; `write_crate`, the root entity last |
| `Keys`, `Allocate` | the `id-map.json` entries a build asks for |

### CommandRunner and CapturedCommand

One `rcr run`. The actors are the main thread (`pc`), two pump threads (`pump`), the child and one
descendant it may leave behind (`alive`, `doing`, `holders`), and the operating system, which holds the pipes.
A line is `clean` or `secret`; a log line is `clean` or `masked`.

| model | code (`runner.py`) |
|---|---|
| `AppendStarted`, `WriteSidecar`, `Launch`, `LaunchFails`, `StartPumps`, `Wait`, `Join` | `run` and `_execute`, call by call; a `Popen` that raises |
| `Collect`, `Tally` | `_finalize`: the final sidecar, the terminal event, `redaction.applied` |
| `PumpLine`, `PumpEnd`, `PumpFails` | `_pump`: a line; end of file; an `OSError`, with the `finally` that closes the pipe |
| `Interrupt`, `Unwind` | Control-C in the main thread, and the interpreter joining the pumps at exit |
| `Kill` | `rcr` killed: threads gone, pipes closed, buffered log lines lost |
| `TryWrite`, `Write`, `WriteBroken`, `Spawn`, `ExitProcess`, `Signal` | external: the command and its descendant, as pipes make them behave |

`CapturedCommand` is what `rcr run` promises: processes write lines; at one moment after the last of
them one record is made, whose logs are the lines, masked and in order, unless it says that logging failed.
The refinement maps `lines` to the lines that entered the pipes and `record` to the terminal event with the
logs it names. Every step but `Write` and the append of the terminal event is a stutter.

### Publication

From a secret on a command line to the archive that ships. A file is the set of traits a pattern, a parser
or a hash can tell: `credential` (a built-in pattern), `project` (a pattern the user may add), `masked` (what
the assignment pattern leaves behind), `broken` (cut short or not parsing), `absent`.

| model | code |
|---|---|
| `Note`, `Run`, `Hook` (`RecordEvent`, `RedactValue`) | an event recorded by a note, by `rcr run` with its sidecar and log, by the prompt hook; `Redactor.redact_value` |
| `BeginCheckpoint` to `CompleteCheckpoint`, `BuildRaises` | `_checkpoint_locked` and `write_crate`: output hashed, output copied, command files copied, metadata last, `check_rocrate`; the exception |
| `Scan`, `ReadJournal`, `RewriteChain`, `RedactFile`, `CompleteRedaction`, `RedactionRaises` | `redact_run` with `--apply` and `--policy`: the scan, the unlocked read, the locked rewrite, one file after the other, `redaction.applied` or `redaction.failed` |
| `Finalize`, `Stage`, `Gate`, `RecordFinalized`, `Embed`, `ExportZip` | `finalize` with `--public` and `--include-event-journal` |
| `RewriteOutput`, `AddPattern`, `Kill` | the agent, the user's policy file, the operating system |

`RewriteJson` is what the assignment pattern does to JSON text: `\S+` takes the closing quote along, so a
masked value is found again and its file no longer parses. `raced`, `cleaned`, `interrupted`, `minted` and
`archive` are history: they record what the properties speak of and no action reads them, except that
`CompleteCheckpoint` and `Kill` set `interrupted`.

## 3. Runs, bounds and fairness

Twelve runs, each with a question of its own. Processes are two where the question is about concurrency
and one where it is about sequences or failures; the hazards of this code are races of two processes, and
a third adds no new kind of pair because the locks have one holder.

| run | bounds | distinct states | what it shows |
|---|---|---|---|
| `journal_concurrent` | 2 processes, 4 commands, kills except at `written` | 639,563 | `TypeOK JournalInv ChainIntact StateAgrees ImplementsAtomicJournal`: no interleaving forks or skips |
| `journal_restart` | 1 process, 4 commands, torn lines | 18,948 | `Durable NoOrphanAfterRecovery CommandsRecordedOnce`: recovery loses nothing acknowledged and closes abandoned commands once |
| `journal_failures` | 2 processes, 3 commands, every failure incl. separators, unlocked hooks and a failing mirror | 1,769,156 | `AppendOnly AllCommandsEnd`: nothing readable is removed, everybody ends |
| `journal_lag` | 1 process, 2 commands | stops | `RecoveryVerifies` is violated (section 5) |
| `checkpoint_sequential` | 1 process, 4 commands of 7 kinds (the Stop hook in three modes among them), kills except between completion and its record, exceptions | 4,305,517 | `FreshIsValidated ShippedIsCurrent SoundBookkeeping StopIsCurrent`: the verdict is remembered, and an enforced or monitored run stops only current |
| `checkpoint_drift` | 1 process, 3 commands, every `--profile`, an upgrade, a changed output, kills anywhere between appends | 3,334,731 | `FreshIsMaterialized ShippedIsCurrent` survive them |
| `checkpoint_pair` | 2 processes, 3 checkpoints, killed before building and before recording completion, exceptions | 816,710 | `FreshIsMaterialized CheckpointNeverRegresses AllCommandsEnd`: `checkpoint.lock` is enough for two checkpoints |
| `checkpoint_late` | 2 processes, 2 commands | stops | `FreshIsMaterialized` is violated (section 5) |
| `lifecycle_lives` | agent (3 commands) and hook (1), 2 interchangeable names, the saves of `SomeExtras`, kills of `SafeKills`, 6 events once a save has undone a write (`UndoneBound`) | 5,559,536 | `JournalIsOfRun ArchivedRunsWhole EventsKept CrateIsOfRun StateFollowsJournal`: runs never mix, and `state.json` repeats its journal unless an unlocked save undid a write |
| `crate_builds` | journals of 5 events, 2 or 3 of them declarations made before | 398,544 | the eight properties of the crate, below |
| `runner_capture` | pipes of 1 line, 3 lines tried, argument with a secret or not, every failure | 538,227 | `RecordsAgree`, `Implements` (of `CapturedCommand`), `CommandEnds`: nothing written is missed, and nobody waits for ever |
| `publication_export` | 3 commands, 2 changes around them, kills and exceptions | 2,391,476 | `PublicHoldsNoSecret ShippedVerifies RedactionHolds EventsSurvive FreshCrateVerifies` |

Why the bounds are enough. Three commands let one process be killed, a second recover and a third find
what was left; four add a race during the repair. One lifecycle of four commands holds a start, a terminal
event, an archiving start and something after it, with the hook anywhere between. Its checkpoints do every kind
of save in one of two ways (an explicit profile with drift, a new selection). Once a save has undone a write, the
behaviour is followed to the sixth event: the two a start appends, a terminal event whose bump is undone, the event
that repeats its number, and the two of the run that follows. `Checkpoint` needs three
commands for "checkpoint, change, checkpoint or finalize". In `Crate` the declarations made before (a
definition with a referenced output and a sensitive file; an input with a sensitive file) put the
interesting paths in place, and three or fewer further events are a command with its end and one event around it,
with checkpoints before, between and after: a rebuild sees each journal grow. Its paths are one of each
class that `files.py` tells apart: plain, definition, sensitive, ignored, internal and outside.
`CommandRunner` needs a pipe that can be full (one line), a line in each of its three places (a pipe, a log, a
blocked write), and both streams; the proofs cover every other capacity and number. `Publication` needs a
secret recorded, then a redaction, checkpoint or export, then another export: three commands, of which
`rcr finalize` contains a checkpoint. Two changes put a new pattern, a rewritten output or a racing hook
anywhere between and inside them. Its texts are a pattern not yet configured, an assignment, both, and for the
output a credential or nothing; the proofs cover every other choice.

Properties of the crate, each of every crate any checkpoint can write:
`RefsResolve` (no dangling reference), `CommandsRepresented` (each command has its action, with the last
word of the journal), `TimelineFollowsJournal` (woven steps in journal order, each once),
`ConformsToProfile` (the checks of `validation/profiles.py`; the provenance part when steps are declared and
run), `SensitiveNeverCopied`,
`ReferencesPresentFiles`, `ProducedIsCaptured` and `CrateGrows` (a rebuild renames and forgets nothing the
build could know). Each property has a mutant of a mapped definition that TLC must find to break it; the
mutants stand beside the definitions they change, marked `Mutant:`.

**Fairness.** `FairSpec` of `EventJournal` and `Checkpoint` is weak fairness of each process's next step.
A running operating-system process is scheduled, and `FileLock.acquire` polls, so it obtains a lock that
stays free. No fairness is put on kills, upgrades or changed files. Weak fairness is enough because commands
are bounded: no process can take the lock for ever. `checkpoint.lock`'s timeout is an action that may be taken,
under the same fairness. `FairSpec` of `CommandRunner` is weak fairness of the main thread and of each pump
(threads are scheduled) and of each process of the command: a command that never ends keeps `rcr run`
waiting, as it should. There is none on interrupts, signals, kills or on starting a descendant. The safety runs
use no fairness.

**Environment assumptions**, each a named constant or guard:

* `CrashAt`, `KillBefore`: where a kill may come. The constants that leave kills out (`SafeCrashes`,
  `SafeKills`) name the windows the code does not withstand; section 6 says what happens there.
* `StartsAlone` (RunLifecycle): no run is created while another process is inside `rcr`.
* Declared inputs of a command exist when it starts (Crate); one that does not is a missing file, and the
  checkpoint rightly says so.
* One `rcr run` at a time is between its load and its save of the id map (Crate).
* A descendant of a command writes only to pipes it inherited (CommandRunner).
* One `rcr` process; hooks, agent and user act around it (Publication).
* The privacy gate is on, as it is unless `validation.require_privacy_gate` is set to false; with it off
  `check_privacy` finds nothing (`validation/privacy.py:232`), and nothing is promised of a public archive
  (`Private` of Publication).

Deadlock is checked in every run but `crate_builds` (`Done` is the intended end): `Crate` stops when the
journal is full.

## 4. Proofs

`EventJournalProofs` proves with TLAPS, for any set of processes and any number of commands:

| theorem | statement | assumption |
|---|---|---|
| `TypeCorrect` | `Spec => []TypeOK` | none |
| `JournalInvariant` | `Spec => []JournalInv` | `SafeFailures` |
| `ChainAlwaysIntact` | `Spec => []ChainIntact` | `SafeFailures` |
| `StateAlwaysAgrees` | `Spec => []StateAgrees` | `SafeFailures` |
| `JournalIsAppendOnly` | `Spec => AppendOnly` | no kill leaves a whole line without its newline (`"open" \notin TornTails`) |
| `AppendIsAtomic` | `Spec => ImplementsAtomicJournal` | `SafeFailures` |

`SafeFailures` lists what the journal withstands: no unlocked writer of `state.json`, no text with a line
separator, no end of a process between the fsync of a line and the bump (by a kill or by a mirror that
raises), and torn lines only where nobody else appends behind them. Each excluded failure has a place in
section 5 or 6.

The argument. `Shape` (types, and that exactly the process inside a critical section holds the lock) is
inductive by itself and gives `TypeCorrect`. `ChainIntact` is not inductive: that the next line links to
the last one depends on `state.json` being the tip, which holds except while the lock holder has written
its line and not bumped yet. `JournalInv` says that: state is the tip when nobody is at `written`; a
holder about to write has loaded the present state; one at `written` holds the new tip while state is the
tip of all lines but the last; and recovery, which then finds neither lag nor corruption, never writes
`state.json`. Together with `Shape` it is inductive, one proof step per action, and implies `ChainIntact` and
`StateAgrees`. `AppendIsAtomic` follows from it: `BumpState` is the abstract append, every other step,
kills included, a stutter. `AppendOnly` needs much less (only that readable lines are complete) and is therefore
proved for all the other failures.

On these rests the fate of single events and commands, in the second half of `EventJournalProofs`, for any number of commands:

| theorem | statement | assumption |
|---|---|---|
| `AcknowledgedIsDurable` | `Spec => []Durable` | `SafeFailures` |
| `RecoveryLeavesNoOrphan` | `Spec => []NoOrphanAfterRecovery` | `SafeFailures`, `OneProcess` |
| `CommandsAreRecordedOnce` | `Spec => []CommandsRecordedOnce` | `SafeFailures`, `OneProcess` |

`OneProcess` (`\A p, q \in Proc : p = q`) is needed, not a convenience: recovery cannot tell a command that
another process is still running from one that was killed, and marks it abandoned; its own terminal event
then is the second. Kills and restarts of the one process are allowed everywhere `SafeFailures` allows them.
`CommandInv` is the inductive invariant. `Numbered` says that a command goes by the position of its started
event, and that an end belongs to a start and to no other end; `CommandOf` relates the journal to
what the process has left to do: in recovery, the commands without an end are those in `orphans[p]`
and those its jobs still end; afterwards, none but the one it runs. A kill may come between the line that
ends a command and the next one, so a second recovery starts from the journal alone: `ReadKeepsCommands` shows that it
finds just what is left.

`CheckpointProofs` proves, for one process with any number of commands, of new versions and of changed outputs,
with kills anywhere `CrashAt` may have them (that is, not inside an append, which `EventJournal` covers) and with
exceptions:

| theorem | statement | assumption |
|---|---|---|
| `CheckpointInvariant` | `Spec => []Inv` | `OneProcess` |
| `FreshRunsAreMaterialized` | `Spec => []FreshIsMaterialized` | `OneProcess` |
| `ShippedCratesAreCurrent` | `Spec => []ShippedIsCurrent` | `OneProcess` |
| `StoppedSessionsAreCurrent` | `Spec => []StopIsCurrent` | `OneProcess` |
| `CheckpointsOnlyAdvance` | `Spec => CheckpointNeverRegresses` | `OneProcess` |
| `FreshRunsAreValidated` | `Spec => []FreshIsValidated` | `OneProcess`, `VerdictIsRecorded` |
| `BookkeepingIsSound` | `Spec => []SoundBookkeeping` | `OneProcess`, `VerdictIsRecorded`, `NoDrift` |

`OneProcess` is needed as soon as a second process records events: `checkpoint_late` has such an event marked
fresh. Processes that only checkpoint need no such assumption, see below. `VerdictIsRecorded` excludes the
kill between `crate.checkpoint.completed`, whose append clears the flag, and the write of the verdict
(section 6). `FreshIsMaterialized` is not inductive: the append of `crate.checkpoint.completed` clears the flag long
after the crate was written. `Inv` carries the fact across: `Current` says that the journal is numbered and
that what the process loaded is what is on disk; `HighWaterMark` that from `crate.checkpoint.started` on only
bookkeeping was recorded behind the mark, and from the build on that the crate is at the mark; `Materialized` what the
flag and `last_checkpoint` then promise, the event recorded but not bumped yet excepted; `Answered` that `finalize`
and the Stop hook, once they have read the flag, have a crate that covers what came before them, all
the way to the archive; `Control` ties the two locks to the control point. Each group of actions has its lemma;
`CallKeeps` states once what a requested append needs of its job.

`BookkeepingIsSound` says that no validation finds the flag, the last checkpoint or the selected profile at
odds with the journal. `NoDrift` (no new materializer version, no rewritten output, no explicit profile) is
what the code forces: a drift sets the flag of a run that owes its crate no event, and that is what
`dirty_flag_inaccurate` reports (section 5). Its invariant adds `Books` to `Inv`, in four parts: `Steady`,
only recorded events make the run dirty; `Marked`, a dirty run owes an event, has no checkpoint or has one that failed;
`Selected`, the profile of `state.json` is at least that of the last build, although it is chosen by a
preview of one journal and recorded after the build of a longer one; and an event is owed from the moment
its append is under way, or a drift is being marked, to the next checkpoint. TLC has checked it on the instance
of `checkpoint_sequential`.

`CheckpointProofs` goes on to prove, for any number of processes that run `rcr checkpoint`, with kills
anywhere between appends, exceptions, timeouts of the lock, new versions, changed outputs and every `--profile`:

| theorem | statement | assumption |
|---|---|---|
| `CheckpointsAreSerial` | `Spec => []Serial` | `OnlyCheckpoints` |
| `ConcurrentCheckpointsMaterialize` | `Spec => []FreshIsMaterialized` | `OnlyCheckpoints` |
| `ConcurrentCheckpointsAdvance` | `Spec => CheckpointNeverRegresses` | `OnlyCheckpoints` |
| `ConcurrentCheckpointsAreValidated` | `Spec => []FreshIsValidated` | `OnlyCheckpoints`, `VerdictIsRecorded` |

The five unlocked read-modify-writes of `state.json` would undo one another, and what a process has loaded would
go stale, were it not for `checkpoint.lock`. `Serial` turns that into an invariant: whoever holds the lock,
and anyone at all while nobody does, owns the run (`Own`, the very conjunction `Inv` asks of the one process);
everyone else is outside and promises only what a growing journal cannot take away (`Waits`). The lemmas
about a process's own steps do not assume `OneProcess` and serve here again; new are the
steps of a waiting process, which change nothing the holder relies on, and the hand-over: a kill, an exception or
the end of a checkpoint leaves the run such that the next holder owns it.

`RunLifecycleProofs` and `StateCacheProofs` prove, for any processes, names, commands and number of commands:

| theorem | statement | assumption |
|---|---|---|
| `CreationIsExclusive` | `Spec => []OrderInv` | `StartsAlone` |
| `ArchivingKeepsEvents` | `Spec => []EventsKept` | `StartsAlone` |
| `JournalOfRun` | `Spec => []JournalIsOfRun` | `StartsAlone`, `SafelyKilled` |
| `RunsArchivedWhole` | `Spec => []ArchivedRunsWhole` | `StartsAlone`, `SafelyKilled` |
| `CrateOfRun` | `Spec => []CrateIsOfRun` | `StartsAlone`, `SafelyKilled` |
| `StateIsCache` | `Spec => []StateFollowsJournal` | `StartsAlone`, `SafelyKilled`, `OneUpdater`, `UpdatesNotCut` |

`StartsAlone` keeps a second process from creating a run, or acting in it, while one is being created:
`_archive_closed_run` and `_bootstrap_run` take no lock, and two auto-starts do collide (section 6).
The lock is free between the steps of an unlocked save, and nothing is assumed of where the saves of hooks and
checkpoints come: `JournalIsOfRun`, `ArchivedRunsWhole` and `StateFollowsJournal` say of the runs in `undone`
only what such a save cannot spoil (section 2).
`SafelyKilled` excludes a kill between the archive's move of the journal and the first event of the new run,
except just before `state.json` is first written, by when the old run is archived whole (a kill earlier
splits the run, one later leaves a state without a journal; section 6). `ArchivingKeepsEvents` needs
neither: wherever a kill cuts the archiving off, no event is lost. `OneUpdater` lets only one process, the agent,
run `phase`, `step` and the declarations, since two of them may interleave an event of one with the field of the other;
its hooks and the other processes' checkpoints are free to append and to save in between. `UpdatesNotCut` excludes the kill between an event and the field that
repeats it, which recovery does not rebuild, and the one between the end of a phase and the start of the next.

None of the properties is inductive, because the files are between two runs while one is archived and the next
begun, and what they hold then depends on what the process has left to do. `At(todo[p], k)` reads that off its
jobs: they create a run from the k-th of eight stages on. `OrderInv` holds types and order: at most one
process is before stage 8 and the others are idle then (`Lone`), the directory it fills is new and empty, the run
number of `state.json` was given out, and whoever holds the lock or has loaded the state is in an append, an update
or a save (`Held`). `HashInv` says that every hash ever minted is in the journal, once there,
or in an archived journal; it needs `OrderInv` for a move never to fall on a filled directory. `FileInv` has what the disk
holds at each stage (`DiskAt`), at rest (`RestInv`), in the archive (`ArchiveInv`), and that a command marks a
checkpoint only after its build (`MarkInv`). A run at rest is `Sound`: its chain is whole, up to the tip of
`state.json` or, while an append has its line and not its bump (`Midway`), one line further, unless the run is
undone. That the bump mends this needs `RegInv`: what the holder of the lock has loaded agrees with the file still,
because any save in between has either changed nothing the journal depends on or put its run into `undone`. In a
run that is not undone recovery then finds a journal that is linked and a state that does not lag, and writes nothing. `FollowInv`
adds that fields and journal agree but for the updating process, and for it says by how much (`Underway`): `Before`
its event, in the middle of a phase (`Phasing`), a step or a declaration, an append counting as done when its line is
written (`Left`); an end of the run archives both sides together.

`CommandRunnerProofs` proves, for every pipe capacity, every number of lines and every choice of secrets,
with no assumption but `RunnerAssumption`:

| theorem | statement |
|---|---|
| `CaptureInvariant` | `Spec => []IInv` |
| `RunnerTypes` | `Spec => []TypeOK` |
| `RecordsAlwaysAgree` | `Spec => []RecordsAgree` |
| `CaptureIsFaithful` | `Spec => Implements` |

Neither property is inductive. That the record is whole needs to know, at the moment of the terminal
event, that both pipes are empty with no holder; this was true when the pumps ended, long before, and no writer
can have come since. `IInv` says it in parts: `JournalForm` (which events exist at which control point,
and what the sidecar holds then), `Threads` (before the launch nothing runs; an open stream's pump has not
ended; a closed stream's pipe is empty; past the join every stream is closed), `Logged` (unless its pump failed,
log and masked pipe together are the masked lines written), `Counted` (what a pump counted covers the masks in its
log, exactly without an error), and `Unbegun` (a pump that has not begun has counted nothing). The refinement
then has two interesting steps: `Write` is `Emit`, which `Threads` keeps from happening after the record, and
the append of the terminal event is `Record`, where `Logged` says that the logs are whole. The lemmas about `Masked`, `Masks` and `Secrets` of a
concatenation are proved there too.

`PublicationProofs` proves, for every choice of texts, every number of commands and changes, with and
without kills and exceptions, with no assumption but `PublicationAssumption`:

| theorem | statement |
|---|---|
| `PublicationInvariant` | `Spec => []PInv` |
| `PublicArchivesAreClean` | `Spec => []PublicHoldsNoSecret` |
| `ArchivesVerify` | `Spec => []ShippedVerifies` |
| `RedactionHoldsForGood` | `Spec => []RedactionHolds` |
| `EventsAlwaysSurvive` | `Spec => []EventsSurvive` |
| `FreshCratesVerify` | `Spec => []FreshCrateVerifies` |

`PInv` has a part for each. `Shipped`: at the gate the staged copy still has the metadata, hash and output of
the live crate the gate validates, and past the gate the staged copy is what was found private and
verified. `Survival`: a journal read for a redaction, and not yet written back, holds every event but those in
`raced`. `Fresh`: as `FreshCrateVerifies`, at every control point outside a build or a redaction. `Removed`:
the journal read, then the files already gone through, are clean of what this redaction removes; what earlier
ones removed is matched by the policy still, so nothing recorded can bring it back. `Types` holds that a build
reads no further than the journal goes. Each part is inductive with `Types`, and has its own lemma.

`RunModelProofs` and `CrateProofs` prove, for every set of paths and how they are classified, every
declaration, command line, edit, step and profile, every file policy, and journals of any length, with no assumption but
`ConstantsAssumption`:

| theorem | statement |
|---|---|
| `CrateTypes` | `Spec => []TypeInv` |
| `SensitiveFilesStayOut` | `Spec => []SensitiveNeverCopied` |
| `ReferencesResolve` | `Spec => []RefsResolve` |
| `CommandsAreRepresented` | `Spec => []CommandsRepresented` |
| `ProducedFilesAreCaptured` | `Spec => ProducedIsCaptured` |
| `CratesConform` | `Spec => []ConformsToProfile` |
| `TimelinesFollowJournals` | `Spec => []TimelineFollowsJournal` |

These are statements about what three loops compute. The provers cannot instantiate a library
theorem that takes an operator, so `Induction` and `BoundedInduction` are proved for sets (a set that holds 0 and
with each n its successor holds every natural number), and `Recursion` says that a function with the recursive
equation exists. An induction then defines the set of prefixes for which a lemma holds.

* The reducer (`RunModelProofs`). `FieldsRead` says what one event does to each field of the model, in one
  place, so that no later proof opens the projectors again. From it follow `DeclarationsRead`,
  `CommandsRead` (`Tracked`: the records of the commands are the started events of the journal, in order, each with the
  status its last terminal event gives it), `ActionsRead` (`Told`: edits, shell commands and tasks are recorded at
  their events, a task at its first) and `WorkflowRead` (the workflow is the definition declared last, and
  every step started has a record).
* File inclusion. `PlansFollow`: a path has a plan exactly if it was considered and is not ignored, and the plan
  keeps a sensitive or outside path from being copied, whatever is merged in whatever order.
* Assembly. `GraphFollows`: the graph has the ids that were emitted, and what it holds under one follows from
  the entities emitted under it (`Owes`): the types are those of the last, an entity emitted once is
  as emitted, a property no later entity sets is kept.
* Sections. What each emitter may emit: ids of its own kinds (`FinalKinds`), references that lead
  somewhere (`SectionsLead`), types, instruments and errors that agree (`FinalCareful`).

`RefsResolve` rests on `Holds`, by which a reference in a section leads to an id in the same or another one, and on the model
being built from a part of the journal (`BuiltInv`). `CommandsRepresented` needs that no other entity
takes a command's id: the uuids of the journal and of both id maps, the saved one and those loaded by a command
or a checkpoint under way, belong to one key each (`IdInv`); this holds although a checkpoint may overwrite what
`rcr run` has saved and the other way round. `ConformsToProfile` adds that the control actions' ids differ
from those of commands (`Apart`). `TimelineFollowsJournal` goes through the actions a timeline sorts: each is at the place
of one event and is what that event did (`Follow`), so no two have the same time (`Timed`) or, by their ids, the same
action (`ActedApart`). `Place` counts the actions up to a time, so that a later action has a
larger count, and steps, actions and events are in bijection (`Places`, `Counts`). The invariants are
stated over the crate, the journal and the mark of the crate, so that they are unaffected by events appended later
(`RepresentedStays`, `ConformsStays`, `OrderedStays`).

The constants' assumptions (`ConstantsAssumption`, `RunnerAssumption`, `PublicationAssumption` and those of the other modules) say what kind
of values they are, no more; TLC evaluates them in every run.

Only model-checked:

* Liveness (`AllCommandsEnd`, `CommandEnds`): fairness is beyond this prover.
* `ReferencesPresentFiles` and `CrateGrows` of `Crate` do not hold for every value of the constants. An ignored
  workflow definition has no plan and its deletion no action, so its entity outlives the file; files inside
  `.ro-crate-run` are edited without a record. And the steps a definition lists leave the crate with the file that
  defines them, and their control actions with them. The run has paths of each class, but no such deletion.

A checkpoint beside a process that records events is not safe (`checkpoint_late`), so there is nothing to prove.

## 5. Where the code and its documents disagree

Two have a run that stops with a counterexample; `PROJECT.json`, "findings", quotes the lines.

* `journal_lag`: after a kill between the fsync of a line and the bump, recovery appends its marker
  through the stale `state.json` before rewriting it. The marker forks the chain recovery was to repair
  (`recovery.py:68`, against `SPEC.md:859`).
* `checkpoint_late`: an event appended while a checkpoint builds is marked fresh when the checkpoint
  completes, though the crate does not hold it (`materialize/builder.py:73`, against `SPEC.md:916`).

Four more can be reproduced by giving a constant another value:

* `SoundBookkeeping` of `Checkpoint` with `Changes = 1` and `status` in the workload: `rcr status` notices a
  changed output and sets `dirty` without an event; the next checkpoint validates before it clears the flag,
  finds `dirty_flag_inaccurate` and fails (`materialize/builder.py:124`, against `SPEC.md:904-916`).
* `StepsNameTheirTool` of `Crate` with `Prologues <- MCUndeclared`, `Requests = {"auto"}` and `MaxEvents = 3`:
  `rcr run --step` without `rcr step` selects the provenance profile, whose woven steps lack the `workExample`
  that profile requires (`materialize/mapping/workflow.py:189`, against its line 236).
* `MainIsWorkflow` of `Crate` with `Ignored = {"main.cwl", "tmp", "store"}`, `CommandLines <- MCRunsDefinition` and
  `MaxEvents = 4`: a workflow definition at an ignored path has no file plan; when a command names it as its
  input, `_emit_command_file_entities` emits its id again as a plain `File`, the later entity wins in `_dedupe`,
  and the root's `mainEntity` is no `ComputationalWorkflow` (`materialize/builder.py:631`, against `SPEC.md:1289`).
  The proof of `ConformsToProfile` failed here first; the property now excepts exactly this case.
* `StructurePreserved` of `Publication` with `NoteTexts = {}`, `RunTexts = {{"assignment"}}`,
  `OutputTexts = {{}}` and `MaxCommands = 2`: `rcr redact --apply` rewrites a sidecar whose value ends in a
  masked assignment, and the pattern takes the closing quote along (`redact.py:106` with
  `redaction.py:84-91`, against `SPEC.md:964`).

## 6. Limits known and not run

The passing runs and the theorems exclude these on purpose; the model can express most of them by a
constant.

* Journal: the hook's unlocked write undoes another process's bump (`hooks.py:98`); an append behind a torn
  line when another process did not recover in between (`journal.py:167`); U+2028 and other separators that
  `splitlines` honours (`state.py:96`); a running command that another process's recovery marks abandoned
  (`recovery.py:98`); the same `command_id` given to two commands (`runner.py:131`).
* Checkpoint: a kill between `crate.checkpoint.completed` and the write of `last_checkpoint`
  (`materialize/builder.py:166`); the recorded profile selection goes by this checkpoint's request, the
  build by the saved one (`materialize/builder.py:793`), which differ under `--profile auto` after an explicit one.
* Lifecycle: an unlocked save of a hook or a checkpoint undoes what another process has written since its load
  (`hooks.py:98`, `materialize/builder.py:96`): a bump, after which the next event repeats a number and the
  chain forks, or the phase, step or declaration just set. The run contains this; its properties except the runs
  in `undone`. A kill between the archive's move of the journal and of `state.json` leaves a state that
  numbers another journal (`commands.py:158`), a later one an id map or a crate that the next run inherits, or a
  `state.json` whose journal has no first event; two auto-starts at once (`hooks.py:79`); a kill between an
  event and the `state.json` field that repeats it, which recovery does not rebuild (`commands.py:613`).
* Crate: a declared output of a command that failed or has not ended, or a file removed while the
  checkpoint runs, is reported missing; an ignored path that was declared keeps dangling references; edits
  of sensitive files that have a plan keep their actions; a step is linked to its first command only; commands in flight show as failed;
  blocked commands do not fail the workflow's action; `rcr step` without a command lacks the control action
  that provenance requires; slugs and parameter names that collide; remote URLs and paths that are not
  normalized; a copied file that later exceeds the size limit stays behind as it was.
* Identifiers: a checkpoint that saves the id map between `rcr run`'s load and save loses its new keys;
  the next build gives the workflow's and the control actions new uuids. The model has this race, and
  `CrateGrows` excepts exactly the identifiers so lost (`Forgotten`).
* Stop hook: it blocks in enforced and in monitored mode; monitored lets the errors pass that are neither
  critical nor about required metadata. In advisory mode it never blocks, and a run may stop stale. The
  SessionEnd hook makes no checkpoint, where `SPEC.md:617` lists one. A Stop hook's checkpoint between `Stage` and
  `Gate` of a finalize changes the live crate the gate validates (the checkpoint lock does not cover both).
* Command runner: a descendant that holds no pipe writes files after the record; an interrupt leaves the
  command open, for recovery to close as abandoned; secrets that span lines are not masked.
* Redaction: events appended between the unlocked read and the rewrite are lost (`EventsSurvive` excepts
  exactly those); `redact.py:136` expects `dirty` to stay set after the rewrite, but it follows the last event,
  so a kill before `redaction.applied` leaves a fresh run whose crate no longer verifies (`interrupted`); files
  named `events.ndjson` in the crate, and backups and reports of earlier repairs, are not rewritten; once a
  masked assignment ends a recorded value, `rcr redact` finds it again for ever and `rcr finalize --public`
  stays blocked.
* Export: two finalizes at once share `staging/export-crate` (`export.py:33`); a second finalize and an abort
  after one are accepted (`export.py:132`); a journal left in `ro-crate/.ro-crate-run` by a private export
  blocks every later public one.

## 7. What is not modelled

* The PreToolUse policies of the hooks: each classifies the text of one command; no state.
* The text of redaction patterns (their effect on what a record or a file holds is modelled), adapters, probes, the
  installer, argument parsing, the HTML preview: stateless parsing, text or subprocess calls. Their results enter
  the models as choices (a definition's steps, a verdict, a path's class).
* Signing and the transport of the mirror: external tools and network; the mirror's failure is modelled.
* Of the crate: environment, git, dependency, container, note and parameter-value entities, all texts, hashes
  and sizes. Each adds entities of its own and no control flow of the modelled ones depends on them.
* Of the command runner: git, lockfile and file-hash observations. Of publication: `file_policy` switches that add
  the journal to every crate, and the summary and README files, which are texts like the metadata.
* The parallel write of crate files other than the metadata; the kill between `rewrite_chain`'s replacement of
  the journal and its write of `state.json`, which `Publication` takes for one step (for an append the same kill is
  `EventJournal`'s).

## 8. Plan

Done, in this order: `EventJournal`, `AtomicJournal` and their proofs (everything rests on the chain);
`Checkpoint` with the Stop hook (the promise that what ships is what happened); `RunLifecycle` (files of several
runs); `RunModel` and `Crate` (what a build makes of a journal); `CommandRunner` with its refinement and
`Publication`, both proved.

`RunLifecycle` and `Checkpoint` were then proved: the files of one run over several lives, `state.json` as a
cache, the bookkeeping a validation judges, and checkpoints that exclude one another. `RunModel` and
`Crate` came last: their loops were written as recursive functions and the properties of the crate proved for
journals of any length.

What could come next: two finalizes at once in `Publication`; signing; the entity families that section 7
leaves out.
