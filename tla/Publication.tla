---------------------------- MODULE Publication ----------------------------
(***************************************************************************)
(* From a captured secret to the archive that ships: redaction when an      *)
(* event is recorded, rcr redact over what was recorded before, the crate   *)
(* written file by file, and the gate of rcr finalize, which validates the  *)
(* live crate and scans the staged copy.                                    *)
(*                                                                         *)
(* One rcr process runs these commands.  Around it a hook appends events,   *)
(* the agent rewrites the output, and the user adds a redaction pattern, at *)
(* any moment.  A file is the set of things in it that a pattern, a parser  *)
(* or a hash can tell.                                                      *)
(***************************************************************************)
EXTENDS Naturals, Sequences

CONSTANTS
    NoteTexts,    \* what a person or a hook may record, subsets of Inputs
    RunTexts,     \* what a command line and its streams may hold
    OutputTexts,  \* what the agent may write to the output file
    JournalPublic, \* privacy.include_event_journal
    MaxCommands,  \* bound: commands of the process
    MaxChanges,   \* bound: rewrites of the output, hooks and new patterns together
    Kills,        \* the process may be killed
    Raises        \* a build or a redaction may raise

\* "credential" matches a built-in pattern, "project" one the user may add;
\* "assignment" is KEY=value, and "masked" what is left of it where a string ends;
\* "broken" is a file that is cut short or does not parse, "absent" no file.
Inputs == {"credential", "project", "assignment"}
Traits == {"credential", "project", "masked", "broken", "absent"}
Absent == {"absent"}
Broken == "broken"

ASSUME PublicationAssumption ==
    /\ NoteTexts \subseteq SUBSET Inputs /\ RunTexts \subseteq SUBSET Inputs
    /\ OutputTexts \subseteq SUBSET {"credential", "project"} /\ OutputTexts # {}
    /\ JournalPublic \in BOOLEAN /\ Kills \in BOOLEAN /\ Raises \in BOOLEAN
    /\ MaxCommands \in Nat /\ MaxChanges \in Nat

VARIABLES
    journal,      \* provenance events of events.ndjson: id, kind and text
    last,         \* what the last event of the journal does to the dirty flag
    state,        \* state.json: dirty, and whether there is a last_checkpoint
    sidecar,      \* commands/<id>.json
    log,          \* logs/<id>.stdout.txt
    output,       \* the declared output, in the project
    crate,        \* ro-crate/: copies, metadata and the hash it records of the output
    staging,      \* staging/export-crate
    patterns,     \* patterns of the redaction policy on disk
    pc,           \* control point of the process
    job,          \* what it remembers of its command
    left,         \* commands it may still run
    changes,      \* steps of the environment still to come
    minted,       \* history: events acknowledged
    raced,        \* history: events appended while a redaction held an older journal
    cleaned,      \* history: what a redaction that ended well was to remove
    interrupted,  \* history: a kill inside a build or a redaction, no checkpoint since
    archive       \* history: the last archive, and the patterns at its gate

disk == <<journal, last, state, sidecar, log, crate>>
environment == <<output, patterns, changes>>
history == <<minted, raced, cleaned, interrupted, archive>>
vars == <<disk, environment, staging, pc, job, left, history>>

-----------------------------------------------------------------------------
(* The redactor. *)

\* redact_value: every match is replaced; a masked assignment matches again only
\* when the text around it is scanned as a whole.
RedactValue(text, pats) ==
    (text \ (pats \cup {"assignment"})) \cup (IF "assignment" \in text THEN {"masked"} ELSE {})

\* The scan of a whole file: in JSON the value of an assignment runs into the
\* quote behind it, so a masked one is found again.
Finds(text, pats) == text \cap pats # {}
FindsInJson(text, pats) == text \cap (pats \cup {"masked"}) # {}

\* _redact_text_files on a JSON file: the quote goes with the match.
RewriteJson(text, pats) ==
    IF "masked" \in text THEN (text \ (pats \cup {"masked"})) \cup {Broken} ELSE text \ pats

JournalText == UNION {journal[i].text : i \in 1 .. Len(journal)}

\* A file that is being written in place, and cut short.
Torn(new) == {part \cup {Broken} : part \in SUBSET (new \ {"absent"})}

NoCrate == [output |-> Absent, sidecar |-> Absent, log |-> Absent, metadata |-> Absent,
            recorded |-> Absent, journal |-> Absent]

NoJob == [work |-> "none", public |-> FALSE, with_journal |-> FALSE,
          pats |-> {}, config |-> {}, high |-> 0, hash |-> Absent, snapshot |-> <<>>, last |-> "set", files |-> <<>>]

NoArchive == [crate |-> NoCrate, public |-> FALSE, pats |-> {}]

Init ==
    /\ journal = <<>>
    /\ last = "set"
    /\ state = [dirty |-> TRUE, checkpointed |-> FALSE]
    /\ sidecar = Absent /\ log = Absent
    /\ output \in OutputTexts
    /\ crate = NoCrate
    /\ staging = NoCrate
    /\ patterns = {"credential"}
    /\ pc = "idle"
    /\ job = NoJob
    /\ left = MaxCommands
    /\ changes = MaxChanges
    /\ minted = 0
    /\ raced = {} /\ cleaned = {}
    /\ interrupted = FALSE
    /\ archive = NoArchive

\* An append: its effect on the dirty flag.
Effect(effect) ==
    /\ last' = effect
    /\ state' = [state EXCEPT !.dirty = (effect = "set") \/ (@ /\ effect # "clear")]

Starts == pc = "idle" /\ left > 0 /\ left' = left - 1

\* The command returns.
Return ==
    /\ pc' = "idle"
    /\ job' = NoJob

-----------------------------------------------------------------------------
(* Recording. *)

\* A provenance event with a text, redacted with the patterns of the moment.
RecordEvent(kind, text) ==
    /\ journal' = Append(journal, [id |-> minted + 1, kind |-> kind, text |-> RedactValue(text, patterns)])
    /\ minted' = minted + 1
    /\ Effect("set")

\* rcr note.
Note ==
    /\ Starts
    /\ \E text \in NoteTexts : RecordEvent("note", text)
    /\ UNCHANGED <<sidecar, log, crate, environment, staging, pc, job, raced, cleaned, interrupted, archive>>

\* rcr run, which CommandRunner details: the events, the sidecar and the log.
Run ==
    /\ Starts
    /\ sidecar = Absent
    /\ \E text \in RunTexts :
         /\ RecordEvent("command", text)
         /\ sidecar' = RedactValue(text, patterns)
         /\ log' = RedactValue(text, patterns) \ {"masked"}
    /\ UNCHANGED <<crate, environment, staging, pc, job, raced, cleaned, interrupted, archive>>

-----------------------------------------------------------------------------
(* rcr checkpoint, and the one inside rcr finalize. *)

\* crate.checkpoint.started carries the high-water mark.
BeginCheckpoint ==
    /\ \/ Starts /\ job' = [NoJob EXCEPT !.work = "checkpoint", !.high = Len(journal)]
       \/ pc = "checkpoint" /\ job' = [job EXCEPT !.high = Len(journal)] /\ UNCHANGED left
    /\ pc' = "hash"
    /\ Effect("preserve")
    /\ UNCHANGED <<journal, sidecar, log, crate, environment, staging, history>>

\* write_crate: build_file_entity hashes the output ...
HashOutput ==
    /\ pc = "hash"
    /\ job' = [job EXCEPT !.hash = output]
    /\ pc' = "copy output"
    /\ UNCHANGED <<disk, environment, staging, left, history>>

\* ... _copy_into_crate copies what it finds then ...
CopyOutput ==
    /\ pc = "copy output"
    /\ crate' = [crate EXCEPT !.output = output]
    /\ pc' = "copy command"
    /\ UNCHANGED <<journal, last, state, sidecar, log, environment, staging, job, left, history>>

\* ... the sidecar and the log of the command too ...
CopyCommand ==
    /\ pc = "copy command"
    /\ crate' = [crate EXCEPT !.sidecar = sidecar, !.log = log]
    /\ pc' = "metadata"
    /\ UNCHANGED <<journal, last, state, sidecar, log, environment, staging, job, left, history>>

\* The texts of the events; a command's name ends in its id, not in a masked value.
MetadataText ==
    UNION {IF journal[i].kind = "command" THEN journal[i].text \ {"masked"} ELSE journal[i].text :
             i \in 1 .. job.high}

\* ... and ro-crate-metadata.json comes last.
WriteMetadata ==
    /\ pc = "metadata"
    /\ crate' = [crate EXCEPT !.metadata = MetadataText, !.recorded = job.hash]
    /\ pc' = "validate"
    /\ UNCHANGED <<journal, last, state, sidecar, log, environment, staging, job, left, history>>

\* Mutant: the copy in the crate is not hashed again.
VerifiesProjectOnly ==
    /\ crate.metadata # Absent /\ Broken \notin crate.metadata
    /\ output = crate.recorded

\* check_rocrate on the live crate: metadata that parses, and the recorded hash
\* that of the copy and of the file in the project.
Verifies ==
    /\ crate.metadata # Absent /\ Broken \notin crate.metadata
    /\ crate.output = crate.recorded
    /\ output = crate.recorded

\* Validation, crate.checkpoint.completed and last_checkpoint.
CompleteCheckpoint ==
    /\ pc = "validate"
    /\ last' = "clear"
    /\ state' = [dirty |-> ~Verifies, checkpointed |-> TRUE]
    /\ interrupted' = FALSE
    /\ IF job.work = "finalize" THEN pc' = "stage" /\ UNCHANGED job ELSE Return
    /\ UNCHANGED <<journal, sidecar, log, crate, environment, staging, left, minted, raced, cleaned, archive>>

Building == {"hash", "copy output", "copy command", "metadata", "validate"}

\* Mutant: a build that raises leaves no event.
RaiseSilently ==
    /\ Raises
    /\ pc \in Building
    /\ Return
    /\ UNCHANGED <<disk, environment, staging, left, history>>

\* An exception in the build: crate.checkpoint.failed, and the command ends.
BuildRaises ==
    /\ Raises
    /\ pc \in Building
    /\ Effect("set")
    /\ Return
    /\ UNCHANGED <<journal, sidecar, log, crate, environment, staging, left, history>>

-----------------------------------------------------------------------------
(* rcr redact, with or without --apply and --policy. *)

FindsAnything(pats) ==
    \/ FindsInJson(JournalText, pats)
    \/ \E file \in {sidecar, crate.sidecar, crate.metadata, crate.journal} : FindsInJson(file, pats)
    \/ \E file \in {log, crate.log, crate.output} : Finds(file, pats)

\* _scan_files: nothing found, or a report only, ends the command.
Scan ==
    /\ Starts
    /\ \E apply \in BOOLEAN, policy \in SUBSET {"project"} :
         LET pats == patterns \cup policy
         IN  IF apply /\ FindsAnything(pats)
             THEN /\ job' = [NoJob EXCEPT !.work = "redact", !.pats = pats, !.config = patterns]
                  /\ pc' = "read"
             ELSE Return
    /\ UNCHANGED <<disk, environment, staging, history>>

\* Mutant: an event with a secret is dropped.
DropEvents(events, pats) == SelectSeq(events, LAMBDA e : e.text = RedactValue(e.text, pats))

\* Every event is kept, its values redacted.
RedactEvents(events, pats) == [i \in 1 .. Len(events) |-> [events[i] EXCEPT !.text = RedactValue(@, pats)]]

\* _redact_event_journal reads the journal without the lock ...
ReadJournal ==
    /\ pc = "read"
    /\ job' = [job EXCEPT !.snapshot = RedactEvents(journal, job.pats), !.last = last]
    /\ pc' = "rewrite"
    /\ UNCHANGED <<disk, environment, staging, left, history>>

TextFiles == <<"sidecar", "log", "crate sidecar", "crate log", "crate output", "crate metadata">>

\* ... and rewrite_chain replaces it under the lock; the dirty flag goes by the
\* last event that was read.
RewriteChain ==
    /\ pc = "rewrite"
    /\ journal' = job.snapshot
    /\ Effect(job.last)
    /\ job' = [job EXCEPT !.files = TextFiles]
    /\ pc' = "files"
    /\ UNCHANGED <<sidecar, log, crate, environment, staging, left, history>>

ContentOf(file) ==
    CASE file = "sidecar" -> sidecar
      [] file = "log" -> log
      [] file = "crate sidecar" -> crate.sidecar
      [] file = "crate log" -> crate.log
      [] file = "crate output" -> crate.output
      [] file = "crate metadata" -> crate.metadata

Put(file, text) ==
    /\ sidecar' = IF file = "sidecar" THEN text ELSE sidecar
    /\ log' = IF file = "log" THEN text ELSE log
    /\ crate' = CASE file = "crate sidecar" -> [crate EXCEPT !.sidecar = text]
                  [] file = "crate log" -> [crate EXCEPT !.log = text]
                  [] file = "crate output" -> [crate EXCEPT !.output = text]
                  [] file = "crate metadata" -> [crate EXCEPT !.metadata = text]
                  [] OTHER -> crate

IsJson(file) == file \in {"sidecar", "crate sidecar", "crate metadata"}

Redacted(file, pats) ==
    IF IsJson(file) THEN RewriteJson(ContentOf(file), pats) ELSE ContentOf(file) \ pats

\* Mutant: the files of the commands are left alone.
RedactCrateOnly ==
    /\ pc = "files"
    /\ job.files # <<>>
    /\ LET file == Head(job.files)
       IN  Put(file, IF file \in {"sidecar", "log"} THEN ContentOf(file) ELSE Redacted(file, job.pats))
    /\ job' = [job EXCEPT !.files = Tail(@)]
    /\ UNCHANGED <<journal, last, state, environment, staging, pc, left, history>>

\* _redact_text_files, one file after the other, in place; files named
\* events.ndjson are left alone.
RedactFile ==
    /\ pc = "files"
    /\ job.files # <<>>
    /\ LET file == Head(job.files) IN Put(file, Redacted(file, job.pats))
    /\ job' = [job EXCEPT !.files = Tail(@)]
    /\ UNCHANGED <<journal, last, state, environment, staging, pc, left, history>>

\* redaction.applied.
CompleteRedaction ==
    /\ pc = "files"
    /\ job.files = <<>>
    /\ Effect("set")
    /\ cleaned' = cleaned \cup (job.pats \cap job.config)
    /\ Return
    /\ UNCHANGED <<journal, sidecar, log, crate, environment, staging, left, minted, raced, interrupted, archive>>

Redacting == {"read", "rewrite", "files"}

\* An exception: redaction.failed, and the command ends.
RedactionRaises ==
    /\ Raises
    /\ pc \in Redacting
    /\ Effect("set")
    /\ Return
    /\ UNCHANGED <<journal, sidecar, log, crate, environment, staging, left, history>>

-----------------------------------------------------------------------------
(* rcr finalize, with or without --public and --include-event-journal. *)

\* A dirty run is checkpointed first; the return code of the checkpoint is ignored.
Finalize ==
    /\ Starts
    /\ \E public, with_journal \in BOOLEAN :
         job' = [NoJob EXCEPT !.work = "finalize", !.public = public, !.with_journal = with_journal]
    /\ pc' = IF state.dirty \/ ~state.checkpointed THEN "checkpoint" ELSE "stage"
    /\ UNCHANGED <<disk, environment, staging, history>>

\* _stage_crate copies the crate, and the journal when asked.
Stage ==
    /\ pc = "stage"
    /\ staging' = IF job.with_journal THEN [crate EXCEPT !.journal = JournalText] ELSE crate
    /\ pc' = "gate"
    /\ UNCHANGED <<disk, environment, job, left, history>>

\* check_privacy on a crate: no pattern in any file, no journal unless configured.  It
\* runs as long as validation.require_privacy_gate is on, its default.
Private(c) ==
    /\ \A file \in {c.metadata, c.sidecar, c.journal} : ~FindsInJson(file, patterns)
    /\ \A file \in {c.log, c.output} : ~Finds(file, patterns)
    /\ c.journal # Absent => JournalPublic

\* Mutant: the gate scans the live crate.
GateLive ==
    /\ pc = "gate"
    /\ IF Verifies /\ (job.public => Private(crate))
       THEN /\ Effect("preserve")
            /\ job' = [job EXCEPT !.pats = patterns]
            /\ pc' = "finalized"
            /\ UNCHANGED staging
       ELSE /\ Effect("set")
            /\ staging' = NoCrate
            /\ Return
    /\ UNCHANGED <<journal, sidecar, log, crate, environment, left, history>>

\* _run_export_gate: structure and hashes of the live crate, privacy of the
\* staged one.  A failure is recorded, run.export.blocked too, and ends the command.
Gate ==
    /\ pc = "gate"
    /\ IF Verifies /\ (job.public => Private(staging))
       THEN /\ Effect("preserve")
            /\ job' = [job EXCEPT !.pats = patterns]
            /\ pc' = "finalized"
            /\ UNCHANGED staging
       ELSE /\ Effect("set")
            /\ staging' = NoCrate
            /\ Return
    /\ UNCHANGED <<journal, sidecar, log, crate, environment, left, history>>

\* run.finalized and crate.finalized.
RecordFinalized ==
    /\ pc = "finalized"
    /\ Effect("set")
    /\ pc' = IF job.with_journal /\ ~job.public THEN "embed" ELSE "zip"
    /\ UNCHANGED <<journal, sidecar, log, crate, environment, staging, job, left, history>>

\* The journal stays in the live crate of a private export.
Embed ==
    /\ pc = "embed"
    /\ crate' = [crate EXCEPT !.journal = JournalText]
    /\ pc' = "zip"
    /\ UNCHANGED <<journal, last, state, sidecar, log, environment, staging, job, left, history>>

\* export_zip of the staged copy, events.ndjson only when asked; then staging goes.
ExportZip ==
    /\ pc = "zip"
    /\ archive' = [crate |-> IF job.with_journal THEN staging ELSE [staging EXCEPT !.journal = Absent],
                   public |-> job.public, pats |-> job.pats]
    /\ staging' = NoCrate
    /\ Return
    /\ UNCHANGED <<disk, environment, left, minted, raced, cleaned, interrupted>>

-----------------------------------------------------------------------------
(* Around the process. *)

Changes == changes > 0 /\ changes' = changes - 1

\* The agent rewrites the output.
RewriteOutput ==
    /\ Changes
    /\ output' \in OutputTexts \ {output}
    /\ UNCHANGED <<disk, patterns, staging, pc, job, left, history>>

\* The user adds a pattern to the redaction policy.
AddPattern ==
    /\ Changes
    /\ patterns' = patterns \cup {"project"}
    /\ patterns' # patterns
    /\ UNCHANGED <<disk, output, staging, pc, job, left, history>>

\* A hook records a prompt.
Hook ==
    /\ Changes
    /\ \E text \in NoteTexts : RecordEvent("note", text)
    /\ raced' = IF pc = "rewrite" THEN raced \cup {minted + 1} ELSE raced
    /\ UNCHANGED <<sidecar, log, crate, output, patterns, staging, pc, job, left, cleaned, interrupted, archive>>

\* The process is killed; the file it was writing is cut short.
Kill ==
    /\ Kills
    /\ pc # "idle"
    /\ \/ UNCHANGED <<sidecar, log, crate>>
       \/ /\ pc = "copy output"
          /\ \E text \in Torn(output) : crate' = [crate EXCEPT !.output = text]
          /\ UNCHANGED <<sidecar, log>>
       \/ /\ pc = "metadata"
          /\ \E text \in Torn(MetadataText) : crate' = [crate EXCEPT !.metadata = text]
          /\ UNCHANGED <<sidecar, log>>
       \/ /\ pc = "files" /\ job.files # <<>>
          /\ LET file == Head(job.files)
             IN  /\ Redacted(file, job.pats) # ContentOf(file)
                 /\ \E text \in Torn(Redacted(file, job.pats)) : Put(file, text)
    /\ Return
    /\ interrupted' = (interrupted \/ pc \in Building \cup Redacting)
    /\ UNCHANGED <<journal, last, state, environment, staging, left, minted, raced, cleaned, archive>>

Done == pc = "idle" /\ left = 0 /\ UNCHANGED vars

Next ==
    \/ Note \/ Run \/ BeginCheckpoint \/ HashOutput \/ CopyOutput \/ CopyCommand \/ WriteMetadata
    \/ CompleteCheckpoint \/ BuildRaises \/ Scan \/ ReadJournal \/ RewriteChain \/ RedactFile
    \/ CompleteRedaction \/ RedactionRaises \/ Finalize \/ Stage \/ Gate \/ RecordFinalized
    \/ Embed \/ ExportZip \/ RewriteOutput \/ AddPattern \/ Hook \/ Kill \/ Done

Spec == Init /\ [][Next]_vars

-----------------------------------------------------------------------------
(* Properties. *)

\* A public archive holds nothing that the policy of the moment of its gate matches,
\* in no file of it, and no journal unless the configuration allows one.
PublicHoldsNoSecret ==
    LET c == archive.crate
    IN  archive.public =>
          /\ \A file \in {c.metadata, c.sidecar, c.log, c.output, c.journal} : ~Finds(file, archive.pats)
          /\ c.journal # Absent => JournalPublic

\* Whatever was killed, rewritten or redacted before, the crate in an archive has
\* metadata that parses, and records the hash of the very bytes that ship.
ShippedVerifies ==
    archive # NoArchive => /\ Broken \notin archive.crate.metadata
                           /\ archive.crate.recorded = archive.crate.output

\* Once rcr redact --apply has ended well, what the configured policy matched is in
\* no event, sidecar, log or metadata, and no later command brings it back.
RedactionHolds ==
    \A text \in {JournalText, sidecar, log, crate.sidecar, crate.log, crate.metadata} :
        text \cap cleaned = {}

\* No command loses an acknowledged event, but for those appended between the read
\* and the rewrite of a redaction.
EventsSurvive == 1 .. minted \subseteq {journal[i].id : i \in 1 .. Len(journal)} \cup raced

\* Between commands a run that is not dirty has a crate whose metadata parses and
\* records the hash of the copy beside it, unless a kill came inside a build or redaction.
FreshCrateVerifies ==
    pc = "idle" /\ ~state.dirty /\ ~interrupted =>
        /\ crate.metadata # Absent /\ Broken \notin crate.metadata
        /\ crate.output = crate.recorded

\* SPEC 13.3: redaction preserves structure; a sidecar that parses still does after it.
StructurePreserved == Broken \notin sidecar
=============================================================================
