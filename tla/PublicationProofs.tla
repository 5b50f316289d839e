------------------------- MODULE PublicationProofs -------------------------
(* What a recorded, redacted and published run guarantees for every choice   *)
(* of texts, every number of commands and every failure.                     *)
EXTENDS Publication, SequenceTheorems, TLAPS

-----------------------------------------------------------------------------
(* Types.                                                                   *)

Texts == SUBSET Traits
Patterns == SUBSET {"credential", "project"}
Events == [id : Nat, kind : {"note", "command"}, text : Texts]
Crates == [output : Texts, sidecar : Texts, log : Texts, metadata : Texts, recorded : Texts, journal : Texts]
FileNames == {"sidecar", "log", "crate sidecar", "crate log", "crate output", "crate metadata"}
Effects == {"set", "clear", "preserve"}

Jobs == [work : {"none", "checkpoint", "redact", "finalize"}, public : BOOLEAN, with_journal : BOOLEAN,
         pats : Patterns, config : Patterns, high : Nat, hash : Texts, snapshot : Seq(Events),
         last : Effects, files : Seq(FileNames)]

Archives == [crate : Crates, public : BOOLEAN, pats : Patterns]

Points == {"idle", "hash", "copy output", "copy command", "metadata", "validate", "read", "rewrite", "files",
           "checkpoint", "stage", "gate", "finalized", "embed", "zip"}

\* Every variable has its type, and a build reads no further than the journal goes.
Types ==
    /\ journal \in Seq(Events)
    /\ last \in Effects
    /\ state \in [dirty : BOOLEAN, checkpointed : BOOLEAN]
    /\ sidecar \in Texts /\ log \in Texts /\ output \in Texts
    /\ crate \in Crates /\ staging \in Crates
    /\ patterns \in Patterns
    /\ pc \in Points
    /\ job \in Jobs
    /\ minted \in Nat
    /\ raced \subseteq Nat
    /\ cleaned \in Patterns
    /\ interrupted \in BOOLEAN
    /\ archive \in Archives
    /\ pc \in Building => job.high <= Len(journal)

Shipping == {"finalized", "embed", "zip"}

PrivateFor(c, pats) ==
    /\ \A file \in {c.metadata, c.sidecar, c.log, c.output, c.journal} : ~Finds(file, pats)
    /\ c.journal # Absent => JournalPublic

\* The staged copy is the crate the gate validates, and what passed the gate ships.
Shipped ==
    /\ pc = "gate" => /\ staging.metadata = crate.metadata
                      /\ staging.recorded = crate.recorded
                      /\ staging.output = crate.output
    /\ pc \in Shipping => /\ Broken \notin staging.metadata
                          /\ staging.recorded = staging.output
                          /\ job.public => PrivateFor(staging, job.pats)
    /\ PublicHoldsNoSecret /\ ShippedVerifies

\* A redaction that holds an older journal holds every event but those appended since.
Survival ==
    /\ EventsSurvive
    /\ pc = "rewrite" => 1 .. minted \subseteq {job.snapshot[i].id : i \in 1 .. Len(job.snapshot)} \cup raced

\* Outside a build and a redaction a run that is not dirty has a crate that verifies.
Fresh ==
    pc \notin Building \cup Redacting /\ ~state.dirty /\ ~interrupted =>
        /\ crate.metadata # Absent /\ Broken \notin crate.metadata
        /\ crate.output = crate.recorded

Goal == job.pats \cap job.config

\* What was removed, and what the redaction under way has removed so far, is nowhere.
Removed ==
    /\ cleaned \subseteq patterns
    /\ RedactionHolds
    /\ pc \in Redacting => job.config \subseteq patterns
    /\ pc = "rewrite" => \A i \in 1 .. Len(job.snapshot) : job.snapshot[i].text \cap (cleaned \cup Goal) = {}
    /\ pc = "files" => /\ JournalText \cap Goal = {}
                       /\ \A file \in FileNames :
                            (\A i \in 1 .. Len(job.files) : job.files[i] # file) => ContentOf(file) \cap Goal = {}

PInv == Types /\ Shipped /\ Survival /\ Fresh /\ Removed

-----------------------------------------------------------------------------
(* The redactor and the files.                                              *)

RawTexts == SUBSET (Traits \cup Inputs)

\* What is recorded of a text is a text of the records, without what a pattern matches.
LEMMA RedactorFacts ==
    ASSUME NEW text \in RawTexts, NEW pats \in Patterns
    PROVE  /\ RedactValue(text, pats) \in Texts
           /\ RedactValue(text, pats) \ {"masked"} \in Texts
           /\ RedactValue(text, pats) \cap pats = {}
           /\ \A gone \in Patterns : text \cap gone = {} => RedactValue(text, pats) \cap gone = {}
BY DEF RedactValue, RawTexts, Texts, Traits, Inputs, Patterns

\* The same of a file that is redacted as a whole.
LEMMA RewriteFacts ==
    ASSUME NEW text \in Texts, NEW pats \in Patterns
    PROVE  /\ RewriteJson(text, pats) \in Texts
           /\ text \ pats \in Texts
           /\ RewriteJson(text, pats) \cap pats = {}
           /\ \A gone \in Patterns : text \cap gone = {} => RewriteJson(text, pats) \cap gone = {}
BY DEF RewriteJson, Texts, Traits, Patterns, Broken

\* A file cut short holds nothing it would not have held whole.
LEMMA TornFacts ==
    ASSUME NEW new \in Texts, NEW text \in Torn(new)
    PROVE  /\ text \in Texts
           /\ \A gone \in Patterns : new \cap gone = {} => text \cap gone = {}
BY DEF Torn, Texts, Traits, Patterns, Broken

\* What a person, a command or a hook may bring in is a raw text, and texts are raw
\* texts too.
LEMMA InputTexts ==
    /\ NoteTexts \subseteq RawTexts /\ RunTexts \subseteq RawTexts /\ OutputTexts \subseteq Texts
    /\ Absent \in Texts
    /\ Texts \subseteq RawTexts
<1>1. {"credential", "project"} \subseteq Traits /\ Absent \subseteq Traits
  BY DEF Traits, Absent
<1> QED
  BY <1>1, PublicationAssumption DEF Texts, RawTexts

\* A recorded event is an event behind the others.
LEMMA RecordedEvent ==
    ASSUME Types, NEW kind \in {"note", "command"}, NEW text \in RawTexts, RecordEvent(kind, text)
    PROVE  /\ journal' \in Seq(Events) /\ Len(journal') = Len(journal) + 1
           /\ \A i \in 1 .. Len(journal) : journal'[i] = journal[i]
           /\ journal'[Len(journal) + 1] = [id |-> minted + 1, kind |-> kind, text |-> RedactValue(text, patterns)]
           /\ minted' = minted + 1 /\ minted' \in Nat /\ last' = "set"
           /\ state' \in [dirty : BOOLEAN, checkpointed : BOOLEAN] /\ state'.dirty
<1> DEFINE e == [id |-> minted + 1, kind |-> kind, text |-> RedactValue(text, patterns)]
<1>1. RedactValue(text, patterns) \in Texts
  BY RedactorFacts DEF Types
<1>2. e \in Events
  BY <1>1 DEF Events, Types
<1>3. journal \in Seq(Events) /\ journal' = Append(journal, e)
  BY DEF RecordEvent, Types
<1> HIDE DEF e
<1>4. /\ journal' \in Seq(Events) /\ Len(journal') = Len(journal) + 1
      /\ \A i \in 1 .. Len(journal) : journal'[i] = journal[i]
      /\ journal'[Len(journal) + 1] = e
  BY <1>2, <1>3, AppendProperties
<1>5. minted' = minted + 1 /\ minted' \in Nat /\ last' = "set"
  BY DEF RecordEvent, Effect, Types
<1>6. state' \in [dirty : BOOLEAN, checkpointed : BOOLEAN] /\ state'.dirty
  BY DEF RecordEvent, Effect, Types
<1> QED
  BY <1>4, <1>5, <1>6 DEF e

\* The texts of the journal, and the part of it a build reads, are texts.
LEMMA JournalTexts ==
    ASSUME Types
    PROVE  /\ JournalText \in Texts
           /\ pc \in Building => MetadataText \in Texts
           /\ \A gone \in Patterns :
                /\ JournalText \cap gone = {} <=> \A i \in 1 .. Len(journal) : journal[i].text \cap gone = {}
                /\ pc \in Building /\ JournalText \cap gone = {} => MetadataText \cap gone = {}
<1>1. \A i \in 1 .. Len(journal) : journal[i].text \in Texts
  <2>1. \A i \in 1 .. Len(journal) : journal[i] \in Events
    BY ElementOfSeq DEF Types
  <2> QED
    BY <2>1 DEF Events
<1>2. JournalText \in Texts
  BY <1>1 DEF JournalText, Texts
<1>3. pc \in Building => 1 .. job.high \subseteq 1 .. Len(journal)
  BY DEF Types, Jobs
<1>4. pc \in Building => MetadataText \subseteq JournalText
  BY <1>3 DEF MetadataText, JournalText
<1>5. pc \in Building => MetadataText \in Texts
  BY <1>2, <1>4 DEF Texts
<1>6. \A gone \in Patterns :
        JournalText \cap gone = {} <=> \A i \in 1 .. Len(journal) : journal[i].text \cap gone = {}
  BY DEF JournalText
<1>7. \A gone \in Patterns : pc \in Building /\ JournalText \cap gone = {} => MetadataText \cap gone = {}
  BY <1>4
<1> QED
  BY <1>2, <1>5, <1>6, <1>7

\* What redaction makes of the events: as many, with their identity, and clean.
LEMMA RedactEventsFacts ==
    ASSUME NEW events \in Seq(Events), NEW pats \in Patterns
    PROVE  /\ RedactEvents(events, pats) \in Seq(Events)
           /\ Len(RedactEvents(events, pats)) = Len(events)
           /\ \A i \in 1 .. Len(events) : /\ RedactEvents(events, pats)[i].id = events[i].id
                                          /\ RedactEvents(events, pats)[i].text = RedactValue(events[i].text, pats)
<1>1. Len(events) \in Nat /\ \A i \in 1 .. Len(events) : events[i] \in Events
  BY ElementOfSeq
<1>2. \A i \in 1 .. Len(events) :
        LET e == [events[i] EXCEPT !.text = RedactValue(@, pats)]
        IN  e \in Events /\ e.id = events[i].id /\ e.text = RedactValue(events[i].text, pats)
  BY <1>1, RedactorFacts, InputTexts DEF Events
<1>3. RedactEvents(events, pats) \in [1 .. Len(events) -> Events]
  BY <1>2 DEF RedactEvents
<1>4. \A i \in 1 .. Len(events) : RedactEvents(events, pats)[i] = [events[i] EXCEPT !.text = RedactValue(@, pats)]
  BY DEF RedactEvents
<1>5. RedactEvents(events, pats) \in Seq(Events) /\ Len(RedactEvents(events, pats)) = Len(events)
  BY <1>1, <1>3, IsASeq
<1> QED
  BY <1>2, <1>4, <1>5

\* Put changes the file it names, and no other.
LEMMA PutFacts ==
    ASSUME Types, NEW file \in FileNames, NEW text \in Texts, Put(file, text)
    PROVE  /\ sidecar' \in Texts /\ log' \in Texts /\ crate' \in Crates
           /\ ContentOf(file)' = text
           /\ \A other \in FileNames : other # file => ContentOf(other)' = ContentOf(other)
           /\ crate'.journal = crate.journal /\ crate'.recorded = crate.recorded
BY DEF Put, Types, FileNames, ContentOf, Crates

\* A file's content is a text, and redacting it removes what was to go.
LEMMA ContentTexts ==
    ASSUME Types, NEW file \in FileNames
    PROVE  /\ ContentOf(file) \in Texts
           /\ Redacted(file, job.pats) \in Texts
           /\ Redacted(file, job.pats) \cap job.pats = {}
           /\ \A gone \in Patterns : ContentOf(file) \cap gone = {} => Redacted(file, job.pats) \cap gone = {}
<1>1. ContentOf(file) \in Texts /\ job.pats \in Patterns
  BY DEF Types, FileNames, ContentOf, Crates, Jobs
<1> HIDE DEF ContentOf
<1>2. /\ ContentOf(file) \ job.pats \in Texts
      /\ RewriteJson(ContentOf(file), job.pats) \in Texts
      /\ RewriteJson(ContentOf(file), job.pats) \cap job.pats = {}
      /\ \A gone \in Patterns : ContentOf(file) \cap gone = {} =>
             RewriteJson(ContentOf(file), job.pats) \cap gone = {}
  BY <1>1, RewriteFacts
<1> QED
  BY <1>1, <1>2 DEF Redacted

-----------------------------------------------------------------------------
(* Types are kept.                                                          *)

\* Initial values have their types; a command that returns forgets its job.
LEMMA InitialTypes ==
    /\ NoCrate \in Crates /\ NoJob \in Jobs /\ NoArchive \in Archives
    /\ \A work \in {"none", "checkpoint", "redact", "finalize"} :
         [NoJob EXCEPT !.work = work] \in Jobs
<1>1. Absent \in Texts /\ {} \in Patterns
  BY InputTexts DEF Patterns
<1>2. <<>> \in Seq(Events) /\ <<>> \in Seq(FileNames)
  BY EmptySeq
<1>3. NoCrate \in Crates
  BY <1>1 DEF NoCrate, Crates
<1>4. NoJob \in Jobs
  BY <1>1, <1>2 DEF NoJob, Jobs, Effects
<1>5. \A work \in {"none", "checkpoint", "redact", "finalize"} : [NoJob EXCEPT !.work = work] \in Jobs
  BY <1>1, <1>2 DEF NoJob, Jobs, Effects
<1> QED
  BY <1>1, <1>3, <1>4, <1>5 DEF NoArchive, Archives

\* The effect of an append on the dirty flag.
LEMMA EffectFacts ==
    ASSUME Types, NEW effect \in Effects, Effect(effect)
    PROVE  /\ last' \in Effects
           /\ state' \in [dirty : BOOLEAN, checkpointed : BOOLEAN]
           /\ effect = "set" => state'.dirty
           /\ effect = "preserve" => state'.dirty = state.dirty
BY DEF Effect, Types, Effects

\* Recording keeps the types, whoever records.
LEMMA RecordTypes ==
    ASSUME Types, NEW kind \in {"note", "command"}, NEW text \in RawTexts, RecordEvent(kind, text),
           pc' = pc, job' = job, crate' = crate, staging' = staging, patterns' = patterns, output' = output,
           sidecar' \in Texts, log' \in Texts, raced' \subseteq Nat,
           cleaned' = cleaned, interrupted' = interrupted, archive' = archive
    PROVE  Types'
<1>1. /\ journal' \in Seq(Events) /\ Len(journal') = Len(journal) + 1 /\ minted' \in Nat
      /\ last' = "set" /\ state' \in [dirty : BOOLEAN, checkpointed : BOOLEAN]
  BY RecordedEvent
<1>2. Len(journal) \in Nat /\ job.high \in Nat
  BY DEF Types, Jobs
<1>3. pc' \in Building => job'.high <= Len(journal')
  BY <1>1, <1>2 DEF Types
<1> QED
  BY <1>1, <1>3 DEF Types, Effects

\* Every step keeps the types.
LEMMA TypesStep ==
    ASSUME Types, [Next]_vars
    PROVE  Types'
<1> USE DEF Types
<1>1. CASE UNCHANGED vars \/ Done
  BY <1>1 DEF Done, vars, disk, environment, history
<1>2. CASE Note
  <2>1. PICK text \in NoteTexts : RecordEvent("note", text)
    BY <1>2 DEF Note
  <2>2. text \in RawTexts
    BY <2>1, InputTexts
  <2> QED
    BY <1>2, <2>1, <2>2, RecordTypes DEF Note, environment
<1>3. CASE Run
  <2>1. PICK text \in RunTexts : /\ RecordEvent("command", text)
                                 /\ sidecar' = RedactValue(text, patterns)
                                 /\ log' = RedactValue(text, patterns) \ {"masked"}
    BY <1>3 DEF Run
  <2>2. text \in RawTexts
    BY <2>1, InputTexts
  <2>3. sidecar' \in Texts /\ log' \in Texts
    BY <2>1, <2>2, RedactorFacts
  <2> QED
    BY <1>3, <2>1, <2>2, <2>3, RecordTypes DEF Run, environment
<1>4. CASE Hook
  <2>1. PICK text \in NoteTexts : RecordEvent("note", text)
    BY <1>4 DEF Hook
  <2>2. text \in RawTexts
    BY <2>1, InputTexts
  <2>3. raced' \subseteq Nat
    BY <1>4 DEF Hook
  <2> QED
    BY <1>4, <2>1, <2>2, <2>3, RecordTypes DEF Hook
<1>5. CASE BeginCheckpoint
  <2>1. Effect("preserve") /\ Len(journal) \in Nat
    BY <1>5 DEF BeginCheckpoint
  <2>2. job' \in Jobs /\ job'.high = Len(journal)
    <3>1. CASE job' = [NoJob EXCEPT !.work = "checkpoint", !.high = Len(journal)]
      <4>1. [NoJob EXCEPT !.work = "checkpoint"] \in Jobs
        BY InitialTypes
      <4> QED
        BY <2>1, <3>1, InitialTypes DEF Jobs
    <3>2. CASE job' = [job EXCEPT !.high = Len(journal)]
      BY <2>1, <3>2 DEF Jobs
    <3> QED
      BY <1>5, <3>1, <3>2 DEF BeginCheckpoint
  <2>3. last' \in Effects /\ state' \in [dirty : BOOLEAN, checkpointed : BOOLEAN]
    BY <2>1, EffectFacts DEF Effects
  <2>4. /\ pc' = "hash"
        /\ UNCHANGED <<journal, sidecar, log, crate, environment, staging, history>>
    BY <1>5 DEF BeginCheckpoint
  <2>5. job'.high <= Len(journal')
    BY <2>1, <2>2, <2>4
  <2>6. UNCHANGED <<journal, sidecar, log, crate, output, patterns, staging, minted, raced, cleaned,
                    interrupted, archive>>
    BY <2>4 DEF environment, history
  <2> QED
    BY <2>2, <2>3, <2>4, <2>5, <2>6 DEF Points
<1>6. CASE HashOutput
  BY <1>6 DEF HashOutput, Points, Building, Jobs, disk, environment, history
<1>7. CASE CopyOutput
  BY <1>7 DEF CopyOutput, Points, Building, Crates, environment, history
<1>8. CASE CopyCommand
  BY <1>8 DEF CopyCommand, Points, Building, Crates, environment, history
<1>9. CASE WriteMetadata
  <2>1. MetadataText \in Texts /\ job.hash \in Texts
    BY <1>9, JournalTexts DEF WriteMetadata, Building, Jobs
  <2>2. crate' \in Crates
    BY <1>9, <2>1 DEF WriteMetadata, Crates
  <2> QED
    BY <1>9, <2>2 DEF WriteMetadata, Points, Building, environment, history
<1>10. CASE CompleteCheckpoint
  <2>1. (~Verifies) \in BOOLEAN
    BY DEF Verifies
  <2>2. state' \in [dirty : BOOLEAN, checkpointed : BOOLEAN]
    BY <1>10, <2>1 DEF CompleteCheckpoint
  <2>3. job' \in Jobs /\ pc' \in {"stage", "idle"}
    BY <1>10, InitialTypes DEF CompleteCheckpoint, Return
  <2> QED
    BY <1>10, <2>2, <2>3 DEF CompleteCheckpoint, Points, Building, Effects, environment
<1>11. CASE BuildRaises \/ RedactionRaises
  <2>1. Effect("set") /\ Return
        /\ UNCHANGED <<journal, sidecar, log, crate, environment, staging, left, history>>
    BY <1>11 DEF BuildRaises, RedactionRaises
  <2>2. last' \in Effects /\ state' \in [dirty : BOOLEAN, checkpointed : BOOLEAN]
    BY <2>1, EffectFacts DEF Effects
  <2> QED
    BY <2>1, <2>2, InitialTypes DEF Return, Points, Building, environment, history
<1>12. CASE Scan
  <2>1. /\ UNCHANGED <<disk, environment, staging, history>>
        /\ \E policy \in SUBSET {"project"} :
             LET pats == patterns \cup policy
             IN  \/ job' = [NoJob EXCEPT !.work = "redact", !.pats = pats, !.config = patterns] /\ pc' = "read"
                 \/ Return
    BY <1>12 DEF Scan
  <2>2. job' \in Jobs /\ pc' \in {"read", "idle"}
    <3>1. PICK policy \in SUBSET {"project"} :
             LET pats == patterns \cup policy
             IN  \/ job' = [NoJob EXCEPT !.work = "redact", !.pats = pats, !.config = patterns] /\ pc' = "read"
                 \/ Return
      BY <2>1
    <3>2. patterns \cup policy \in Patterns
      BY DEF Patterns
    <3>3. NoJob \in Jobs
      BY InitialTypes
    <3> QED
      BY <3>1, <3>2, <3>3 DEF Return, Jobs
  <2> QED
    BY <2>1, <2>2 DEF Points, Building, disk, environment, history
<1>13. CASE ReadJournal
  <2>1. RedactEvents(journal, job.pats) \in Seq(Events)
    BY RedactEventsFacts DEF Jobs
  <2>2. job' \in Jobs
    BY <1>13, <2>1 DEF ReadJournal, Jobs
  <2> QED
    BY <1>13, <2>2 DEF ReadJournal, Points, Building, disk, environment, history
<1>14. CASE RewriteChain
  <2>1. TextFiles \in Seq(FileNames)
    BY DEF TextFiles, FileNames
  <2>2. job' \in Jobs /\ journal' \in Seq(Events)
    BY <1>14, <2>1 DEF RewriteChain, Jobs
  <2>3. last' \in Effects /\ state' \in [dirty : BOOLEAN, checkpointed : BOOLEAN]
    BY <1>14, EffectFacts DEF RewriteChain, Jobs
  <2> QED
    BY <1>14, <2>2, <2>3 DEF RewriteChain, Points, Building, environment, history
<1>15. CASE RedactFile
  <2>1. Head(job.files) \in FileNames /\ Tail(job.files) \in Seq(FileNames)
    BY <1>15, HeadTailProperties DEF RedactFile, Jobs
  <2>2. sidecar' \in Texts /\ log' \in Texts /\ crate' \in Crates
    BY <1>15, <2>1, ContentTexts, PutFacts DEF RedactFile
  <2>3. job' \in Jobs
    BY <1>15, <2>1 DEF RedactFile, Jobs
  <2> QED
    BY <1>15, <2>2, <2>3 DEF RedactFile, Building, environment, history
<1>16. CASE CompleteRedaction
  <2>1. last' \in Effects /\ state' \in [dirty : BOOLEAN, checkpointed : BOOLEAN]
    BY <1>16, EffectFacts DEF CompleteRedaction, Effects
  <2>2. cleaned' \in Patterns
    BY <1>16 DEF CompleteRedaction, Jobs, Patterns
  <2> QED
    BY <1>16, <2>1, <2>2, InitialTypes DEF CompleteRedaction, Return, Points, Building, environment
<1>17. CASE Finalize
  <2>1. job' \in Jobs /\ pc' \in {"checkpoint", "stage"}
    BY <1>17, InitialTypes DEF Finalize, Jobs
  <2> QED
    BY <1>17, <2>1 DEF Finalize, Points, Building, disk, environment, history
<1>18. CASE Stage
  <2>1. staging' \in Crates
    BY <1>18, JournalTexts DEF Stage, Crates
  <2> QED
    BY <1>18, <2>1 DEF Stage, Points, Building, disk, environment, history
<1>19. CASE Gate
  <2>1. last' \in Effects /\ state' \in [dirty : BOOLEAN, checkpointed : BOOLEAN]
    BY <1>19, EffectFacts DEF Gate, Effects
  <2>2. job' \in Jobs /\ staging' \in Crates /\ pc' \in {"finalized", "idle"}
    <3>1. \/ job' = [job EXCEPT !.pats = patterns] /\ pc' = "finalized" /\ staging' = staging
          \/ job' = NoJob /\ pc' = "idle" /\ staging' = NoCrate
      BY <1>19 DEF Gate, Return
    <3>2. [job EXCEPT !.pats = patterns] \in Jobs
      BY DEF Jobs
    <3> QED
      BY <3>1, <3>2, InitialTypes
  <2> QED
    BY <1>19, <2>1, <2>2 DEF Gate, Points, Building, environment, history
<1>20. CASE RecordFinalized
  <2>1. last' \in Effects /\ state' \in [dirty : BOOLEAN, checkpointed : BOOLEAN]
    BY <1>20, EffectFacts DEF RecordFinalized, Effects
  <2> QED
    BY <1>20, <2>1 DEF RecordFinalized, Points, Building, environment, history
<1>21. CASE Embed
  <2>1. crate' \in Crates
    BY <1>21, JournalTexts DEF Embed, Crates
  <2> QED
    BY <1>21, <2>1 DEF Embed, Points, Building, environment, history
<1>22. CASE ExportZip
  <2>1. [staging EXCEPT !.journal = Absent] \in Crates
    BY InputTexts DEF Crates
  <2>2. archive' \in Archives
    BY <1>22, <2>1 DEF ExportZip, Archives, Jobs
  <2> QED
    BY <1>22, <2>2, InitialTypes DEF ExportZip, Return, Points, Building, disk, environment
<1>23. CASE RewriteOutput \/ AddPattern
  BY <1>23, InputTexts DEF RewriteOutput, AddPattern, Patterns, disk, history
<1>24. CASE Kill
  <2>1. sidecar' \in Texts /\ log' \in Texts /\ crate' \in Crates
    <3>1. CASE UNCHANGED <<sidecar, log, crate>>
      BY <3>1
    <3>2. CASE /\ \E text \in Torn(output) : crate' = [crate EXCEPT !.output = text]
               /\ UNCHANGED <<sidecar, log>>
      BY <3>2, TornFacts DEF Crates
    <3>3. CASE /\ pc = "metadata"
               /\ \E text \in Torn(MetadataText) : crate' = [crate EXCEPT !.metadata = text]
               /\ UNCHANGED <<sidecar, log>>
      <4>1. MetadataText \in Texts
        BY <3>3, JournalTexts DEF Building
      <4> QED
        BY <3>3, <4>1, TornFacts DEF Crates
    <3>4. CASE /\ job.files # <<>>
               /\ \E text \in Torn(Redacted(Head(job.files), job.pats)) : Put(Head(job.files), text)
      <4>1. Head(job.files) \in FileNames
        BY <3>4, HeadTailProperties DEF Jobs
      <4> QED
        BY <3>4, <4>1, ContentTexts, TornFacts, PutFacts
    <3> QED
      BY <1>24, <3>1, <3>2, <3>3, <3>4 DEF Kill
  <2>2. interrupted' \in BOOLEAN
    BY <1>24 DEF Kill
  <2> QED
    BY <1>24, <2>1, <2>2, InitialTypes DEF Kill, Return, Points, Building, environment
<1> QED
  BY <1>1, <1>2, <1>3, <1>4, <1>5, <1>6, <1>7, <1>8, <1>9, <1>10, <1>11, <1>12, <1>13, <1>14, <1>15, <1>16,
     <1>17, <1>18, <1>19, <1>20, <1>21, <1>22, <1>23, <1>24 DEF Next

-----------------------------------------------------------------------------
(* Each part of the invariant is kept.                                      *)

\* The invariant holds before the first command.
LEMMA InitPInv == Init => PInv
<1> SUFFICES ASSUME Init PROVE PInv
  OBVIOUS
<1>1. Types
  <2>1. output \in Texts /\ Absent \in Texts /\ {} \in Patterns /\ {"credential"} \in Patterns
    BY InputTexts DEF Init, Patterns
  <2>2. journal \in Seq(Events)
    BY EmptySeq DEF Init
  <2> QED
    BY <2>1, <2>2, InitialTypes DEF Init, Types, Effects, Points, Building
<1>2. Shipped
  BY DEF Init, Shipped, Shipping, PublicHoldsNoSecret, ShippedVerifies, NoArchive, NoCrate, Absent, Finds
<1>3. Survival
  BY DEF Init, Survival, EventsSurvive
<1>4. Fresh
  BY DEF Init, Fresh
<1>5. Removed
  <2>1. cleaned = {} /\ pc = "idle"
    BY DEF Init
  <2> QED
    BY <2>1 DEF Removed, RedactionHolds, Redacting
<1> QED
  BY <1>1, <1>2, <1>3, <1>4, <1>5 DEF PInv

\* No step loses an acknowledged event but for those appended during a redaction.
LEMMA SurvivalStep ==
    ASSUME Types, Survival, [Next]_vars
    PROVE  Survival'
<1> DEFINE Ids(s) == {s[i].id : i \in 1 .. Len(s)}
<1>1. 1 .. minted \subseteq Ids(journal) \cup raced
  BY DEF Survival, EventsSurvive
<1>2. ASSUME NEW kind \in {"note", "command"}, NEW text \in RawTexts, RecordEvent(kind, text)
      PROVE  1 .. minted' \subseteq Ids(journal') \cup raced
  <2>1. /\ Len(journal') = Len(journal) + 1 /\ Len(journal) \in Nat
        /\ \A i \in 1 .. Len(journal) : journal'[i] = journal[i]
        /\ journal'[Len(journal) + 1].id = minted + 1
        /\ minted' = minted + 1
    <3>1. /\ Len(journal') = Len(journal) + 1
          /\ \A i \in 1 .. Len(journal) : journal'[i] = journal[i]
          /\ journal'[Len(journal) + 1] = [id |-> minted + 1, kind |-> kind, text |-> RedactValue(text, patterns)]
          /\ minted' = minted + 1
      BY <1>2, RecordedEvent
    <3>2. Len(journal) \in Nat
      BY DEF Types
    <3>3. journal'[Len(journal) + 1].id = minted + 1
      BY <3>1
    <3> QED
      BY <3>1, <3>2, <3>3
  <2>2. Ids(journal) \subseteq Ids(journal')
    BY <2>1
  <2>3. minted + 1 \in Ids(journal')
    BY <2>1
  <2>4. 1 .. minted' = (1 .. minted) \cup {minted + 1}
    BY <2>1 DEF Types
  <2> QED
    BY <1>1, <2>2, <2>3, <2>4
<1>3. CASE Note \/ Run
  <2>1. pc' = "idle" /\ raced' = raced
    BY <1>3 DEF Note, Run, Starts
  <2>2. \E kind \in {"note", "command"}, text \in RawTexts : RecordEvent(kind, text)
    BY <1>3, InputTexts DEF Note, Run
  <2>3. 1 .. minted' \subseteq Ids(journal') \cup raced
    BY <1>2, <2>2
  <2> QED
    BY <2>1, <2>3 DEF Survival, EventsSurvive
<1>4. CASE Hook
  <2>1. pc' = pc /\ job' = job /\ raced \subseteq raced' /\ (pc = "rewrite" => minted + 1 \in raced')
    BY <1>4 DEF Hook
  <2>2. PICK text \in RawTexts : RecordEvent("note", text)
    BY <1>4, InputTexts DEF Hook
  <2>3. 1 .. minted' \subseteq Ids(journal') \cup raced
    BY <1>2, <2>2
  <2>4. 1 .. minted' = (1 .. minted) \cup {minted + 1}
    BY <2>2 DEF RecordEvent, Types
  <2>5. pc' = "rewrite" => 1 .. minted' \subseteq Ids(job'.snapshot) \cup raced'
    BY <2>1, <2>4 DEF Survival
  <2> QED
    BY <2>1, <2>3, <2>5 DEF Survival, EventsSurvive
<1>5. CASE ReadJournal
  <2>1. job'.snapshot = RedactEvents(journal, job.pats)
    BY <1>5 DEF ReadJournal, Types, Jobs
  <2>2. /\ Len(RedactEvents(journal, job.pats)) = Len(journal)
        /\ \A i \in 1 .. Len(journal) : RedactEvents(journal, job.pats)[i].id = journal[i].id
    BY RedactEventsFacts DEF Types, Jobs
  <2>3. Ids(job'.snapshot) = Ids(journal)
    BY <2>1, <2>2
  <2>4. journal' = journal /\ minted' = minted /\ raced' = raced
    BY <1>5 DEF ReadJournal, disk, history
  <2> QED
    BY <1>1, <2>3, <2>4 DEF Survival, EventsSurvive
<1>6. CASE RewriteChain
  <2>1. journal' = job.snapshot /\ minted' = minted /\ raced' = raced /\ pc = "rewrite" /\ pc' = "files"
    BY <1>6 DEF RewriteChain, history
  <2>2. 1 .. minted \subseteq Ids(job.snapshot) \cup raced
    BY <2>1 DEF Survival
  <2> QED
    BY <2>1, <2>2 DEF Survival, EventsSurvive
<1>7. CASE UNCHANGED vars \/ Done \/ RewriteOutput \/ AddPattern
  <2>1. UNCHANGED <<journal, minted, raced, pc, job>>
    BY <1>7 DEF Done, vars, RewriteOutput, AddPattern, disk, history
  <2> QED
    BY <2>1 DEF Survival, EventsSurvive
<1>8. CASE \/ BeginCheckpoint \/ HashOutput \/ CopyOutput \/ CopyCommand \/ WriteMetadata
           \/ CompleteCheckpoint \/ BuildRaises \/ Scan \/ RedactFile
           \/ CompleteRedaction \/ RedactionRaises \/ Finalize \/ Stage \/ Gate \/ RecordFinalized
           \/ Embed \/ ExportZip \/ Kill
  <2>1. UNCHANGED <<journal, minted, raced>>
    BY <1>8 DEF BeginCheckpoint, HashOutput, CopyOutput, CopyCommand, WriteMetadata, CompleteCheckpoint,
                BuildRaises, Scan, RedactFile, CompleteRedaction, RedactionRaises, Finalize, Stage, Gate,
                RecordFinalized, Embed, ExportZip, Kill, disk, history
  <2>2. pc' # "rewrite"
    BY <1>8 DEF BeginCheckpoint, HashOutput, CopyOutput, CopyCommand, WriteMetadata, CompleteCheckpoint,
                BuildRaises, Scan, RedactFile, CompleteRedaction, RedactionRaises, Finalize, Stage, Gate,
                RecordFinalized, Embed, ExportZip, Kill, Return
  <2> QED
    BY <2>1, <2>2 DEF Survival, EventsSurvive
<1> QED
  BY <1>3, <1>4, <1>5, <1>6, <1>7, <1>8 DEF Next

\* What is staged is what the gate validated, and what passed the gate ships.
LEMMA ShippedStep ==
    ASSUME Types, Shipped, [Next]_vars
    PROVE  Shipped'
<1> DEFINE Kept == PublicHoldsNoSecret /\ ShippedVerifies
<1>1. Kept
  BY DEF Shipped
<1>2. archive' = archive => Kept'
  BY <1>1 DEF PublicHoldsNoSecret, ShippedVerifies
<1> HIDE DEF Kept
<1>3. CASE \/ Note \/ Run \/ BeginCheckpoint \/ HashOutput \/ CopyOutput \/ CopyCommand \/ WriteMetadata
           \/ CompleteCheckpoint \/ BuildRaises \/ Scan \/ ReadJournal \/ RewriteChain \/ RedactFile
           \/ CompleteRedaction \/ RedactionRaises \/ Finalize \/ Kill
  <2>1. pc' # "gate" /\ pc' \notin Shipping
    BY <1>3 DEF Note, Run, Starts, BeginCheckpoint, HashOutput, CopyOutput, CopyCommand, WriteMetadata,
                CompleteCheckpoint, BuildRaises, Scan, ReadJournal, RewriteChain, RedactFile,
                CompleteRedaction, RedactionRaises, Finalize, Kill, Return, Shipping
  <2>2. archive' = archive
    BY <1>3 DEF Note, Run, BeginCheckpoint, HashOutput, CopyOutput, CopyCommand, WriteMetadata,
                CompleteCheckpoint, BuildRaises, Scan, ReadJournal, RewriteChain, RedactFile,
                CompleteRedaction, RedactionRaises, Finalize, Kill, history
  <2> QED
    BY <1>2, <2>1, <2>2 DEF Shipped, Kept
<1>4. CASE UNCHANGED vars \/ Done \/ Hook \/ RewriteOutput \/ AddPattern
  <2>1. UNCHANGED <<pc, job, staging, crate, archive>>
    BY <1>4 DEF Done, vars, Hook, RewriteOutput, AddPattern, disk, history
  <2> QED
    BY <1>2, <2>1 DEF Shipped, Kept, PrivateFor
<1>5. CASE Stage
  <2>1. /\ staging'.metadata = crate.metadata /\ staging'.recorded = crate.recorded
        /\ staging'.output = crate.output /\ crate' = crate /\ archive' = archive /\ pc' = "gate"
    BY <1>5 DEF Stage, Types, Crates, disk, history
  <2> QED
    BY <1>2, <2>1 DEF Shipped, Shipping, Kept
<1>6. CASE Gate
  <2>1. archive' = archive /\ pc = "gate" /\ pc' \in {"finalized", "idle"}
    BY <1>6 DEF Gate, Return, history
  <2>2. CASE pc' = "finalized"
    <3>1. /\ Verifies /\ (job.public => Private(staging))
          /\ staging' = staging /\ job'.public = job.public /\ job'.pats = patterns
      BY <1>6, <2>2 DEF Gate, Return, Types, Jobs
    <3>2. Private(staging) => PrivateFor(staging, patterns)
      BY DEF Private, PrivateFor, Finds, FindsInJson
    <3>3. Broken \notin staging.metadata /\ staging.recorded = staging.output
      BY <2>1, <3>1 DEF Shipped, Verifies
    <3>4. job'.public => PrivateFor(staging', job'.pats)
      BY <3>1, <3>2
    <3> QED
      BY <1>2, <2>1, <2>2, <3>1, <3>3, <3>4 DEF Shipped, PrivateFor, Kept
  <2>3. CASE pc' = "idle"
    BY <1>2, <2>1, <2>3 DEF Shipped, Shipping, Kept
  <2> QED
    BY <2>1, <2>2, <2>3
<1>7. CASE RecordFinalized \/ Embed
  <2>1. /\ UNCHANGED <<job, staging, archive>> /\ pc \in Shipping /\ pc' \in Shipping /\ pc' # "gate"
    BY <1>7 DEF RecordFinalized, Embed, Shipping, history
  <2> QED
    BY <1>2, <2>1 DEF Shipped, PrivateFor, Kept
<1>8. CASE ExportZip
  <2> DEFINE c == IF job.with_journal THEN staging ELSE [staging EXCEPT !.journal = Absent]
  <2>1. /\ Broken \notin staging.metadata /\ staging.recorded = staging.output
        /\ job.public => PrivateFor(staging, job.pats)
    BY <1>8 DEF ExportZip, Shipped, Shipping
  <2>2. /\ c.metadata = staging.metadata /\ c.sidecar = staging.sidecar /\ c.log = staging.log
        /\ c.output = staging.output /\ c.recorded = staging.recorded
        /\ c.journal = staging.journal \/ c.journal = Absent
    BY DEF Types, Crates
  <2>3. archive' = [crate |-> c, public |-> job.public, pats |-> job.pats] /\ pc' = "idle"
    BY <1>8 DEF ExportZip, Return
  <2> HIDE DEF c
  <2>4. archive'.crate = c /\ archive'.public = job.public /\ archive'.pats = job.pats
    BY <2>3
  <2>5. Finds(Absent, job.pats) = FALSE
    BY DEF Finds, Absent, Types, Jobs, Patterns
  <2>6. job.public => PrivateFor(c, job.pats)
    BY <2>1, <2>2, <2>5 DEF PrivateFor
  <2>7. Broken \notin c.metadata /\ c.recorded = c.output
    BY <2>1, <2>2
  <2>8. PublicHoldsNoSecret'
    BY <2>4, <2>6 DEF PublicHoldsNoSecret, PrivateFor
  <2>9. ShippedVerifies'
    BY <2>4, <2>7 DEF ShippedVerifies
  <2> QED
    BY <2>3, <2>8, <2>9 DEF Shipped, Shipping
<1> QED
  BY <1>3, <1>4, <1>5, <1>6, <1>7, <1>8 DEF Next

\* A run that is not dirty has a crate that verifies, but for kills.
LEMMA FreshStep ==
    ASSUME Types, Fresh, [Next]_vars
    PROVE  Fresh'
<1> DEFINE Good == /\ crate.metadata # Absent /\ Broken \notin crate.metadata
                   /\ crate.output = crate.recorded
<1>1. CASE Note \/ Run \/ Hook
  <2>1. \E kind \in {"note", "command"}, text \in RawTexts : RecordEvent(kind, text)
    BY <1>1, InputTexts DEF Note, Run, Hook
  <2>2. state'.dirty
    BY <2>1, RecordedEvent
  <2> QED
    BY <2>2 DEF Fresh
<1>2. CASE \/ BeginCheckpoint \/ HashOutput \/ CopyOutput \/ CopyCommand \/ WriteMetadata
           \/ ReadJournal \/ RewriteChain \/ RedactFile
  <2>1. pc' \in Building \cup Redacting
    BY <1>2 DEF BeginCheckpoint, HashOutput, CopyOutput, CopyCommand, WriteMetadata, ReadJournal,
                RewriteChain, RedactFile, Building, Redacting
  <2> QED
    BY <2>1 DEF Fresh
<1>3. CASE CompleteCheckpoint
  <2>1. state'.dirty = ~Verifies /\ crate' = crate
    BY <1>3 DEF CompleteCheckpoint
  <2> QED
    BY <2>1 DEF Fresh, Verifies
<1>4. CASE BuildRaises \/ RedactionRaises \/ CompleteRedaction \/ RecordFinalized
  <2>1. Effect("set")
    BY <1>4 DEF BuildRaises, RedactionRaises, CompleteRedaction, RecordFinalized
  <2>2. state'.dirty
    BY <2>1, EffectFacts DEF Effects
  <2> QED
    BY <2>2 DEF Fresh
<1>5. CASE Scan \/ Finalize \/ Stage \/ ExportZip \/ UNCHANGED vars \/ Done \/ RewriteOutput \/ AddPattern
  <2>1. UNCHANGED <<state, crate, interrupted>>
    BY <1>5 DEF Scan, Finalize, Stage, ExportZip, Done, vars, RewriteOutput, AddPattern, disk, history
  <2>2. pc \in Building \cup Redacting => pc' = pc
    BY <1>5 DEF Scan, Starts, Finalize, Stage, ExportZip, Done, vars, RewriteOutput, AddPattern,
                Building, Redacting
  <2> QED
    BY <2>1, <2>2 DEF Fresh
<1>6. CASE Gate
  <2>1. crate' = crate /\ interrupted' = interrupted /\ pc \notin Building \cup Redacting
    BY <1>6 DEF Gate, history, Building, Redacting
  <2>2. Effect("set") \/ Effect("preserve")
    BY <1>6 DEF Gate
  <2>3. state'.dirty \/ state'.dirty = state.dirty
    BY <2>2, EffectFacts DEF Effects
  <2> QED
    BY <2>1, <2>3 DEF Fresh
<1>7. CASE Embed
  <2>1. /\ crate'.metadata = crate.metadata /\ crate'.output = crate.output /\ crate'.recorded = crate.recorded
        /\ UNCHANGED <<state, interrupted>> /\ pc \notin Building \cup Redacting
    BY <1>7 DEF Embed, history, Types, Crates, Building, Redacting
  <2> QED
    BY <2>1 DEF Fresh
<1>8. CASE Kill
  <2>1. CASE pc \in Building \cup Redacting
    BY <1>8, <2>1 DEF Kill, Fresh
  <2>2. CASE pc \notin Building \cup Redacting
    <3>1. UNCHANGED <<crate, state>> /\ interrupted' = interrupted
      BY <1>8, <2>2 DEF Kill, Building, Redacting, Types
    <3> QED
      BY <2>2, <3>1 DEF Fresh
  <2> QED
    BY <2>1, <2>2
<1> QED
  BY <1>1, <1>2, <1>3, <1>4, <1>5, <1>6, <1>7, <1>8 DEF Next

\* The texts a recorded event adds are clean of what the policy matches.
LEMMA RecordedText ==
    ASSUME Types, NEW kind \in {"note", "command"}, NEW text \in RawTexts, RecordEvent(kind, text),
           NEW gone \in Patterns, gone \subseteq patterns, JournalText \cap gone = {}
    PROVE  JournalText' \cap gone = {}
<1>1. \A i \in 1 .. Len(journal) : journal[i].text \cap gone = {}
  BY JournalTexts
<1>2. /\ Len(journal') = Len(journal) + 1
      /\ \A i \in 1 .. Len(journal) : journal'[i] = journal[i]
      /\ journal'[Len(journal) + 1] = [id |-> minted + 1, kind |-> kind, text |-> RedactValue(text, patterns)]
  BY RecordedEvent
<1>3. RedactValue(text, patterns) \cap patterns = {}
  BY RedactorFacts DEF Types
<1>4. journal'[Len(journal) + 1].text \cap gone = {}
  <2>1. journal'[Len(journal) + 1].text = RedactValue(text, patterns)
    BY <1>2
  <2> QED
    BY <1>3, <2>1
<1>5. Len(journal) \in Nat
  BY DEF Types
<1>6. \A i \in 1 .. Len(journal') : i \in 1 .. Len(journal) \/ i = Len(journal) + 1
  BY <1>2, <1>5
<1>7. \A i \in 1 .. Len(journal') : journal'[i].text \cap gone = {}
  BY <1>1, <1>2, <1>4, <1>6
<1> QED
  BY <1>7 DEF JournalText

\* Recording keeps what was removed away, whatever the process is doing.
LEMMA RecordingKeepsRemoved ==
    ASSUME Types, Removed, NEW kind \in {"note", "command"}, NEW text \in RawTexts, RecordEvent(kind, text),
           UNCHANGED <<pc, job, crate, patterns, cleaned>>,
           \/ UNCHANGED <<sidecar, log>>
           \/ /\ pc = "idle"
              /\ sidecar' = RedactValue(text, patterns)
              /\ log' = RedactValue(text, patterns) \ {"masked"}
    PROVE  Removed'
<1>1. cleaned \subseteq patterns /\ cleaned \in Patterns /\ Goal \in Patterns /\ patterns \in Patterns
  BY DEF Removed, Goal, Types, Jobs, Patterns
<1>2. pc \in Redacting => Goal \subseteq patterns
  BY DEF Removed, Goal
<1>3. JournalText' \cap cleaned = {}
  BY <1>1, RecordedText DEF Removed, RedactionHolds
<1>4. pc = "files" => JournalText' \cap Goal = {}
  BY <1>1, <1>2, RecordedText DEF Removed, Redacting
<1>5. RedactValue(text, patterns) \cap patterns = {}
  BY <1>1, RedactorFacts
<1>6. sidecar' \cap cleaned = {} /\ log' \cap cleaned = {}
  BY <1>1, <1>5 DEF Removed, RedactionHolds
<1>7. RedactionHolds'
  BY <1>3, <1>6 DEF Removed, RedactionHolds
<1>8. pc = "files" => UNCHANGED <<sidecar, log>>
  OBVIOUS
<1>9. pc = "files" => \A file \in FileNames : ContentOf(file)' = ContentOf(file)
  BY <1>8 DEF ContentOf
<1> QED
  BY <1>1, <1>4, <1>7, <1>9 DEF Removed, Goal, Redacting

\* What was removed stays away, and what a redaction goes through is clean behind it.
LEMMA RemovedStep ==
    ASSUME Types, Removed, [Next]_vars
    PROVE  Removed'
<1>1. /\ cleaned \subseteq patterns /\ cleaned \in Patterns /\ Goal \in Patterns /\ job.pats \in Patterns
      /\ Goal \subseteq job.pats
  BY DEF Removed, Goal, Types, Jobs, Patterns
<1>2. /\ JournalText \cap cleaned = {}
      /\ sidecar \cap cleaned = {} /\ log \cap cleaned = {}
      /\ crate.sidecar \cap cleaned = {} /\ crate.log \cap cleaned = {} /\ crate.metadata \cap cleaned = {}
  BY DEF Removed, RedactionHolds
<1>3. CASE Note \/ Run \/ Hook
  <2>1. /\ UNCHANGED <<pc, job, crate, patterns, cleaned>>
        /\ \E kind \in {"note", "command"}, text \in RawTexts :
             /\ RecordEvent(kind, text)
             /\ \/ UNCHANGED <<sidecar, log>>
                \/ /\ pc = "idle"
                   /\ sidecar' = RedactValue(text, patterns)
                   /\ log' = RedactValue(text, patterns) \ {"masked"}
    BY <1>3, InputTexts DEF Note, Run, Hook, Starts, environment
  <2> QED
    BY <2>1, RecordingKeepsRemoved
<1>4. CASE ReadJournal
  <2>1. /\ job'.snapshot = RedactEvents(journal, job.pats) /\ job'.pats = job.pats /\ job'.config = job.config
        /\ pc = "read" /\ pc' = "rewrite" /\ UNCHANGED <<journal, sidecar, log, crate, patterns, cleaned>>
    BY <1>4 DEF ReadJournal, Types, Jobs, disk, environment, history
  <2>2. Goal' = Goal
    BY <2>1 DEF Goal
  <2>3. ASSUME NEW i \in 1 .. Len(job'.snapshot)
        PROVE  job'.snapshot[i].text \cap (cleaned \cup Goal) = {}
    <3>1. journal \in Seq(Events)
      BY DEF Types
    <3>2. i \in 1 .. Len(journal) /\ job'.snapshot[i].text = RedactValue(journal[i].text, job.pats)
      <4>1. /\ Len(RedactEvents(journal, job.pats)) = Len(journal)
            /\ \A n \in 1 .. Len(journal) :
                 RedactEvents(journal, job.pats)[n].text = RedactValue(journal[n].text, job.pats)
        BY <1>1, <3>1, RedactEventsFacts
      <4> QED
        BY <2>1, <2>3, <4>1
    <3>3. journal[i].text \in Texts
      <4>1. journal[i] \in Events
        BY <3>1, <3>2, ElementOfSeq
      <4> QED
        BY <4>1 DEF Events
    <3>4. journal[i].text \in RawTexts
      BY <3>3, InputTexts
    <3>5. journal[i].text \cap cleaned = {}
      BY <1>1, <1>2, <3>2, JournalTexts
    <3>6. /\ RedactValue(journal[i].text, job.pats) \cap job.pats = {}
          /\ RedactValue(journal[i].text, job.pats) \cap cleaned = {}
      BY <1>1, <3>4, <3>5, RedactorFacts
    <3> QED
      BY <1>1, <3>2, <3>6
  <2>4. RedactionHolds'
    BY <1>2, <2>1 DEF RedactionHolds, JournalText
  <2> QED
    BY <1>1, <2>1, <2>2, <2>3, <2>4 DEF Removed, Redacting
<1>5. CASE RewriteChain
  <2>1. /\ journal' = job.snapshot /\ job'.files = TextFiles /\ job'.pats = job.pats /\ job'.config = job.config
        /\ pc = "rewrite" /\ pc' = "files" /\ UNCHANGED <<sidecar, log, crate, patterns, cleaned>>
    BY <1>5 DEF RewriteChain, Types, Jobs, environment, history
  <2>2. Goal' = Goal
    BY <2>1 DEF Goal
  <2>3. \A i \in 1 .. Len(journal') : journal'[i].text \cap (cleaned \cup Goal) = {}
    BY <2>1 DEF Removed
  <2>4. JournalText' \cap cleaned = {} /\ JournalText' \cap Goal = {}
    BY <2>3 DEF JournalText
  <2>5. RedactionHolds'
    BY <1>2, <2>1, <2>4 DEF RedactionHolds
  <2>6. ASSUME NEW file \in FileNames
        PROVE  \E i \in 1 .. Len(job'.files) : job'.files[i] = file
    <3>1. /\ Len(TextFiles) = 6
          /\ TextFiles[1] = "sidecar" /\ TextFiles[2] = "log" /\ TextFiles[3] = "crate sidecar"
          /\ TextFiles[4] = "crate log" /\ TextFiles[5] = "crate output" /\ TextFiles[6] = "crate metadata"
      BY DEF TextFiles
    <3>2. 1 \in 1 .. 6 /\ 2 \in 1 .. 6 /\ 3 \in 1 .. 6 /\ 4 \in 1 .. 6 /\ 5 \in 1 .. 6 /\ 6 \in 1 .. 6
      OBVIOUS
    <3>3. \E i \in 1 .. 6 : TextFiles[i] = file
      BY <3>1, <3>2, Zenon DEF FileNames
    <3> QED
      BY <2>1, <3>1, <3>3
  <2> QED
    BY <1>1, <2>1, <2>2, <2>4, <2>5, <2>6 DEF Removed, Redacting
<1>6. CASE RedactFile
  <2>0. Head(job.files) \in FileNames
    BY <1>6, HeadTailProperties DEF RedactFile, Types, Jobs
  <2> PICK file \in FileNames : file = Head(job.files)
    BY <2>0
  <2>1. /\ pc = "files" /\ job.files # <<>> /\ job.files \in Seq(FileNames)
        /\ Put(file, Redacted(file, job.pats))
        /\ job' = [job EXCEPT !.files = Tail(@)]
        /\ UNCHANGED <<journal, patterns, pc, cleaned>>
    BY <1>6 DEF RedactFile, environment, history, Types, Jobs
  <2>2. job'.files = Tail(job.files) /\ job'.pats = job.pats /\ job'.config = job.config
    BY <2>1 DEF Types, Jobs
  <2>3. Goal' = Goal /\ JournalText' = JournalText
    BY <2>1, <2>2 DEF Goal, JournalText
  <2>4. /\ Len(job.files) \in Nat \ {0} /\ Len(Tail(job.files)) = Len(job.files) - 1
        /\ \A i \in 1 .. Len(Tail(job.files)) : Tail(job.files)[i] = job.files[i + 1]
        /\ job.files[1] = file
    BY <2>1, HeadTailProperties
  <2>5. /\ Redacted(file, job.pats) \in Texts
        /\ Redacted(file, job.pats) \cap job.pats = {}
        /\ \A gone \in Patterns : ContentOf(file) \cap gone = {} => Redacted(file, job.pats) \cap gone = {}
    BY ContentTexts
  <2>6. /\ ContentOf(file)' = Redacted(file, job.pats)
        /\ \A other \in FileNames : other # file => ContentOf(other)' = ContentOf(other)
    BY <2>1, <2>5, PutFacts
  <2>7. \A other \in FileNames : ContentOf(other) \cap cleaned = {} => ContentOf(other)' \cap cleaned = {}
    BY <1>1, <2>5, <2>6
  <2>8. /\ sidecar' \cap cleaned = {} /\ log' \cap cleaned = {}
        /\ crate'.sidecar \cap cleaned = {} /\ crate'.log \cap cleaned = {} /\ crate'.metadata \cap cleaned = {}
    BY <1>2, <2>7 DEF ContentOf, FileNames
  <2>9. RedactionHolds'
    BY <1>2, <2>1, <2>3, <2>8 DEF RedactionHolds
  <2>10. ASSUME NEW other \in FileNames, \A i \in 1 .. Len(job'.files) : job'.files[i] # other
         PROVE  ContentOf(other)' \cap Goal = {}
    <3>1. CASE other = file
      BY <1>1, <2>5, <2>6, <3>1
    <3>2. CASE other # file
      <4>1. \A i \in 1 .. Len(job.files) : i = 1 \/ i - 1 \in 1 .. Len(Tail(job.files))
        BY <2>4
      <4>2. \A i \in 1 .. Len(job.files) : i # 1 => job.files[i] = Tail(job.files)[i - 1]
        BY <2>4, <4>1
      <4>3. \A i \in 1 .. Len(job.files) : job.files[i] # other
        BY <2>2, <2>4, <2>10, <3>2, <4>1, <4>2
      <4>4. ContentOf(other) \cap Goal = {}
        BY <2>1, <4>3 DEF Removed
      <4> QED
        BY <2>6, <3>2, <4>4
    <3> QED
      BY <3>1, <3>2
  <2>11. pc' = "files" /\ JournalText' \cap Goal' = {} /\ job'.config \subseteq patterns' /\ cleaned' \subseteq patterns'
    BY <1>1, <2>1, <2>2, <2>3 DEF Removed, Redacting
  <2>12. \A other \in FileNames :
           (\A i \in 1 .. Len(job'.files) : job'.files[i] # other) => ContentOf(other)' \cap Goal' = {}
    BY <2>3, <2>10
  <2> QED
    BY <2>9, <2>11, <2>12 DEF Removed
<1>7. CASE CompleteRedaction
  <2>1. /\ pc = "files" /\ job.files = <<>> /\ pc' = "idle" /\ cleaned' = cleaned \cup Goal
        /\ UNCHANGED <<journal, sidecar, log, crate, patterns>>
    BY <1>7 DEF CompleteRedaction, Return, Goal, environment
  <2>2. JournalText \cap Goal = {} /\ \A file \in FileNames : ContentOf(file) \cap Goal = {}
    BY <2>1 DEF Removed
  <2>3. /\ sidecar \cap Goal = {} /\ log \cap Goal = {}
        /\ crate.sidecar \cap Goal = {} /\ crate.log \cap Goal = {} /\ crate.metadata \cap Goal = {}
    BY <2>2 DEF ContentOf, FileNames
  <2>4. \A text \in {JournalText, sidecar, log, crate.sidecar, crate.log, crate.metadata} :
            text \cap cleaned = {} /\ text \cap Goal = {}
    BY <1>2, <2>2, <2>3
  <2>5. RedactionHolds'
    BY <2>1, <2>4 DEF RedactionHolds, JournalText
  <2>6. cleaned' \subseteq patterns'
    BY <1>1, <2>1 DEF Removed, Redacting, Goal
  <2> QED
    BY <2>1, <2>5, <2>6 DEF Removed, Redacting
<1>8. CASE CopyOutput \/ CopyCommand \/ WriteMetadata \/ Embed
  <2>1. UNCHANGED <<journal, sidecar, log, patterns, cleaned>> /\ pc' \notin Redacting
    BY <1>8 DEF CopyOutput, CopyCommand, WriteMetadata, Embed, Redacting, environment, history
  <2>2. WriteMetadata => MetadataText \cap cleaned = {}
    BY <1>1, <1>2, JournalTexts DEF WriteMetadata, Building
  <2>3. crate'.sidecar \cap cleaned = {} /\ crate'.log \cap cleaned = {} /\ crate'.metadata \cap cleaned = {}
    BY <1>2, <1>8, <2>2 DEF CopyOutput, CopyCommand, WriteMetadata, Embed, Types, Crates
  <2>4. RedactionHolds'
    BY <1>2, <2>1, <2>3 DEF RedactionHolds, JournalText
  <2> QED
    BY <1>1, <2>1, <2>4 DEF Removed, Redacting
<1>9. CASE Kill
  <2>1. UNCHANGED <<journal, patterns, cleaned>> /\ pc' \notin Redacting
    BY <1>9 DEF Kill, Return, Redacting, environment
  <2>2. /\ sidecar' \cap cleaned = {} /\ log' \cap cleaned = {}
        /\ crate'.sidecar \cap cleaned = {} /\ crate'.log \cap cleaned = {} /\ crate'.metadata \cap cleaned = {}
    <3>1. CASE UNCHANGED <<sidecar, log, crate>>
      BY <1>2, <3>1
    <3>2. CASE /\ \E text \in Torn(output) : crate' = [crate EXCEPT !.output = text]
               /\ UNCHANGED <<sidecar, log>>
      BY <1>2, <3>2 DEF Types, Crates
    <3>3. CASE /\ pc = "metadata"
               /\ \E text \in Torn(MetadataText) : crate' = [crate EXCEPT !.metadata = text]
               /\ UNCHANGED <<sidecar, log>>
      <4>1. MetadataText \in Texts /\ MetadataText \cap cleaned = {}
        BY <1>1, <1>2, <3>3, JournalTexts DEF Building
      <4>2. PICK text \in Torn(MetadataText) : crate' = [crate EXCEPT !.metadata = text]
        BY <3>3
      <4>3. text \cap cleaned = {}
        BY <1>1, <4>1, <4>2, TornFacts
      <4> QED
        BY <1>2, <3>3, <4>2, <4>3 DEF Types, Crates
    <3>4. CASE /\ job.files # <<>>
               /\ \E text \in Torn(Redacted(Head(job.files), job.pats)) : Put(Head(job.files), text)
      <4>1. Head(job.files) \in FileNames
        BY <3>4, HeadTailProperties DEF Types, Jobs
      <4> PICK file \in FileNames : file = Head(job.files)
        BY <4>1
      <4>2. PICK text \in Torn(Redacted(file, job.pats)) : Put(file, text)
        BY <3>4
      <4>3. /\ Redacted(file, job.pats) \in Texts
            /\ \A gone \in Patterns : ContentOf(file) \cap gone = {} => Redacted(file, job.pats) \cap gone = {}
        BY ContentTexts
      <4>4. text \in Texts /\ (Redacted(file, job.pats) \cap cleaned = {} => text \cap cleaned = {})
        BY <1>1, <4>2, <4>3, TornFacts
      <4>5. /\ ContentOf(file)' = text
            /\ \A other \in FileNames : other # file => ContentOf(other)' = ContentOf(other)
        BY <4>2, <4>4, PutFacts
      <4>6. \A other \in FileNames : ContentOf(other) \cap cleaned = {} => ContentOf(other)' \cap cleaned = {}
        BY <1>1, <4>3, <4>4, <4>5
      <4> QED
        BY <1>2, <4>6 DEF ContentOf, FileNames
    <3> QED
      BY <1>9, <3>1, <3>2, <3>3, <3>4 DEF Kill
  <2>3. RedactionHolds'
    BY <1>2, <2>1, <2>2 DEF RedactionHolds, JournalText
  <2> QED
    BY <1>1, <2>1, <2>3 DEF Removed, Redacting
<1>10. CASE UNCHANGED vars \/ Done \/ RewriteOutput \/ AddPattern
  <2>1. UNCHANGED <<journal, sidecar, log, crate, pc, job, cleaned>> /\ patterns \subseteq patterns'
    BY <1>10 DEF Done, vars, RewriteOutput, AddPattern, disk, environment, history
  <2>2. RedactionHolds' /\ JournalText' = JournalText /\ Goal' = Goal
    BY <1>2, <2>1 DEF RedactionHolds, JournalText, Goal
  <2>3. \A file \in FileNames : ContentOf(file)' = ContentOf(file)
    BY <2>1 DEF ContentOf
  <2>4. cleaned' \subseteq patterns' /\ (pc' \in Redacting => job'.config \subseteq patterns')
    BY <2>1 DEF Removed
  <2>5. pc' = "rewrite" =>
            \A i \in 1 .. Len(job'.snapshot) : job'.snapshot[i].text \cap (cleaned' \cup Goal') = {}
    BY <2>1, <2>2 DEF Removed
  <2>6. pc' = "files" =>
            /\ JournalText' \cap Goal' = {}
            /\ \A file \in FileNames :
                 (\A i \in 1 .. Len(job'.files) : job'.files[i] # file) => ContentOf(file)' \cap Goal' = {}
    BY <2>1, <2>2, <2>3 DEF Removed
  <2> QED
    BY <2>2, <2>4, <2>5, <2>6 DEF Removed
<1>11. CASE \/ BeginCheckpoint \/ HashOutput \/ CompleteCheckpoint \/ BuildRaises \/ Scan \/ RedactionRaises
            \/ Finalize \/ Stage \/ Gate \/ RecordFinalized \/ ExportZip
  <2>1. UNCHANGED <<journal, sidecar, log, crate, cleaned, patterns>>
    BY <1>11 DEF BeginCheckpoint, HashOutput, CompleteCheckpoint, BuildRaises, Scan, RedactionRaises,
                 Finalize, Stage, Gate, RecordFinalized, ExportZip, disk, environment, history
  <2>2. pc' \notin Redacting \/ (pc' = "read" /\ job'.config = patterns)
    <3>1. CASE Scan
      <4>1. PICK policy \in SUBSET {"project"} :
               \/ /\ job' = [NoJob EXCEPT !.work = "redact", !.pats = patterns \cup policy, !.config = patterns]
                  /\ pc' = "read"
               \/ Return
        BY <3>1 DEF Scan
      <4> QED
        BY <4>1 DEF Return, Redacting, NoJob
    <3>2. CASE ~Scan
      BY <1>11, <3>2 DEF BeginCheckpoint, HashOutput, CompleteCheckpoint, BuildRaises, RedactionRaises,
                 Finalize, Stage, Gate, RecordFinalized, ExportZip, Return, Redacting
    <3> QED
      BY <3>1, <3>2
  <2>3. RedactionHolds'
    BY <1>2, <2>1 DEF RedactionHolds, JournalText
  <2> QED
    BY <1>1, <2>1, <2>2, <2>3 DEF Removed, Redacting
<1> QED
  BY <1>3, <1>4, <1>5, <1>6, <1>7, <1>8, <1>9, <1>10, <1>11 DEF Next

-----------------------------------------------------------------------------
(* The theorems.                                                            *)

\* Every step keeps the invariant.
LEMMA PInvStep == PInv /\ [Next]_vars => PInv'
BY TypesStep, ShippedStep, SurvivalStep, FreshStep, RemovedStep DEF PInv

\* The inductive invariant holds in every state: types, what the gate let through,
\* what a redaction holds of the journal, the crate of a run that is not dirty, and
\* what was removed.
THEOREM PublicationInvariant == Spec => []PInv
<1>1. PInv /\ UNCHANGED vars => PInv'
  BY PInvStep
<1> QED
  BY InitPInv, PInvStep, PTL DEF Spec

\* A public archive holds nothing its policy matches, for every text a person, a
\* command or the agent may bring in, every number of commands and every failure.
THEOREM PublicArchivesAreClean == Spec => []PublicHoldsNoSecret
<1>1. PInv => PublicHoldsNoSecret
  BY DEF PInv, Shipped
<1> QED
  BY <1>1, PublicationInvariant, PTL

\* Every archive has metadata that parses and records the hash of what ships.
THEOREM ArchivesVerify == Spec => []ShippedVerifies
<1>1. PInv => ShippedVerifies
  BY DEF PInv, Shipped
<1> QED
  BY <1>1, PublicationInvariant, PTL

\* What a redaction that ended well removed comes back in no record and no crate.
THEOREM RedactionHoldsForGood == Spec => []RedactionHolds
<1>1. PInv => RedactionHolds
  BY DEF PInv, Removed
<1> QED
  BY <1>1, PublicationInvariant, PTL

\* No acknowledged event is lost, but for those appended behind a redaction's back.
THEOREM EventsAlwaysSurvive == Spec => []EventsSurvive
<1>1. PInv => EventsSurvive
  BY DEF PInv, Survival
<1> QED
  BY <1>1, PublicationInvariant, PTL

\* Between commands a run that is not dirty has a crate that verifies.
THEOREM FreshCratesVerify == Spec => []FreshCrateVerifies
<1>1. PInv => FreshCrateVerifies
  BY DEF PInv, Fresh, FreshCrateVerifies, Building, Redacting
<1> QED
  BY <1>1, PublicationInvariant, PTL
=============================================================================
