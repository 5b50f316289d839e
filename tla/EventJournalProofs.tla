------------------------- MODULE EventJournalProofs -------------------------
(* What EventJournal guarantees for every set of processes, every workload  *)
(* and every number of commands.                                            *)
EXTENDS EventJournal, SequenceTheorems, FiniteSetTheorems, TLAPS

-----------------------------------------------------------------------------
(* The operators on lines and jobs.                                         *)

\* Dropping the last line of a journal keeps the others in place.
LEMMA AllButLastFacts ==
    ASSUME NEW s \in Seq(Lines)
    PROVE  /\ AllButLast(s) \in Seq(Lines)
           /\ Len(AllButLast(s)) = IF s = <<>> THEN 0 ELSE Len(s) - 1
           /\ \A i \in 1 .. Len(AllButLast(s)) : AllButLast(s)[i] = s[i]
<1>1. Len(s) \in Nat /\ (s = <<>> <=> Len(s) = 0)
  BY EmptySeq
<1>2. \A i \in 1 .. Len(s) - 1 : s[i] \in Lines
  BY <1>1, ElementOfSeq
<1>3. /\ SubSeq(s, 1, Len(s) - 1) \in Seq(Lines)
      /\ Len(SubSeq(s, 1, Len(s) - 1)) =
           IF 1 <= Len(s) - 1 THEN Len(s) - 1 - 1 + 1 ELSE 0
      /\ \A i \in 1 .. Len(s) - 1 - 1 + 1 : SubSeq(s, 1, Len(s) - 1)[i] = s[1 + i - 1]
  BY <1>1, <1>2, SubSeqProperties
<1> QED
  BY <1>1, <1>3 DEF AllButLast

\* The tip of a journal is a state.
LEMMA TipIsState ==
    ASSUME NEW s \in Seq(Lines)
    PROVE  Tip(s) \in States
<1>1. CASE s = <<>>
  BY <1>1 DEF Tip, States, InitialState, Hashes, NoHash
<1>2. CASE s # <<>>
  <2>1. s[Len(s)] \in Lines
    BY <1>2, ElementOfSeq, EmptySeq
  <2> QED
    BY <1>2, <2>1 DEF Tip, States, Lines, Hashes
<1> QED
  BY <1>1, <1>2

\* An append job is a job, whatever registered type it records.
LEMMA AppendJob ==
    ASSUME NEW type \in EventTypes, NEW id \in Nat
    PROVE  Append1(type, id) \in Jobs
BY DEF Append1, Jobs, States, InitialState, Hashes, NoHash

\* What recovery plans is a list of jobs.
LEMMA RepairIsJobs ==
    ASSUME NEW fix \in Seq(Jobs)
    PROVE  Repair(fix) \in Seq(Jobs)
<1>1. /\ Append1("journal.repair.started", NoCommand) \in Jobs
      /\ Append1("journal.repair.completed", NoCommand) \in Jobs
  BY AppendJob DEF EventTypes, NoCommand
<1>2. /\ <<Append1("journal.repair.started", NoCommand)>> \in Seq(Jobs)
      /\ <<Append1("journal.repair.completed", NoCommand)>> \in Seq(Jobs)
  BY <1>1
<1>3. <<Append1("journal.repair.started", NoCommand)>> \o fix \in Seq(Jobs)
  BY <1>2, ConcatProperties
<1> QED
  BY <1>2, <1>3, ConcatProperties DEF Repair

LEMMA RepairJobsAreJobs ==
    ASSUME NEW s \in Seq(Lines)
    PROVE  RepairJobs(s) \in Seq(Jobs)
<1>1. <<WriteState(Tip(s))>> \in Seq(Jobs)
  BY TipIsState DEF WriteState, Jobs, EventTypes, NoCommand
<1>2. <<>> \in Seq(Jobs)
  OBVIOUS
<1>3. Repair(<<WriteState(Tip(s))>>) \in Seq(Jobs) /\ Repair(<<>>) \in Seq(Jobs)
  BY <1>1, <1>2, RepairIsJobs
<1>4. (IF Lagged(s) THEN Repair(<<WriteState(Tip(s))>>) ELSE <<>>) \in Seq(Jobs)
  BY <1>2, <1>3
<1>5. (IF Torn THEN Repair(<<>>) ELSE <<>>) \in Seq(Jobs)
  BY <1>2, <1>3
<1> QED
  BY <1>4, <1>5, ConcatProperties DEF RepairJobs

-----------------------------------------------------------------------------
(* Type correctness, which rests on the lock: only its holder has orphans,  *)
(* which are positions of the journal, and only its holder writes.          *)

Holding == {"read", "locked", "write", "written"}

LockInv == \A p \in Proc :
    /\ pc[p] \in Holding <=> lock = p
    /\ orphans[p] \subseteq 1 .. Len(journal)
    /\ pc[p] \notin {"locked", "write", "written"} => orphans[p] = {}
    /\ pc[p] \in {"write", "written"} => jobs[p] # <<>>

Shape == TypeOK /\ LockInv

LEMMA GarbledIsLine == Garbled \in Lines
BY DEF Garbled, Lines, Hashes, NoHash, EventTypes, NoCommand

\* The line an append writes is a line.
LEMMA NewLineIsLine ==
    ASSUME TypeOK, NEW p \in Proc, jobs[p] # <<>>
    PROVE  NewLine(p) \in Lines /\ Head(jobs[p]) \in Jobs /\ Tail(jobs[p]) \in Seq(Jobs)
<1>1. jobs[p] \in Seq(Jobs) /\ reg[p] \in States /\ minted \in Nat
  BY DEF TypeOK
<1>2. Head(jobs[p]) \in Jobs /\ Tail(jobs[p]) \in Seq(Jobs)
  BY <1>1, HeadTailProperties
<1> QED
  BY <1>1, <1>2 DEF NewLine, Lines, Jobs, States, Hashes

LEMMA InitShape == Init => Shape
<1> SUFFICES ASSUME Init PROVE Shape
  OBVIOUS
<1> USE ConstantsAssumption DEF Init
<1>1. InitialState \in States
  BY DEF InitialState, States, Hashes, NoHash
<1>2. TypeOK
  BY <1>1 DEF TypeOK, NoCommand, ControlPoints
<1>3. LockInv
  BY DEF LockInv, Holding
<1> QED
  BY <1>2, <1>3 DEF Shape

\* What a step does to the journal keeps every position of it but the last.
LEMMA BeforeTailFacts ==
    ASSUME TypeOK
    PROVE  /\ BeforeTail \in Seq(Lines)
           /\ Len(BeforeTail) \in Nat /\ Len(journal) \in Nat
           /\ Len(journal) <= Len(BeforeTail) + 1
BY AllButLastFacts, EmptySeq DEF TypeOK, BeforeTail

LEMMA ShapeStep == Shape /\ [Next]_vars => Shape'
<1> SUFFICES ASSUME Shape, [Next]_vars PROVE Shape'
  OBVIOUS
<1> USE ConstantsAssumption DEF Shape
<1>1. CASE UNCHANGED vars
  BY <1>1 DEF vars, diskVars, procVars, TypeOK, LockInv
<1>2. ASSUME NEW p \in Proc, Begin(p) PROVE Shape'
  BY <1>2 DEF Begin, Goto, diskVars, TypeOK, LockInv, Holding, ControlPoints
<1>3. ASSUME NEW p \in Proc, Acquire(p) PROVE Shape'
  BY <1>3 DEF Acquire, Goto, diskVars, TypeOK, LockInv, Holding, ControlPoints
<1>4. ASSUME NEW p \in Proc, ReadJournal(p) PROVE Shape'
  <2>1. Parsed \in Seq(Lines) /\ Len(journal) \in Nat
    BY AllButLastFacts DEF Parsed, TypeOK
  <2>2. RepairJobs(Parsed) \in Seq(Jobs)
    BY <2>1, RepairJobsAreJobs
  <2>3. <<Append1("journal.repair.failed", NoCommand)>> \in Seq(Jobs)
    BY AppendJob DEF EventTypes, NoCommand
  <2>4. Orphaned(Parsed) \subseteq 1 .. Len(Parsed) /\ 1 .. Len(Parsed) \subseteq Nat
    BY <2>1 DEF Orphaned
  <2>5. ~Corrupt => journal' = Parsed
    BY <1>4 DEF ReadJournal, Torn, Parsed
  <2>6. TypeOK'
    <3>1. journal' \in Seq(Lines) /\ tail' \in {"none", "partial", "open"}
      BY <1>4, <2>1 DEF ReadJournal, TypeOK
    <3>2. jobs' \in [Proc -> Seq(Jobs)]
      BY <1>4, <2>2, <2>3 DEF ReadJournal, TypeOK
    <3>3. orphans' \in [Proc -> SUBSET Nat]
      BY <1>4, <2>4 DEF ReadJournal, TypeOK
    <3> QED
      BY <1>4, <3>1, <3>2, <3>3 DEF ReadJournal, Goto, TypeOK, ControlPoints
  <2>7. orphans'[p] \subseteq 1 .. Len(journal')
    BY <1>4, <2>4, <2>5 DEF ReadJournal, TypeOK
  <2>8. ASSUME NEW q \in Proc, q # p PROVE orphans'[q] = {} /\ pc'[q] \notin Holding
    BY <1>4, <2>8 DEF ReadJournal, Goto, TypeOK, LockInv, Holding
  <2>9. LockInv'
    BY <1>4, <2>7, <2>8 DEF ReadJournal, Goto, TypeOK, LockInv, Holding
  <2> QED
    BY <2>6, <2>9
<1>5. ASSUME NEW p \in Proc, BlockOrphan(p) PROVE Shape'
  <2> PICK i \in orphans[p] : jobs' = [jobs EXCEPT ![p] =
              <<Append1("journal.repair.started", NoCommand),
                Append1("execution.command.blocked", journal[i].command_id)>>]
          /\ orphans' = [orphans EXCEPT ![p] = @ \ {i}]
    BY <1>5 DEF BlockOrphan
  <2>1. journal[i] \in Lines
    BY ElementOfSeq DEF LockInv, TypeOK
  <2>2. journal[i].command_id \in Nat
    BY <2>1 DEF Lines
  <2>3. <<Append1("journal.repair.started", NoCommand),
          Append1("execution.command.blocked", journal[i].command_id)>> \in Seq(Jobs)
    BY <2>2, AppendJob DEF EventTypes, NoCommand
  <2>4. TypeOK'
    BY <1>5, <2>3 DEF BlockOrphan, diskVars, TypeOK
  <2>5. LockInv'
    BY <1>5 DEF BlockOrphan, diskVars, TypeOK, LockInv, Holding
  <2> QED
    BY <2>4, <2>5
<1>6. ASSUME NEW p \in Proc, RewriteState(p) PROVE Shape'
  <2>1. Head(jobs[p]) \in Jobs /\ Tail(jobs[p]) \in Seq(Jobs)
    BY <1>6, NewLineIsLine DEF RewriteState
  <2>2. TypeOK'
    BY <1>6, <2>1 DEF RewriteState, TypeOK, Jobs
  <2>3. LockInv'
    BY <1>6 DEF RewriteState, TypeOK, LockInv
  <2> QED
    BY <2>2, <2>3
<1>7. ASSUME NEW p \in Proc, LoadState(p) PROVE Shape'
  BY <1>7 DEF LoadState, Goto, diskVars, TypeOK, LockInv, Holding, ControlPoints
<1>8. ASSUME NEW p \in Proc, WriteLine(p) PROVE Shape'
  <2>1. jobs[p] # <<>> /\ lock = p
    BY <1>8 DEF WriteLine, LockInv, Holding
  <2>2. NewLine(p) \in Lines
    BY <2>1, NewLineIsLine
  <2>3. <<Garbled, Garbled>> \in Seq(Lines) /\ Len(<<Garbled, Garbled>>) = 2
    BY GarbledIsLine
  <2>4. journal' \in Seq(Lines) /\ Len(journal) <= Len(journal')
    <3>1. CASE tail = "none" /\ Head(jobs[p]).event_type # "human.separator"
      BY <1>8, <2>2, <3>1, AppendProperties, BeforeTailFacts DEF WriteLine, TypeOK
    <3>2. CASE Head(jobs[p]).event_type = "human.separator"
      BY <1>8, <2>3, <3>2, ConcatProperties, BeforeTailFacts DEF WriteLine
    <3>3. CASE tail # "none" /\ Head(jobs[p]).event_type # "human.separator"
      <4>1. journal' = Append(BeforeTail, Garbled)
        BY <1>8, <3>3 DEF WriteLine
      <4> QED
        BY <4>1, GarbledIsLine, AppendProperties, BeforeTailFacts
    <3> QED
      BY <3>1, <3>2, <3>3
  <2>5. TypeOK'
    <3> DEFINE tip == [sequence |-> reg[p].sequence + 1, last_event_hash |-> minted + 1]
    <3>1. reg[p].sequence \in Nat /\ minted \in Nat
      BY DEF TypeOK, States
    <3>2. tip \in States
      BY <3>1 DEF States, Hashes
    <3>3. reg' = [reg EXCEPT ![p] = tip]
      BY <1>8 DEF WriteLine
    <3>4. reg' \in [Proc -> States]
      BY <3>2, <3>3 DEF TypeOK
    <3> QED
      BY <1>8, <2>4, <3>4 DEF WriteLine, Goto, TypeOK, ControlPoints
  <2>6. 1 .. Len(journal) \subseteq 1 .. Len(journal')
    BY <2>4, BeforeTailFacts, LenProperties
  <2>7. LockInv'
    BY <1>8, <2>1, <2>6 DEF WriteLine, Goto, TypeOK, LockInv, Holding
  <2> QED
    BY <2>5, <2>7
<1>9. ASSUME NEW p \in Proc, BumpState(p) PROVE Shape'
  <2>1. Tail(jobs[p]) \in Seq(Jobs) /\ reg[p].last_event_hash \in Nat
    BY <1>9, NewLineIsLine DEF BumpState, LockInv, TypeOK, States, Hashes
  <2>2. TypeOK'
    BY <1>9, <2>1 DEF BumpState, Goto, TypeOK, ControlPoints
  <2>3. LockInv'
    BY <1>9 DEF BumpState, Goto, TypeOK, LockInv, Holding
  <2> QED
    BY <2>2, <2>3
<1>10. ASSUME NEW p \in Proc, MirrorFails(p) PROVE Shape'
  <2>1. Tail(jobs[p]) \in Seq(Jobs) /\ <<>> \in Seq(Jobs)
    BY <1>10, NewLineIsLine DEF MirrorFails, LockInv
  <2>2. TypeOK'
    <3>1. jobs' \in [Proc -> Seq(Jobs)]
      BY <1>10, <2>1 DEF MirrorFails, Abandon, TypeOK
    <3>2. /\ pc' \in [Proc -> ControlPoints] /\ orphans' \in [Proc -> SUBSET Nat]
          /\ lock' \in Proc \cup {NoProc}
      BY <1>10 DEF MirrorFails, Abandon, Goto, TypeOK, ControlPoints
    <3> QED
      BY <1>10, <3>1, <3>2 DEF MirrorFails, diskVars, TypeOK
  <2>3. LockInv'
    BY <1>10 DEF MirrorFails, Abandon, Goto, diskVars, TypeOK, LockInv, Holding
  <2> QED
    BY <2>2, <2>3
<1>11. ASSUME NEW p \in Proc, Release(p) PROVE Shape'
  BY <1>11 DEF Release, Goto, diskVars, TypeOK, LockInv, Holding, ControlPoints
<1>12. ASSUME NEW p \in Proc, Note(p) \/ StartCommand(p) \/ FinishCommand(p) \/ HookWrite(p)
       PROVE  Shape'
  <2>1. \E type \in EventTypes, id \in Nat, next \in {"idle", "running"} :
          Request(p, type, id, next) /\ pc[p] \notin Holding
    <3>1. CASE Note(p)
      BY <3>1 DEF Note, EventTypes, NoCommand, Holding
    <3>2. CASE StartCommand(p)
      <4>1. state.sequence + 1 \in Nat
        BY DEF TypeOK, States
      <4> QED
        BY <3>2, <4>1 DEF StartCommand, EventTypes, Holding
    <3>3. CASE FinishCommand(p)
      <4>1. cmd[p] \in Nat
        BY DEF TypeOK
      <4> QED
        BY <3>3, <4>1 DEF FinishCommand, EventTypes, Holding
    <3>4. CASE HookWrite(p)
      BY <3>4 DEF HookWrite, EventTypes, NoCommand, Holding
    <3> QED
      BY <1>12, <3>1, <3>2, <3>3, <3>4
  <2> PICK type \in EventTypes, id \in Nat, next \in {"idle", "running"} :
          Request(p, type, id, next) /\ pc[p] \notin Holding
    BY <2>1
  <2>2. <<Append1(type, id)>> \in Seq(Jobs)
    BY AppendJob
  <2>3. state' \in States /\ cmd' \in [Proc -> Nat]
    BY <1>12 DEF Note, StartCommand, FinishCommand, HookWrite, diskVars, TypeOK, States
  <2>4. UNCHANGED <<journal, tail, lock, orphans, reg, left, minted, acked>>
    BY <1>12 DEF Note, StartCommand, FinishCommand, HookWrite, diskVars
  <2>5. TypeOK'
    BY <2>2, <2>3, <2>4 DEF Request, Goto, TypeOK, ControlPoints
  <2>6. LockInv'
    BY <2>4 DEF Request, Goto, TypeOK, LockInv, Holding
  <2> QED
    BY <2>5, <2>6
<1>13. ASSUME NEW p \in Proc, HookLoad(p) PROVE Shape'
  BY <1>13 DEF HookLoad, Goto, diskVars, TypeOK, LockInv, Holding, ControlPoints
<1>14. ASSUME NEW p \in Proc, Crash(p) PROVE Shape'
  BY <1>14 DEF Crash, Abandon, Goto, diskVars, TypeOK, LockInv, Holding, ControlPoints
<1>15. ASSUME NEW p \in Proc, NEW t \in {"partial", "open"}, TornWrite(p, t) PROVE Shape'
  <2>1. jobs[p] # <<>> /\ lock = p
    BY <1>15 DEF TornWrite, LockInv, Holding
  <2>2. NewLine(p) \in Lines
    BY <2>1, NewLineIsLine
  <2>3. journal' \in Seq(Lines)
    <3>1. Append(journal, NewLine(p)) \in Seq(Lines)
      BY <2>2, AppendProperties DEF TypeOK
    <3> QED
      BY <1>15, <3>1, BeforeTailFacts DEF TornWrite
  <2>4. TypeOK'
    BY <1>15, <2>3 DEF TornWrite, Abandon, Goto, TypeOK, ControlPoints
  <2>5. LockInv'
    BY <1>15, <2>1 DEF TornWrite, Abandon, Goto, TypeOK, LockInv, Holding
  <2> QED
    BY <2>4, <2>5
<1> QED
  BY <1>1, <1>2, <1>3, <1>4, <1>5, <1>6, <1>7, <1>8, <1>9, <1>10, <1>11, <1>12, <1>13, <1>14,
     <1>15 DEF Next, Done, ProcNext, Kill

LEMMA ShapeInvariant == Spec => []Shape
BY InitShape, ShapeStep, PTL DEF Spec

\* Every variable keeps its type, whatever the workload and the failures.
THEOREM TypeCorrect == Spec => []TypeOK
<1>1. Shape => TypeOK
  BY DEF Shape
<1> QED
  BY <1>1, ShapeInvariant, PTL

-----------------------------------------------------------------------------
(* The chain under the failures the journal withstands.                     *)

LEMMA InitJournal == Init => JournalInv
<1> SUFFICES ASSUME Init PROVE JournalInv
  OBVIOUS
<1>1. Len(journal) = 0 /\ 1 .. Len(journal) = {}
  BY DEF Init
<1>2. ChainIntact
  BY <1>1 DEF ChainIntact, BadLines, ChainOK
<1>3. \A p \in Proc : Appends(jobs[p])
  BY DEF Init, Appends
<1> QED
  BY <1>1, <1>2, <1>3 DEF Init, JournalInv, HashesAreFresh, Tip

\* An intact journal is parsed whole and lags nothing: recovery plans a marker
\* for a torn tail at most.
LEMMA RecoveryOfIntact ==
    ASSUME Shape, JournalInv, NEW p \in Proc, pc[p] = "read"
    PROVE  /\ Parsed = journal /\ ~Corrupt /\ ChainOK(Parsed)
           /\ Appends(RepairJobs(Parsed))
           /\ Torn <=> tail = "partial"
<1>1. BadLines = {} /\ ChainOK(journal)
  BY DEF JournalInv, ChainIntact
<1>2. Parsed = journal /\ ~Corrupt
  BY <1>1 DEF Parsed, Corrupt
<1>3. Torn <=> tail = "partial"
  BY <1>1, <1>2 DEF Torn
<1>4. \A q \in Proc : pc[q] # "written"
  BY ConstantsAssumption DEF Shape, LockInv, Holding
<1>5. ~Lagged(journal)
  BY <1>4 DEF JournalInv, Lagged
<1>6. RepairJobs(journal) = <<>> \o (IF Torn THEN Repair(<<>>) ELSE <<>>)
  BY <1>5 DEF RepairJobs
<1>7. Appends(RepairJobs(journal))
  <2>1. CASE Torn
    <3> DEFINE started == Append1("journal.repair.started", NoCommand)
               completed == Append1("journal.repair.completed", NoCommand)
    <3>1. <<started>> \in Seq(Jobs) /\ <<completed>> \in Seq(Jobs) /\ <<>> \in Seq(Jobs)
      BY AppendJob DEF EventTypes, NoCommand
    <3>2. RepairJobs(journal) = <<>> \o ((<<started>> \o <<>>) \o <<completed>>)
      BY <1>6, <2>1 DEF Repair
    <3>3. RepairJobs(journal) = <<started>> \o <<completed>>
      BY <3>1, <3>2, ConcatEmptySeq, ConcatProperties
    <3>4. /\ Len(RepairJobs(journal)) = 2
          /\ RepairJobs(journal)[1] = started /\ RepairJobs(journal)[2] = completed
      BY <3>1, <3>3
    <3> QED
      BY <3>4 DEF Appends, Append1
  <2>2. CASE ~Torn
    BY <1>6, <2>2 DEF Appends
  <2> QED
    BY <2>1, <2>2
<1> QED
  BY <1>1, <1>2, <1>3, <1>7

\* Recovery's markers and the events of the commands are appends.
LEMMA Singles ==
    ASSUME NEW type \in EventTypes, NEW id \in Nat, type # "human.separator"
    PROVE  Appends(<<Append1(type, id)>>)
BY DEF Appends, Append1

LEMMA AppendsTail ==
    ASSUME NEW s \in Seq(Jobs), s # <<>>, Appends(s)
    PROVE  Appends(Tail(s)) /\ Head(s).job = "append" /\ Head(s).event_type # "human.separator"
<1>1. Len(Tail(s)) = Len(s) - 1 /\ \A k \in 1 .. Len(Tail(s)) : Tail(s)[k] = s[k + 1]
  BY HeadTailProperties
<1>2. Len(s) \in Nat /\ Len(s) > 0 /\ Head(s) = s[1]
  BY EmptySeq
<1> QED
  BY <1>1, <1>2 DEF Appends

\* The line a lock holder writes behind an intact journal extends the chain.
LEMMA WriteExtends ==
    ASSUME Shape, JournalInv, NEW p \in Proc, WriteLine(p)
    PROVE  /\ journal' = Append(journal, NewLine(p))
           /\ ChainIntact'
           /\ HashesAreFresh'
           /\ reg'[p] = Tip(journal)'
           /\ AllButLast(journal)' = journal /\ journal' # <<>>
           /\ state = Tip(journal) /\ reg[p] = state
<1>1. /\ tail = "none" /\ lock = p /\ jobs[p] # <<>> /\ reg[p] = state
      /\ \A q \in Proc : pc[q] # "written"
  BY ConstantsAssumption DEF WriteLine, Shape, TypeOK, LockInv, Holding, JournalInv
<1>2. state = Tip(journal)
  BY <1>1 DEF JournalInv
<1>3. Head(jobs[p]).event_type # "human.separator"
  BY <1>1, AppendsTail DEF JournalInv, Shape, TypeOK
<1>4. journal' = Append(journal, NewLine(p))
  BY <1>1, <1>3 DEF WriteLine
<1>5. NewLine(p) \in Lines /\ journal \in Seq(Lines) /\ Len(journal) \in Nat
  BY <1>1, NewLineIsLine, EmptySeq DEF Shape, TypeOK
<1>6. /\ Len(journal') = Len(journal) + 1 /\ journal' # <<>>
      /\ \A i \in 1 .. Len(journal) : journal'[i] = journal[i]
      /\ journal'[Len(journal) + 1] = NewLine(p)
  BY <1>4, <1>5, AppendProperties
<1>7. /\ NewLine(p).sequence = state.sequence + 1
      /\ NewLine(p).previous_event_hash = state.last_event_hash
      /\ NewLine(p).event_hash = minted + 1 /\ NewLine(p).parses
  BY <1>1 DEF NewLine
<1>8. /\ journal = <<>> => state.sequence = 0 /\ state.last_event_hash = NoHash
      /\ journal # <<>> => /\ Len(journal) \in 1 .. Len(journal)
                           /\ state.sequence = journal[Len(journal)].sequence
                           /\ state.last_event_hash = journal[Len(journal)].event_hash
      /\ journal = <<>> <=> Len(journal) = 0
  BY <1>2, <1>5, EmptySeq DEF Tip, InitialState
<1>9. state.sequence = Len(journal)
  BY <1>5, <1>8 DEF JournalInv, ChainIntact
<1>10. BadLines' = {}
  BY <1>5, <1>6, <1>7 DEF JournalInv, ChainIntact, BadLines
<1>11. ASSUME NEW i \in 1 .. Len(journal')
       PROVE  journal'[i].previous_event_hash =
                IF i = 1 THEN NoHash ELSE journal'[i - 1].event_hash
  <2>1. CASE i \in 1 .. Len(journal)
    <3>1. i # 1 => i - 1 \in 1 .. Len(journal)
      BY <1>5, <2>1
    <3> QED
      BY <1>6, <2>1, <3>1 DEF JournalInv, ChainIntact, ChainOK
  <2>2. CASE i = Len(journal) + 1
    <3>1. i # 1 => journal # <<>> /\ journal'[i - 1] = journal[Len(journal)]
      BY <1>5, <1>6, <1>8, <2>2
    <3> QED
      BY <1>5, <1>6, <1>7, <1>8, <2>2, <3>1
  <2> QED
    BY <1>5, <1>6, <2>1, <2>2
<1>12. \A i \in 1 .. Len(journal') : journal'[i].sequence = i
  BY <1>5, <1>6, <1>7, <1>9 DEF JournalInv, ChainIntact
<1>13. ChainIntact'
  BY <1>10, <1>11, <1>12 DEF ChainIntact, ChainOK
<1>14. minted \in Nat /\ minted' = minted + 1
  BY DEF WriteLine, Shape, TypeOK
<1>15. HashesAreFresh'
  <2> SUFFICES ASSUME NEW i \in 1 .. Len(journal')
               PROVE  /\ journal'[i].event_hash \in 1 .. minted'
                      /\ \A j \in 1 .. i - 1 : journal'[j].event_hash # journal'[i].event_hash
    BY DEF HashesAreFresh
  <2>1. HashesAreFresh
    BY DEF JournalInv
  <2>2. CASE i \in 1 .. Len(journal)
    BY <1>5, <1>6, <1>14, <2>1, <2>2 DEF HashesAreFresh
  <2>3. CASE i = Len(journal) + 1
    <3>1. journal'[i].event_hash = minted + 1
      BY <1>6, <1>7, <2>3
    <3>2. \A j \in 1 .. i - 1 : journal'[j].event_hash \in 1 .. minted
      BY <1>5, <1>6, <2>1, <2>3 DEF HashesAreFresh
    <3> QED
      BY <1>14, <3>1, <3>2
  <2> QED
    BY <1>5, <1>6, <2>2, <2>3
<1>16. reg'[p] = Tip(journal)'
  <2>1. Tip(journal)' = [sequence |-> NewLine(p).sequence,
                         last_event_hash |-> NewLine(p).event_hash]
    BY <1>6 DEF Tip
  <2>2. reg'[p] = [sequence |-> reg[p].sequence + 1, last_event_hash |-> minted + 1]
    BY DEF WriteLine, Shape, TypeOK
  <2> QED
    BY <1>1, <1>7, <2>1, <2>2
<1>17. AllButLast(journal)' = journal
  BY <1>5, <1>6, SubSeqFull, SubSeqProperties, SeqEqual, ElementOfSeq, LenProperties DEF AllButLast
<1> QED
  BY <1>1, <1>2, <1>4, <1>6, <1>13, <1>15, <1>16, <1>17

\* A step that leaves the files alone and neither enters nor leaves a write keeps
\* JournalInv, if what it requests under the lock are appends.
LEMMA QuietStep ==
    ASSUME JournalInv, TypeOK,
           UNCHANGED <<journal, tail, state, minted>>,
           NEW p \in Proc,
           \A q \in Proc \ {p} : pc'[q] = pc[q] /\ jobs'[q] = jobs[q] /\ reg'[q] = reg[q],
           pc[p] # "written" /\ pc'[p] \notin {"written", "hookwrite"},
           pc'[p] = "write" => reg'[p] = state,
           Appends(jobs'[p]),
           tail = "partial" => pc'[p] \in {"idle", "recover", "read"}
    PROVE  JournalInv'
<1>1. ChainIntact'
  BY DEF JournalInv, ChainIntact, BadLines
<1>2. HashesAreFresh'
  BY DEF JournalInv, HashesAreFresh
<1>3. tail' = "partial" => TornTails # {} /\ \A q \in Proc : pc'[q] \in {"idle", "recover", "read"}
  BY DEF JournalInv
<1>4. (\A q \in Proc : pc'[q] # "written") => state' = Tip(journal')
  BY DEF JournalInv
<1>5. ASSUME NEW q \in Proc
      PROVE  /\ pc'[q] # "hookwrite" /\ Appends(jobs'[q])
             /\ pc'[q] = "write" => reg'[q] = state'
             /\ pc'[q] = "written" => /\ journal' # <<>>
                                      /\ reg'[q] = Tip(journal')
                                      /\ state' = Tip(AllButLast(journal'))
  <2>1. CASE q = p
    BY <2>1 DEF JournalInv
  <2>2. CASE q # p
    BY <2>2 DEF JournalInv
  <2> QED
    BY <2>1, <2>2
<1>6. Tip(journal)' = Tip(journal') /\ Tip(AllButLast(journal))' = Tip(AllButLast(journal'))
  BY DEF Tip, AllButLast
<1> QED
  BY <1>1, <1>2, <1>3, <1>4, <1>5, <1>6 DEF JournalInv

LEMMA JournalStep == SafeFailures /\ Shape /\ JournalInv /\ [Next]_vars => JournalInv'
<1> SUFFICES ASSUME SafeFailures, Shape, JournalInv, [Next]_vars PROVE JournalInv'
  OBVIOUS
<1>a. TypeOK /\ LockInv
  BY DEF Shape
<1>b. Appends(<<>>)
  BY DEF Appends
<1>c. \A p \in Proc : lock = p => \A q \in Proc : pc[q] \in Holding => q = p
  BY <1>a, ConstantsAssumption DEF LockInv
<1>1. CASE UNCHANGED vars
  BY <1>1 DEF vars, diskVars, procVars, JournalInv, ChainIntact, HashesAreFresh, BadLines, Tip, AllButLast
<1>2. ASSUME NEW p \in Proc, Begin(p) \/ Acquire(p) \/ LoadState(p) \/ Release(p)
      PROVE  JournalInv'
  <2>1. UNCHANGED <<journal, tail, state, minted, jobs>> /\ Appends(jobs'[p])
    BY <1>2 DEF Begin, Acquire, LoadState, Release, diskVars, JournalInv
  <2>2. /\ \A q \in Proc \ {p} : pc'[q] = pc[q] /\ jobs'[q] = jobs[q] /\ reg'[q] = reg[q]
        /\ pc[p] # "written" /\ pc'[p] \notin {"written", "hookwrite"}
        /\ pc'[p] = "write" => reg'[p] = state
    BY <1>2, <1>a DEF Begin, Acquire, LoadState, Release, Goto, TypeOK
  <2>3. tail = "partial" => pc'[p] \in {"idle", "recover", "read"}
    BY <1>2, <1>a DEF Begin, Acquire, LoadState, Release, Goto, TypeOK, JournalInv
  <2> QED
    BY <1>a, <2>1, <2>2, <2>3, QuietStep
<1>3. ASSUME NEW p \in Proc, BlockOrphan(p) PROVE JournalInv'
  <2> PICK i \in orphans[p] : jobs' = [jobs EXCEPT ![p] =
              <<Append1("journal.repair.started", NoCommand),
                Append1("execution.command.blocked", journal[i].command_id)>>]
    BY <1>3 DEF BlockOrphan
  <2> DEFINE started == Append1("journal.repair.started", NoCommand)
             blocked == Append1("execution.command.blocked", journal[i].command_id)
  <2>a. jobs'[p] = <<started, blocked>>
    BY <1>a DEF TypeOK
  <2>1. Appends(jobs'[p])
    <3> HIDE DEF started, blocked
    <3>1. /\ started.job = "append" /\ started.event_type # "human.separator"
          /\ blocked.job = "append" /\ blocked.event_type # "human.separator"
      BY DEF started, blocked, Append1
    <3>2. /\ Len(jobs'[p]) = 2
          /\ jobs'[p][1] = started /\ jobs'[p][2] = blocked
      BY <2>a
    <3> QED
      BY <3>1, <3>2 DEF Appends
  <2> QED
    BY <1>3, <1>a, <2>1, QuietStep DEF BlockOrphan, diskVars, TypeOK, JournalInv
<1>4. ASSUME NEW p \in Proc, Note(p) \/ StartCommand(p) \/ FinishCommand(p)
      PROVE  JournalInv'
  <2>1. \E type \in EventTypes \ {"human.separator"}, id \in Nat, next \in {"idle", "running"} :
          Request(p, type, id, next)
    <3>1. CASE Note(p)
      BY <3>1 DEF Note, EventTypes, NoCommand, SafeFailures
    <3>2. CASE StartCommand(p)
      <4>1. state.sequence + 1 \in Nat
        BY <1>a DEF TypeOK, States
      <4> QED
        BY <3>2, <4>1 DEF StartCommand, EventTypes
    <3>3. CASE FinishCommand(p)
      <4>1. cmd[p] \in Nat
        BY <1>a DEF TypeOK
      <4> QED
        BY <3>3, <4>1 DEF FinishCommand, EventTypes
    <3> QED
      BY <1>4, <3>1, <3>2, <3>3
  <2> PICK type \in EventTypes \ {"human.separator"}, id \in Nat, next \in {"idle", "running"} :
          Request(p, type, id, next)
    BY <2>1
  <2>2. jobs'[p] = <<Append1(type, id)>> /\ pc'[p] = "want"
    BY <1>a DEF Request, Goto, TypeOK
  <2>3. Appends(jobs'[p])
    BY <2>2, Singles
  <2>4. /\ UNCHANGED <<journal, tail, state, minted, reg>>
        /\ pc[p] \in {"ready", "running"}
    BY <1>4 DEF Note, StartCommand, FinishCommand, diskVars
  <2>5. \A q \in Proc \ {p} : pc'[q] = pc[q] /\ jobs'[q] = jobs[q] /\ reg'[q] = reg[q]
    BY <1>a, <2>4 DEF Request, Goto, TypeOK
  <2>6. tail # "partial"
    BY <2>4 DEF JournalInv
  <2> QED
    BY <1>a, <2>2, <2>3, <2>4, <2>5, <2>6, QuietStep
<1>5. ASSUME NEW p \in Proc, HookLoad(p) \/ HookWrite(p) \/ MirrorFails(p) \/ RewriteState(p)
      PROVE  FALSE
  <2>1. ~RewriteState(p)
    BY <1>a, AppendsTail DEF RewriteState, JournalInv, TypeOK
  <2> QED
    BY <1>5, <2>1 DEF HookLoad, HookWrite, MirrorFails, SafeFailures, JournalInv
<1>6. ASSUME NEW p \in Proc, Crash(p) PROVE JournalInv'
  <2>1. pc[p] # "written"
    BY <1>6 DEF Crash, SafeFailures
  <2> QED
    BY <1>6, <1>a, <1>b, <2>1, QuietStep DEF Crash, Abandon, Goto, diskVars, TypeOK
<1>7. ASSUME NEW p \in Proc, ReadJournal(p) PROVE JournalInv'
  <2>1. pc[p] = "read" /\ pc' = [pc EXCEPT ![p] = "locked"]
    BY <1>7 DEF ReadJournal, Goto
  <2>2. /\ journal' = journal /\ tail' = "none" /\ state' = state
        /\ minted' = minted /\ reg' = reg
        /\ jobs' = [jobs EXCEPT ![p] = RepairJobs(journal)] /\ Appends(RepairJobs(journal))
    BY <1>7, <1>a, <2>1, RecoveryOfIntact DEF ReadJournal, JournalInv, TypeOK
  <2>3. \A q \in Proc : pc[q] # "written" /\ pc'[q] # "written"
    BY <1>a, <1>c, <2>1 DEF LockInv, Holding, TypeOK
  <2>4. \A q \in Proc : pc'[q] # "hookwrite" /\ (pc'[q] = "write" => reg'[q] = state')
    BY <1>a, <2>1, <2>2 DEF JournalInv, TypeOK
  <2>5. \A q \in Proc : Appends(jobs'[q])
    BY <1>a, <2>2 DEF JournalInv, TypeOK
  <2>6. ChainIntact'
    BY <2>2 DEF JournalInv, ChainIntact, BadLines
  <2>7. state' = Tip(journal)'
    BY <2>2, <2>3 DEF JournalInv
  <2> QED
    BY <2>2, <2>3, <2>4, <2>5, <2>6, <2>7 DEF JournalInv, HashesAreFresh
<1>8. ASSUME NEW p \in Proc, WriteLine(p) PROVE JournalInv'
  <2>1. lock = p /\ tail' = "none" /\ state' = state /\ jobs' = jobs
        /\ pc' = [pc EXCEPT ![p] = "written"]
    BY <1>8, <1>a DEF WriteLine, Goto, LockInv, Holding
  <2>2. \A q \in Proc : q # p => pc'[q] \notin {"write", "written", "hookwrite"}
    BY <1>a, <1>c, <2>1 DEF TypeOK, Holding, JournalInv
  <2>3. \A q \in Proc : Appends(jobs'[q])
    BY <2>1 DEF JournalInv
  <2>4. pc'[p] = "written"
    BY <1>a, <2>1 DEF TypeOK
  <2> QED
    BY <1>8, <2>1, <2>2, <2>3, <2>4, WriteExtends DEF JournalInv
<1>9. ASSUME NEW p \in Proc, BumpState(p) PROVE JournalInv'
  <2>1. /\ lock = p /\ state' = reg[p] /\ pc' = [pc EXCEPT ![p] = "locked"]
        /\ UNCHANGED <<journal, tail, minted, reg>>
        /\ jobs' = [jobs EXCEPT ![p] = Tail(@)] /\ jobs[p] # <<>> /\ pc[p] = "written"
    BY <1>9, <1>a DEF BumpState, Goto, LockInv, Holding
  <2>2. \A q \in Proc : pc'[q] \notin {"write", "written", "hookwrite"}
    BY <1>a, <1>c, <2>1 DEF TypeOK, Holding, JournalInv
  <2>3. \A q \in Proc : Appends(jobs'[q])
    BY <1>a, <2>1, AppendsTail DEF JournalInv, TypeOK
  <2>4. state' = Tip(journal)'
    BY <2>1 DEF JournalInv
  <2>5. ChainIntact'
    BY <2>1 DEF JournalInv, ChainIntact, BadLines
  <2>6. tail # "partial"
    BY <2>1 DEF JournalInv
  <2> QED
    BY <2>1, <2>2, <2>3, <2>4, <2>5, <2>6 DEF JournalInv, HashesAreFresh
<1>10. ASSUME NEW p \in Proc, NEW t \in {"partial", "open"}, TornWrite(p, t) PROVE JournalInv'
  <2>1. t = "partial" /\ TornTails # {} /\ \A q \in Proc : q = p
    BY <1>10 DEF TornWrite, SafeFailures
  <2>2. pc[p] = "write" /\ tail = "none"
    BY <1>10, <1>a DEF TornWrite, JournalInv, TypeOK
  <2>3. /\ journal' = journal /\ tail' = "partial" /\ state' = state /\ minted' = minted + 1
        /\ pc' = [pc EXCEPT ![p] = "idle"] /\ jobs' = [jobs EXCEPT ![p] = <<>>]
    BY <1>10, <2>1, <2>2 DEF TornWrite, Abandon, Goto, BeforeTail
  <2>4. \A q \in Proc : pc[q] # "written" /\ pc'[q] = "idle" /\ Appends(jobs'[q])
    BY <1>a, <1>b, <2>1, <2>2, <2>3 DEF TypeOK
  <2>5. state' = Tip(journal)'
    BY <2>3, <2>4 DEF JournalInv
  <2>6. ChainIntact'
    BY <2>3 DEF JournalInv, ChainIntact, BadLines
  <2>7. HashesAreFresh'
    BY <1>a, <2>3 DEF JournalInv, HashesAreFresh, TypeOK
  <2> QED
    BY <2>1, <2>3, <2>4, <2>5, <2>6, <2>7 DEF JournalInv
<1> QED
  BY <1>1, <1>2, <1>3, <1>4, <1>5, <1>6, <1>7, <1>8, <1>9, <1>10
  DEF Next, Done, ProcNext, Kill

\* Under the failures the journal withstands, for any number of processes, notes,
\* commands and kills, the inductive invariant holds.
THEOREM JournalInvariant == ASSUME SafeFailures PROVE Spec => []JournalInv
<1>1. Init => JournalInv
  BY InitJournal
<1>2. JournalInv /\ Shape /\ [Next]_vars => JournalInv'
  BY JournalStep
<1> QED
  BY <1>1, <1>2, ShapeInvariant, PTL DEF Spec

\* The chain is intact at every step: concurrent appends and recoveries under the
\* run lock never fork, skip or repeat (tests/integration/test_concurrent_journal.py).
THEOREM ChainAlwaysIntact == ASSUME SafeFailures PROVE Spec => []ChainIntact
<1>1. JournalInv => ChainIntact
  BY DEF JournalInv
<1> QED
  BY <1>1, JournalInvariant, PTL

\* Whenever the lock is free, state.json names the journal's last event.
THEOREM StateAlwaysAgrees == ASSUME SafeFailures PROVE Spec => []StateAgrees
<1>1. JournalInv /\ Shape => StateAgrees
  BY ConstantsAssumption DEF JournalInv, Shape, LockInv, Holding, StateAgrees
<1> QED
  BY <1>1, JournalInvariant, ShapeInvariant, PTL

-----------------------------------------------------------------------------
(* Nothing readable is ever lost, whatever the workload and the failures,   *)
(* unless a kill leaves a whole line without its newline.                   *)

Closed == tail # "open"

LEMMA ClosedStep == "open" \notin TornTails /\ Closed /\ [Next]_vars => Closed'
<1> SUFFICES ASSUME "open" \notin TornTails, Closed, [Next]_vars PROVE Closed'
  OBVIOUS
<1> USE DEF Closed
<1>1. ASSUME NEW p \in Proc, ProcNext(p) PROVE Closed'
  BY <1>1 DEF ProcNext, Begin, Acquire, ReadJournal, BlockOrphan, RewriteState, LoadState,
              WriteLine, BumpState, MirrorFails, Release, Note, StartCommand, FinishCommand,
              HookLoad, HookWrite, diskVars
<1>2. ASSUME NEW p \in Proc, Kill(p) PROVE Closed'
  BY <1>2 DEF Kill, Crash, TornWrite, diskVars
<1> QED
  BY <1>1, <1>2 DEF Next, Done, vars, diskVars

LEMMA AppendOnlyStep ==
    ASSUME TypeOK, LockInv, tail # "open", [Next]_vars,
           NEW i \in 1 .. Len(journal), journal[i].parses, "open" \notin TornTails
    PROVE  i <= Len(journal') /\ journal'[i] = journal[i]
<1>0. journal \in Seq(Lines) /\ Len(journal) \in Nat /\ BeforeTail = journal
  BY EmptySeq DEF TypeOK, BeforeTail
<1>1. CASE journal' = journal
  BY <1>0, <1>1
<1>2. ASSUME NEW p \in Proc, ReadJournal(p), journal' # journal
      PROVE  i <= Len(journal') /\ journal'[i] = journal[i]
  <2>1. journal' = AllButLast(journal) /\ Len(journal) \in BadLines
    BY <1>2 DEF ReadJournal, Parsed
  <2>2. i # Len(journal)
    BY <2>1 DEF BadLines
  <2> QED
    BY <1>0, <2>1, <2>2, AllButLastFacts, EmptySeq
<1>3. ASSUME NEW p \in Proc, WriteLine(p)
      PROVE  i <= Len(journal') /\ journal'[i] = journal[i]
  <2>1. NewLine(p) \in Lines
    BY <1>3, NewLineIsLine DEF WriteLine, LockInv
  <2>2. CASE \E l \in Lines : journal' = Append(journal, l)
    BY <1>0, <2>2, AppendProperties
  <2>3. CASE journal' = journal \o <<Garbled, Garbled>>
    <3>1. <<Garbled, Garbled>> \in Seq(Lines) /\ Len(<<Garbled, Garbled>>) = 2
      BY GarbledIsLine
    <3> QED
      BY <1>0, <2>3, <3>1, ConcatProperties
  <2> QED
    BY <1>0, <1>3, <2>1, <2>2, <2>3, GarbledIsLine DEF WriteLine
<1>4. ASSUME NEW p \in Proc, NEW t \in {"partial", "open"}, TornWrite(p, t)
      PROVE  journal' = journal
  BY <1>0, <1>4 DEF TornWrite
<1>5. ASSUME NEW p \in Proc, ProcNext(p), ~ReadJournal(p), ~WriteLine(p)
      PROVE  journal' = journal
  BY <1>5 DEF ProcNext, Begin, Acquire, BlockOrphan, RewriteState, LoadState, BumpState,
              MirrorFails, Release, Note, StartCommand, FinishCommand, HookLoad, HookWrite,
              diskVars
<1>6. ASSUME NEW p \in Proc, Crash(p) PROVE journal' = journal
  BY <1>6 DEF Crash, diskVars
<1> QED
  BY <1>1, <1>2, <1>3, <1>4, <1>5, <1>6 DEF Next, Kill, Done, vars, diskVars

\* No recovery, failure or kill removes or alters a line that was readable.
THEOREM JournalIsAppendOnly == ASSUME "open" \notin TornTails PROVE Spec => AppendOnly
<1>1. Init => Closed
  BY DEF Init, Closed
<1>2. Closed /\ [Next]_vars => Closed'
  BY ClosedStep
<1>3. Shape /\ Closed /\ [Next]_vars => KeepsReadable
  BY AppendOnlyStep DEF Shape, Closed, KeepsReadable
<1> QED
  BY <1>1, <1>2, <1>3, ShapeInvariant, PTL DEF Spec, AppendOnly

-----------------------------------------------------------------------------
(* Refinement: an append is atomic at the bump of state.json.               *)


\* The visible lines are a sequence of entries.
LEMMA AtomicLogIsSeq ==
    ASSUME NEW n \in Nat
    PROVE  /\ [i \in 1 .. n |-> AtomicEntry(journal[i])]
                \in Seq({AtomicEntry(journal[i]) : i \in 1 .. n})
           /\ Len([i \in 1 .. n |-> AtomicEntry(journal[i])]) = n
BY IsASeq, LenProperties

LEMMA AtomicInit == Init => Atomic!Init
<1> SUFFICES ASSUME Init PROVE Atomic!Init
  OBVIOUS
<1>1. Len(journal) = 0 /\ \A p \in Proc : pc[p] # "written"
  BY DEF Init
<1>2. AtomicLog = [i \in 1 .. 0 |-> AtomicEntry(journal[i])]
  BY <1>1 DEF AtomicLog, Visible
<1>3. AtomicLog = <<>>
  BY <1>2, AtomicLogIsSeq, EmptySeq
<1> QED
  BY <1>3 DEF Init, Atomic!Init, InitialState, NoHash, Atomic!NoHash

\* The bump makes the written line the last entry and state.json its name.
LEMMA BumpAppends ==
    ASSUME Shape, JournalInv, NEW p \in Proc, BumpState(p)
    PROVE  Atomic!Append1
<1>0. PICK n \in Nat : Len(journal) = n + 1
  <2>1. journal # <<>>
    BY DEF JournalInv, BumpState
  <2>2. Len(journal) \in Nat \ {0}
    <3>1. journal \in Seq(Lines)
      BY DEF Shape, TypeOK
    <3> QED
      BY <2>1, <3>1, EmptySeq
  <2>3. Len(journal) - 1 \in Nat /\ Len(journal) = (Len(journal) - 1) + 1
    BY <2>2
  <2> QED
    BY <2>3
<1> DEFINE l == journal[n + 1]
<1>1. /\ journal # <<>> /\ reg[p] = Tip(journal) /\ state = Tip(AllButLast(journal))
      /\ journal' = journal /\ state' = reg[p] /\ pc[p] = "written"
      /\ pc' = [pc EXCEPT ![p] = "locked"] /\ lock = p
  BY DEF JournalInv, BumpState, Goto, Shape, LockInv, Holding
<1>2. \A q \in Proc : pc'[q] # "written"
  BY <1>1, ConstantsAssumption DEF Shape, TypeOK, LockInv, Holding
<1>3. Visible = n /\ Visible' = n + 1
  BY <1>0, <1>1, <1>2 DEF Visible
<1>4. /\ journal \in Seq(Lines) /\ l \in Lines
      /\ n + 1 \in 1 .. Len(journal)
      /\ n # 0 => n \in 1 .. Len(journal)
  BY <1>0, ElementOfSeq DEF Shape, TypeOK
<1>5. ChainIntact /\ HashesAreFresh
  BY DEF JournalInv
<1>6. state = [sequence |-> n, last_event_hash |-> l.previous_event_hash]
  <2>1. l.previous_event_hash = IF n = 0 THEN NoHash ELSE journal[n].event_hash
    <3>1. (n + 1) - 1 = n /\ (n + 1 = 1 <=> n = 0)
      OBVIOUS
    <3>2. l.previous_event_hash = IF n + 1 = 1 THEN NoHash ELSE journal[(n + 1) - 1].event_hash
      BY <1>4, <1>5 DEF ChainIntact, ChainOK
    <3> QED
      BY <3>1, <3>2
  <2>2. CASE n = 0
    <3>1. AllButLast(journal) = <<>>
      BY <1>0, <1>1, <1>4, <2>2, AllButLastFacts, EmptySeq
    <3> QED
      BY <1>1, <2>1, <2>2, <3>1 DEF Tip, InitialState
  <2>3. CASE n # 0
    <3>1. /\ AllButLast(journal) \in Seq(Lines) /\ Len(AllButLast(journal)) = n
          /\ AllButLast(journal)[n] = journal[n]
      BY <1>0, <1>1, <1>4, <2>3, AllButLastFacts
    <3>2. AllButLast(journal) # <<>>
      BY <2>3, <3>1, EmptySeq
    <3> QED
      <4>1. state = [sequence |-> journal[n].sequence, last_event_hash |-> journal[n].event_hash]
        BY <1>1, <3>1, <3>2 DEF Tip
      <4>2. journal[n].sequence = n
        BY <1>4, <1>5, <2>3 DEF ChainIntact
      <4> QED
        BY <2>1, <2>3, <4>1, <4>2
  <2> QED
    BY <2>2, <2>3
<1>7. l.sequence = n + 1 /\ l.event_hash # NoHash
      /\ \A i \in 1 .. n : journal[i].event_hash # l.event_hash
  <2>1. l.sequence = n + 1
    BY <1>4, <1>5 DEF ChainIntact
  <2>2. /\ l.event_hash \in 1 .. minted
        /\ \A j \in 1 .. (n + 1) - 1 : journal[j].event_hash # l.event_hash
    BY <1>4, <1>5 DEF HashesAreFresh
  <2>3. minted \in Nat
    BY DEF Shape, TypeOK
  <2> QED
    BY <2>1, <2>2, <2>3 DEF NoHash
<1>8. state' = [sequence |-> state.sequence + 1, last_event_hash |-> l.event_hash]
  BY <1>0, <1>1, <1>6, <1>7 DEF Tip
<1>9. AtomicEntry(l) = [event_hash |-> l.event_hash, sequence |-> state.sequence + 1,
                        previous_event_hash |-> state.last_event_hash]
  BY <1>6, <1>7 DEF AtomicEntry
<1>10. /\ AtomicLog = [i \in 1 .. n |-> AtomicEntry(journal[i])]
       /\ AtomicLog' = [i \in 1 .. n + 1 |-> AtomicEntry(journal[i])]
  BY <1>1, <1>3 DEF AtomicLog, AtomicEntry
<1>11. AtomicLog' = Append(AtomicLog, AtomicEntry(l))
  <2> DEFINE S == {AtomicEntry(journal[i]) : i \in 1 .. n + 1}
  <2>1. AtomicLog \in Seq(S) /\ Len(AtomicLog) = n /\ AtomicEntry(l) \in S
    <3>1. \A i \in 1 .. n : AtomicEntry(journal[i]) \in S
      BY <1>4
    <3>2. AtomicEntry(l) \in S
      BY <1>4
    <3> HIDE DEF S
    <3> QED
      BY <1>4, <1>10, <3>1, <3>2, IsASeq, LenProperties
  <2>2. AtomicLog' \in Seq(S) /\ Len(AtomicLog') = n + 1
    <3>1. \A i \in 1 .. n + 1 : AtomicEntry(journal[i]) \in S
      OBVIOUS
    <3> HIDE DEF S
    <3> QED
      BY <1>4, <1>10, <3>1, IsASeq, LenProperties
  <2> HIDE DEF S
  <2>3. /\ Append(AtomicLog, AtomicEntry(l)) \in Seq(S)
        /\ Len(Append(AtomicLog, AtomicEntry(l))) = n + 1
        /\ \A i \in 1 .. n : Append(AtomicLog, AtomicEntry(l))[i] = AtomicLog[i]
        /\ Append(AtomicLog, AtomicEntry(l))[n + 1] = AtomicEntry(l)
    BY <2>1, AppendProperties
  <2>4. \A i \in 1 .. n + 1 : AtomicLog'[i] = Append(AtomicLog, AtomicEntry(l))[i]
    <3>1. AtomicLog'[n + 1] = AtomicEntry(l)
      BY <1>10
    <3>2. ASSUME NEW i \in 1 .. n PROVE AtomicLog'[i] = AtomicLog[i]
      BY <1>10
    <3> QED
      BY <2>3, <3>1, <3>2
  <2> QED
    BY <2>2, <2>3, <2>4, SeqEqual
<1>12. Len(AtomicLog) = n /\ \A i \in 1 .. n : AtomicLog[i].event_hash = journal[i].event_hash
  BY <1>4, <1>10, AtomicLogIsSeq DEF AtomicEntry
<1> QED
  BY <1>7, <1>8, <1>9, <1>11, <1>12 DEF Atomic!Append1, Atomic!NoHash, NoHash

\* Every other step leaves the visible lines and state.json alone.
LEMMA OthersStutter ==
    ASSUME SafeFailures, Shape, JournalInv, JournalInv', Shape', [Next]_vars,
           \A p \in Proc : ~BumpState(p)
    PROVE  UNCHANGED <<AtomicLog, state>>
<1>a. /\ TypeOK /\ LockInv /\ journal \in Seq(Lines) /\ Len(journal) \in Nat
  BY EmptySeq DEF Shape, TypeOK
<1>1. CASE UNCHANGED <<journal, state>> /\ \A p \in Proc : pc'[p] = "written" <=> pc[p] = "written"
  BY <1>1 DEF AtomicLog, Visible, AtomicEntry
<1>2. ASSUME NEW p \in Proc, WriteLine(p) PROVE UNCHANGED <<AtomicLog, state>>
  <2>1. /\ journal' = Append(journal, NewLine(p)) /\ state' = state
        /\ pc'[p] = "written" /\ lock = p
    BY <1>a, <1>2, WriteExtends DEF WriteLine, Goto, TypeOK, LockInv, Holding
  <2>2. \A q \in Proc : pc[q] # "written"
    BY <1>2, <1>a, <2>1, ConstantsAssumption DEF WriteLine, LockInv, Holding
  <2>3. NewLine(p) \in Lines
    BY <1>2, <1>a, NewLineIsLine DEF WriteLine, LockInv
  <2>4. Len(journal') = Len(journal) + 1 /\ \A i \in 1 .. Len(journal) : journal'[i] = journal[i]
    BY <1>a, <2>1, <2>3, AppendProperties
  <2>5. Visible = Len(journal) /\ Visible' = Len(journal)
    BY <1>a, <2>1, <2>2, <2>4 DEF Visible
  <2> QED
    BY <2>1, <2>4, <2>5 DEF AtomicLog, AtomicEntry
<1>3. ASSUME NEW p \in Proc, ReadJournal(p)
      PROVE  /\ UNCHANGED <<journal, state>>
             /\ \A q \in Proc : pc'[q] = "written" <=> pc[q] = "written"
  BY <1>a, <1>3, RecoveryOfIntact DEF ReadJournal, Goto, TypeOK
<1>4. ASSUME NEW p \in Proc, NEW t \in {"partial", "open"}, TornWrite(p, t)
      PROVE  /\ UNCHANGED <<journal, state>>
             /\ \A q \in Proc : pc'[q] = "written" <=> pc[q] = "written"
  BY <1>a, <1>4 DEF TornWrite, Abandon, Goto, BeforeTail, SafeFailures, JournalInv, TypeOK
<1>5. ASSUME NEW p \in Proc, RewriteState(p) PROVE FALSE
  BY <1>a, <1>5, AppendsTail DEF RewriteState, JournalInv, TypeOK
<1>6. ASSUME NEW p \in Proc, Crash(p)
      PROVE  /\ UNCHANGED <<journal, state>>
             /\ \A q \in Proc : pc'[q] = "written" <=> pc[q] = "written"
  BY <1>a, <1>6 DEF Crash, Abandon, Goto, diskVars, SafeFailures, TypeOK
<1>7. ASSUME NEW p \in Proc, ProcNext(p), ~WriteLine(p), ~ReadJournal(p), ~RewriteState(p)
      PROVE  /\ UNCHANGED <<journal, state>>
             /\ \A q \in Proc : pc'[q] = "written" <=> pc[q] = "written"
  <2>1. ~MirrorFails(p) /\ ~HookLoad(p) /\ ~HookWrite(p)
    BY DEF MirrorFails, HookLoad, HookWrite, SafeFailures, JournalInv
  <2>2. \/ Begin(p) \/ Acquire(p) \/ BlockOrphan(p) \/ LoadState(p) \/ Release(p)
        \/ Note(p) \/ StartCommand(p) \/ FinishCommand(p)
    BY <1>7, <2>1 DEF ProcNext
  <2>3. UNCHANGED <<journal, state>>
    BY <2>2 DEF Begin, Acquire, BlockOrphan, LoadState, Release, Note, StartCommand,
                FinishCommand, diskVars
  <2>4. \A q \in Proc : pc'[q] = "written" <=> pc[q] = "written"
    BY <1>a, <2>2 DEF Begin, Acquire, BlockOrphan, LoadState, Release, Note, StartCommand,
                FinishCommand, Request, Goto, TypeOK
  <2> QED
    BY <2>3, <2>4
<1>8. CASE UNCHANGED vars
  BY <1>1, <1>8 DEF vars, diskVars, procVars
<1> QED
  BY <1>1, <1>2, <1>3, <1>4, <1>5, <1>6, <1>7, <1>8 DEF Next, Done, Kill

\* EventJournal implements AtomicJournal: callers may take append for one step.
THEOREM AppendIsAtomic == ASSUME SafeFailures PROVE Spec => ImplementsAtomicJournal
<1>1. Init => Atomic!Init
  BY AtomicInit
<1>2. Shape /\ JournalInv /\ Shape' /\ JournalInv' /\ [Next]_vars
        => [Atomic!Append1]_<<AtomicLog, state>>
  <2> SUFFICES ASSUME Shape, JournalInv, Shape', JournalInv', [Next]_vars
               PROVE  [Atomic!Append1]_<<AtomicLog, state>>
    OBVIOUS
  <2>1. CASE \E p \in Proc : BumpState(p)
    BY <2>1, BumpAppends
  <2>2. CASE \A p \in Proc : ~BumpState(p)
    BY <2>2, OthersStutter
  <2> QED
    BY <2>1, <2>2
<1> QED
  BY <1>1, <1>2, JournalInvariant, ShapeInvariant, PTL DEF Spec, ImplementsAtomicJournal, Atomic!Spec

-----------------------------------------------------------------------------
(* What becomes of acknowledged events and of commands, for every workload  *)
(* and every number of commands: nothing acknowledged is lost, and with one  *)
(* process each command is started once, ended at most once, and ended for   *)
(* certain once recovery has run.                                            *)

-----------------------------------------------------------------------------
(* Commands in a journal.                                                    *)

IsStart(l) == l.event_type = "execution.command.started"
IsEnd(l) == l.event_type \in CommandTerminalEvents

\* A command goes by the position of its started event; an end belongs to one that
\* started, and no two ends to the same.
Numbered(s) ==
    /\ \A i \in 1 .. Len(s) :
         /\ IsStart(s[i]) => s[i].command_id = i
         /\ IsEnd(s[i]) => s[i].command_id \in 1 .. Len(s) /\ IsStart(s[s[i].command_id])
         /\ IsStart(s[i]) \/ IsEnd(s[i]) \/ s[i].command_id = NoCommand
    /\ \A i, j \in 1 .. Len(s) :
         IsEnd(s[i]) /\ IsEnd(s[j]) /\ s[i].command_id = s[j].command_id => i = j

\* One process, killed and started again: another one's recovery would mark a
\* running command abandoned.
OneProcess == \A p, q \in Proc : p = q

Appending == {"locked", "write", "written"}

\* The jobs of a process that are not in the journal yet.
Rest(p) == IF pc[p] = "written" THEN Tail(jobs[p]) ELSE jobs[p]

Marker(j) == ~IsStart(j) /\ ~IsEnd(j) /\ j.command_id = NoCommand

\* The commands these jobs end.
Ended(s) == {s[k].command_id : k \in {n \in 1 .. Len(s) : IsEnd(s[n])}}

\* Recovery has each command that has not ended before it, or ends it now.
Recovering(p) ==
    /\ \A k \in 1 .. Len(Rest(p)) : Marker(Rest(p)[k]) \/ (IsEnd(Rest(p)[k]) /\ k = Len(Rest(p)))
    /\ Orphaned(journal) = orphans[p] \cup Ended(Rest(p))
    /\ orphans[p] \cap Ended(Rest(p)) = {}

\* rcr run has its started event before it, or behind it.
Starting(p) ==
    \/ /\ Rest(p) = <<Append1("execution.command.started", cmd[p])>>
       /\ cmd[p] = Len(journal) + 1
       /\ Orphaned(journal) = {}
    \/ /\ pc[p] # "want"
       /\ Rest(p) = <<>>
       /\ Orphaned(journal) = {cmd[p]}

\* The last event of a command of the user, before it or behind it.
Ending(p) ==
    \/ Rest(p) = <<Append1("human.note", NoCommand)>> /\ Orphaned(journal) = {}
    \/ Rest(p) = <<Append1("execution.command.completed", cmd[p])>> /\ Orphaned(journal) = {cmd[p]}
    \/ Rest(p) = <<>> /\ Orphaned(journal) = {}

CommandOf(p) ==
    /\ pc[p] \in {"recover", "read"} => after[p] = "ready"
    /\ pc[p] = "want" => after[p] # "ready"
    /\ pc[p] = "ready" => Orphaned(journal) = {}
    /\ pc[p] = "running" => Orphaned(journal) = {cmd[p]}
    /\ pc[p] \in Appending /\ after[p] = "ready" => Recovering(p)
    /\ pc[p] \in Appending \cup {"want"} /\ after[p] = "running" => orphans[p] = {} /\ Starting(p)
    /\ pc[p] \in Appending \cup {"want"} /\ after[p] = "idle" => orphans[p] = {} /\ Ending(p)

CommandInv == Numbered(journal) /\ \A p \in Proc : CommandOf(p)

\* A line behind a numbered journal: what it starts has not ended, what it ends
\* was open, and it leaves every other command as it was.
LEMMA AppendedLine ==
    ASSUME NEW s \in Seq(Lines), NEW l \in Lines, Numbered(s)
    PROVE  /\ ~IsStart(l) /\ ~IsEnd(l) /\ l.command_id = NoCommand =>
                Numbered(Append(s, l)) /\ Orphaned(Append(s, l)) = Orphaned(s)
           /\ IsStart(l) /\ l.command_id = Len(s) + 1 =>
                Numbered(Append(s, l)) /\ Orphaned(Append(s, l)) = Orphaned(s) \cup {Len(s) + 1}
           /\ IsEnd(l) /\ l.command_id \in Orphaned(s) =>
                Numbered(Append(s, l)) /\ Orphaned(Append(s, l)) = Orphaned(s) \ {l.command_id}
<1> DEFINE t == Append(s, l)
           n == Len(s) + 1
<1>1. /\ Len(s) \in Nat /\ n \in Nat /\ Len(t) = n
      /\ \A i \in 1 .. Len(s) : t[i] = s[i] /\ i \in 1 .. n /\ i # n
      /\ t[n] = l /\ n \in 1 .. n /\ n \notin 1 .. Len(s)
      /\ \A i \in 1 .. n : i \in 1 .. Len(s) \/ i = n
  BY AppendProperties, EmptySeq
<1>2. \A x : ~(IsStart(x) /\ IsEnd(x))
  BY DEF IsStart, IsEnd, CommandTerminalEvents
<1>3. /\ \A i \in 1 .. Len(s) : /\ IsStart(s[i]) => s[i].command_id = i
                                /\ IsEnd(s[i]) => /\ s[i].command_id \in 1 .. Len(s)
                                                  /\ IsStart(s[s[i].command_id])
                                /\ IsStart(s[i]) \/ IsEnd(s[i]) \/ s[i].command_id = NoCommand
      /\ \A i, j \in 1 .. Len(s) :
           IsEnd(s[i]) /\ IsEnd(s[j]) /\ s[i].command_id = s[j].command_id => i = j
  BY DEF Numbered
<1>4. \A r \in Seq(Lines) : Orphaned(r) = {i \in 1 .. Len(r) :
          /\ IsStart(r[i])
          /\ ~ \E j \in 1 .. Len(r) : IsEnd(r[j]) /\ r[j].command_id = r[i].command_id}
  BY DEF Orphaned, IsStart, IsEnd
<1>5. t \in Seq(Lines)
  BY AppendProperties
<1>6. \A i : i \in Orphaned(s) <=> /\ i \in 1 .. Len(s) /\ IsStart(s[i])
                                   /\ \A j \in 1 .. Len(s) : IsEnd(s[j]) => s[j].command_id # i
  BY <1>3, <1>4
<1>7. \A i : i \in Orphaned(t) <=> /\ i \in 1 .. n /\ IsStart(t[i])
                                   /\ \A j \in 1 .. n : IsEnd(t[j]) => t[j].command_id # t[i].command_id
  <2> HIDE DEF t
  <2>1. Orphaned(t) = {i \in 1 .. Len(t) :
          /\ IsStart(t[i])
          /\ ~ \E j \in 1 .. Len(t) : IsEnd(t[j]) /\ t[j].command_id = t[i].command_id}
    BY <1>4, <1>5
  <2>2. Len(t) = n
    BY <1>1
  <2> HIDE DEF n
  <2> QED
    BY <2>1, <2>2, Zenon
<1>8. \A i \in 1 .. Len(s) : i \in Orphaned(t) <=>
         i \in Orphaned(s) /\ (IsEnd(l) => l.command_id # i)
  BY <1>1, <1>3, <1>6, <1>7
<1> HIDE DEF t, n
<1>9. CASE ~IsStart(l) /\ ~IsEnd(l) /\ l.command_id = NoCommand
  <2>1. Numbered(t)
    BY <1>1, <1>3, <1>9 DEF Numbered
  <2>2. Orphaned(t) = Orphaned(s)
    BY <1>1, <1>6, <1>7, <1>8, <1>9
  <2> QED
    BY <1>9, <2>1, <2>2 DEF t
<1>10. CASE IsStart(l) /\ l.command_id = n
  <2>1. ~IsEnd(l)
    BY <1>2, <1>10
  <2>2. Numbered(t)
    BY <1>1, <1>3, <1>10, <2>1 DEF Numbered
  <2>3. n \in Orphaned(t)
    BY <1>1, <1>3, <1>7, <1>10, <2>1
  <2>4. Orphaned(t) = Orphaned(s) \cup {n}
    BY <1>1, <1>6, <1>7, <1>8, <2>1, <2>3
  <2> QED
    BY <1>10, <2>1, <2>2, <2>4 DEF t, n
<1>11. CASE IsEnd(l) /\ l.command_id \in Orphaned(s)
  <2>1. ~IsStart(l)
    BY <1>2, <1>11
  <2>2. /\ l.command_id \in 1 .. Len(s) /\ IsStart(s[l.command_id])
        /\ \A j \in 1 .. Len(s) : IsEnd(s[j]) => s[j].command_id # l.command_id
    BY <1>6, <1>11
  <2>3. Numbered(t)
    <3>1. \A i \in 1 .. n : /\ IsStart(t[i]) => t[i].command_id = i
                            /\ IsEnd(t[i]) => t[i].command_id \in 1 .. n /\ IsStart(t[t[i].command_id])
                            /\ IsStart(t[i]) \/ IsEnd(t[i]) \/ t[i].command_id = NoCommand
      BY <1>1, <1>3, <1>11, <2>1, <2>2
    <3>2. \A i, j \in 1 .. n : IsEnd(t[i]) /\ IsEnd(t[j]) /\ t[i].command_id = t[j].command_id => i = j
      BY <1>1, <1>3, <2>2
    <3> QED
      BY <1>1, <3>1, <3>2 DEF Numbered
  <2>4. Orphaned(t) = Orphaned(s) \ {l.command_id}
    BY <1>1, <1>6, <1>7, <1>8, <1>11, <2>1
  <2> QED
    BY <1>11, <2>1, <2>3, <2>4 DEF t
<1> QED
  BY <1>2, <1>9, <1>10, <1>11 DEF t, n

\* The open commands of a journal are positions of started events.
LEMMA OrphanedFacts ==
    ASSUME NEW s \in Seq(Lines), Numbered(s)
    PROVE  /\ Orphaned(s) \subseteq 1 .. Len(s)
           /\ \A i \in Orphaned(s) : s[i].command_id = i
BY DEF Orphaned, Numbered, IsStart

-----------------------------------------------------------------------------
(* Nothing acknowledged is lost.                                             *)

\* An append returns when its line has been read back from the journal's tip.
LEMMA DurableStep ==
    ASSUME SafeFailures, Shape, JournalInv, Durable, [Next]_vars
    PROVE  Durable'
<1>1. \A i \in 1 .. Len(journal) : journal[i].parses => i <= Len(journal') /\ journal'[i] = journal[i]
  BY AppendOnlyStep DEF SafeFailures, Shape, JournalInv
<1>2. Len(journal) \in Nat /\ Len(journal') \in Nat
  <2>1. journal \in Seq(Lines)
    BY DEF Shape, TypeOK
  <2>2. journal' \in Seq(Lines)
    BY ShapeStep DEF Shape, TypeOK
  <2> QED
    BY <2>1, <2>2
<1>3. ASSUME NEW h \in acked
      PROVE  \E i \in 1 .. Len(journal') : journal'[i].parses /\ journal'[i].event_hash = h
  BY <1>1, <1>2 DEF Durable
<1>4. CASE acked' = acked
  BY <1>3, <1>4 DEF Durable
<1>5. CASE \E p \in Proc : BumpState(p)
  <2>1. PICK p \in Proc : BumpState(p)
    BY <1>5
  <2>2. journal' = journal /\ acked' = acked \cup {reg[p].last_event_hash} /\ pc[p] = "written"
    BY <2>1 DEF BumpState
  <2>3. journal # <<>> /\ reg[p] = Tip(journal) /\ BadLines = {}
    BY <2>2 DEF JournalInv, ChainIntact
  <2>4. Len(journal) \in 1 .. Len(journal)
    BY <2>3, EmptySeq DEF Shape, TypeOK
  <2>5. journal[Len(journal)].parses /\ journal[Len(journal)].event_hash = reg[p].last_event_hash
    BY <2>3, <2>4 DEF Tip, BadLines
  <2> QED
    BY <1>3, <2>2, <2>4, <2>5 DEF Durable
<1>6. acked' = acked \/ \E p \in Proc : BumpState(p)
  BY DEF Next, Done, ProcNext, Kill, Begin, Acquire, ReadJournal, BlockOrphan, RewriteState, LoadState,
         WriteLine, MirrorFails, Release, Note, StartCommand, FinishCommand, HookLoad, HookWrite, Crash,
         TornWrite, vars
<1> QED
  BY <1>4, <1>5, <1>6

\* An event whose append returned stays readable, whatever is killed and truncated
\* afterwards, for any number of processes.
THEOREM AcknowledgedIsDurable == ASSUME SafeFailures PROVE Spec => []Durable
<1>1. Init => Durable
  BY DEF Init, Durable
<1>2. Shape /\ JournalInv /\ Durable /\ [Next]_vars => Durable'
  BY DurableStep
<1> QED
  BY <1>1, <1>2, ShapeInvariant, JournalInvariant, PTL DEF Spec

-----------------------------------------------------------------------------
(* Commands of one process.                                                  *)

\* What the jobs of a process end.
LEMMA EndedFacts ==
    /\ Ended(<<>>) = {}
    /\ \A s \in Seq(Jobs) : s # <<>> /\ ~IsEnd(Head(s)) => Ended(Tail(s)) = Ended(s)
    /\ \A s : Len(s) = 1 /\ IsEnd(s[1]) => Ended(s) = {s[1].command_id}
<1>1. Ended(<<>>) = {}
  BY DEF Ended
<1>2. ASSUME NEW s \in Seq(Jobs), s # <<>>, ~IsEnd(Head(s)) PROVE Ended(Tail(s)) = Ended(s)
  <2>1. /\ Len(s) \in Nat \ {0} /\ Len(Tail(s)) = Len(s) - 1 /\ Head(s) = s[1]
        /\ \A k \in 1 .. Len(Tail(s)) : Tail(s)[k] = s[k + 1]
    BY <1>2, HeadTailProperties, EmptySeq
  <2>2. ASSUME NEW k \in 1 .. Len(s), IsEnd(s[k])
        PROVE  k - 1 \in 1 .. Len(Tail(s)) /\ Tail(s)[k - 1] = s[k]
    <3>1. k # 1
      BY <1>2, <2>1, <2>2
    <3> QED
      BY <2>1, <3>1
  <2>3. \A k \in 1 .. Len(Tail(s)) : k + 1 \in 1 .. Len(s)
    BY <2>1
  <2>4. Ended(s) \subseteq Ended(Tail(s))
    BY <2>2 DEF Ended
  <2>5. Ended(Tail(s)) \subseteq Ended(s)
    BY <2>1, <2>3 DEF Ended
  <2> QED
    BY <2>4, <2>5
<1>3. ASSUME NEW s, Len(s) = 1, IsEnd(s[1]) PROVE Ended(s) = {s[1].command_id}
  BY <1>3 DEF Ended
<1> QED
  BY <1>1, <1>2, <1>3

\* Recovery of an intact journal plans markers only.
LEMMA RepairIsMarkers ==
    ASSUME Shape, JournalInv, NEW p \in Proc, pc[p] = "read"
    PROVE  /\ RepairJobs(Parsed) \in Seq(Jobs)
           /\ \A k \in 1 .. Len(RepairJobs(Parsed)) : Marker(RepairJobs(Parsed)[k])
<1> DEFINE started == Append1("journal.repair.started", NoCommand)
           completed == Append1("journal.repair.completed", NoCommand)
<1>1. Parsed = journal /\ journal \in Seq(Lines)
  BY RecoveryOfIntact DEF Shape, TypeOK
<1>2. ~Lagged(journal)
  BY ConstantsAssumption DEF Shape, LockInv, Holding, JournalInv, Lagged
<1>3. started \in Jobs /\ completed \in Jobs /\ Marker(started) /\ Marker(completed)
  BY AppendJob DEF EventTypes, NoCommand, Marker, IsStart, IsEnd, CommandTerminalEvents, Append1
<1> HIDE DEF started, completed
<1>4. <<started>> \in Seq(Jobs) /\ <<completed>> \in Seq(Jobs) /\ <<>> \in Seq(Jobs)
  BY <1>3
<1>5. RepairJobs(journal) = <<>> \o (IF Torn THEN (<<started>> \o <<>>) \o <<completed>> ELSE <<>>)
  BY <1>2 DEF RepairJobs, Repair, started, completed
<1>6. RepairJobs(journal) = IF Torn THEN <<started>> \o <<completed>> ELSE <<>>
  BY <1>4, <1>5, ConcatEmptySeq, ConcatProperties
<1>7. /\ Len(<<started>> \o <<completed>>) = 2
      /\ (<<started>> \o <<completed>>)[1] = started /\ (<<started>> \o <<completed>>)[2] = completed
  BY <1>4
<1> QED
  BY <1>1, <1>3, <1>6, <1>7, RepairJobsAreJobs

\* The line of an append carries the type and the command of its job.
LEMMA LineOfJob ==
    ASSUME NEW p \in Proc
    PROVE  /\ IsStart(NewLine(p)) <=> IsStart(Head(jobs[p]))
           /\ IsEnd(NewLine(p)) <=> IsEnd(Head(jobs[p]))
           /\ NewLine(p).command_id = Head(jobs[p]).command_id
BY DEF NewLine, IsStart, IsEnd

\* Writing a line leaves the commands as they were, but for the one of its job.
LEMMA WriteKeepsCommands ==
    ASSUME Shape, JournalInv, CommandInv, OneProcess, NEW p \in Proc, WriteLine(p)
    PROVE  CommandInv'
<1> DEFINE job == Head(jobs[p])
<1>1. /\ journal' = Append(journal, NewLine(p)) /\ journal \in Seq(Lines) /\ NewLine(p) \in Lines
      /\ jobs[p] \in Seq(Jobs) /\ jobs[p] # <<>> /\ Rest(p) = jobs[p]
      /\ Numbered(journal) /\ pc[p] = "write" /\ CommandOf(p) /\ after[p] \in {"idle", "ready", "running"}
  BY WriteExtends, NewLineIsLine DEF WriteLine, Shape, TypeOK, LockInv, CommandInv, Rest
<1>2. /\ pc'[p] = "written" /\ jobs' = jobs /\ Rest(p)' = Tail(jobs[p])
      /\ UNCHANGED <<after, orphans, cmd>>
  BY <1>1 DEF WriteLine, Goto, Shape, TypeOK, Rest
<1>3. /\ ~IsStart(job) /\ ~IsEnd(job) /\ job.command_id = NoCommand =>
           Numbered(journal') /\ Orphaned(journal') = Orphaned(journal)
      /\ IsStart(job) /\ job.command_id = Len(journal) + 1 =>
           Numbered(journal') /\ Orphaned(journal') = Orphaned(journal) \cup {Len(journal) + 1}
      /\ IsEnd(job) /\ job.command_id \in Orphaned(journal) =>
           Numbered(journal') /\ Orphaned(journal') = Orphaned(journal) \ {job.command_id}
  BY <1>1, LineOfJob, AppendedLine
<1>4. /\ Len(jobs[p]) \in Nat \ {0} /\ job = jobs[p][1] /\ Len(Tail(jobs[p])) = Len(jobs[p]) - 1
      /\ \A k \in 1 .. Len(Tail(jobs[p])) : Tail(jobs[p])[k] = jobs[p][k + 1]
      /\ Tail(jobs[p]) \in Seq(Jobs)
  BY <1>1, HeadTailProperties, EmptySeq
<1> HIDE DEF job
<1>5. CASE after[p] = "ready"
  <2>1. /\ \A k \in 1 .. Len(jobs[p]) : Marker(jobs[p][k]) \/ (IsEnd(jobs[p][k]) /\ k = Len(jobs[p]))
        /\ Orphaned(journal) = orphans[p] \cup Ended(jobs[p])
        /\ orphans[p] \cap Ended(jobs[p]) = {}
    BY <1>1, <1>5 DEF CommandOf, Appending, Recovering
  <2>2. \A k \in 1 .. Len(Tail(jobs[p])) :
            \/ Marker(Tail(jobs[p])[k])
            \/ IsEnd(Tail(jobs[p])[k]) /\ k = Len(Tail(jobs[p]))
    <3>1. \A k \in 1 .. Len(Tail(jobs[p])) : k + 1 \in 1 .. Len(jobs[p])
      BY <1>4
    <3>2. \A k \in 1 .. Len(Tail(jobs[p])) : k + 1 = Len(jobs[p]) => k = Len(Tail(jobs[p]))
      BY <1>4
    <3> QED
      BY <1>4, <2>1, <3>1, <3>2
  <2>3. CASE Marker(job)
    <3>1. Ended(Tail(jobs[p])) = Ended(jobs[p])
      BY <1>1, <2>3, EndedFacts DEF Marker, job
    <3>2. Numbered(journal') /\ Orphaned(journal') = Orphaned(journal)
      BY <1>3, <2>3 DEF Marker
    <3>3. Recovering(p)'
      BY <1>2, <2>1, <2>2, <3>1, <3>2 DEF Recovering
    <3> QED
      BY <1>2, <1>5, <3>2, <3>3 DEF CommandInv, CommandOf, OneProcess, Appending
  <2>4. CASE ~Marker(job)
    <3>1. Len(jobs[p]) = 1 /\ IsEnd(job)
      <4>1. 1 \in 1 .. Len(jobs[p])
        BY <1>4
      <4> QED
        BY <1>4, <2>1, <2>4, <4>1
    <3>2. Ended(jobs[p]) = {job.command_id}
      BY <1>4, <3>1, EndedFacts
    <3>3. Tail(jobs[p]) = <<>>
      <4>1. \A s \in Seq(Jobs) : s # <<>> => Len(s) \in Nat \ {0}
        BY EmptySeq
      <4>2. Len(Tail(jobs[p])) = 0 /\ Tail(jobs[p]) \in Seq(Jobs)
        BY <1>4, <3>1
      <4> QED
        BY <4>1, <4>2
    <3>4. Numbered(journal') /\ Orphaned(journal') = Orphaned(journal) \ {job.command_id}
      BY <1>3, <2>1, <3>1, <3>2
    <3>5. Recovering(p)'
      BY <1>2, <2>1, <2>2, <3>2, <3>3, <3>4, EndedFacts DEF Recovering
    <3> QED
      BY <1>2, <1>5, <3>4, <3>5 DEF CommandInv, CommandOf, OneProcess, Appending
  <2> QED
    BY <2>3, <2>4
<1>6. CASE after[p] = "running"
  <2>1. /\ jobs[p] = <<Append1("execution.command.started", cmd[p])>> /\ orphans[p] = {}
        /\ cmd[p] = Len(journal) + 1 /\ Orphaned(journal) = {}
    BY <1>1, <1>6 DEF CommandOf, Appending, Starting
  <2>2. IsStart(job) /\ job.command_id = Len(journal) + 1 /\ Tail(jobs[p]) = <<>>
    BY <2>1 DEF job, IsStart, Append1
  <2>3. Numbered(journal') /\ Orphaned(journal') = {cmd[p]}
    BY <1>3, <2>1, <2>2
  <2>4. Starting(p)'
    BY <1>2, <2>2, <2>3 DEF Starting
  <2> QED
    BY <1>2, <1>6, <2>1, <2>3, <2>4 DEF CommandInv, CommandOf, OneProcess, Appending
<1>7. CASE after[p] = "idle"
  <2>1. orphans[p] = {} /\ Ending(p)
    BY <1>1, <1>7 DEF CommandOf, Appending
  <2>2. \/ /\ jobs[p] = <<Append1("human.note", NoCommand)>> /\ Orphaned(journal) = {}
        \/ /\ jobs[p] = <<Append1("execution.command.completed", cmd[p])>> /\ Orphaned(journal) = {cmd[p]}
    BY <1>1, <2>1 DEF Ending
  <2>3. Tail(jobs[p]) = <<>>
    <3>1. Len(jobs[p]) = 1
      BY <2>2
    <3>2. Tail(jobs[p]) \in Seq(Jobs) /\ Len(Tail(jobs[p])) = 0
      BY <1>4, <3>1
    <3>3. Tail(jobs[p]) # <<>> => Len(Tail(jobs[p])) \in Nat \ {0}
      BY <3>2, EmptySeq
    <3> QED
      BY <3>2, <3>3
  <2>4. Numbered(journal') /\ Orphaned(journal') = {}
    <3>1. CASE jobs[p] = <<Append1("human.note", NoCommand)>> /\ Orphaned(journal) = {}
      <4>1. ~IsStart(job) /\ ~IsEnd(job) /\ job.command_id = NoCommand
        BY <3>1 DEF job, IsStart, IsEnd, CommandTerminalEvents, Append1
      <4> QED
        BY <1>3, <3>1, <4>1
    <3>2. CASE jobs[p] = <<Append1("execution.command.completed", cmd[p])>> /\ Orphaned(journal) = {cmd[p]}
      <4>1. IsEnd(job) /\ job.command_id = cmd[p]
        BY <3>2 DEF job, IsEnd, CommandTerminalEvents, Append1
      <4> QED
        BY <1>3, <3>2, <4>1
    <3> QED
      BY <2>2, <3>1, <3>2
  <2>5. Ending(p)'
    BY <1>2, <2>3, <2>4 DEF Ending
  <2> QED
    BY <1>2, <1>7, <2>1, <2>4, <2>5 DEF CommandInv, CommandOf, OneProcess, Appending
<1> QED
  BY <1>1, <1>5, <1>6, <1>7

\* Recovery has before it, when it has read the journal, what has not ended.
LEMMA ReadKeepsCommands ==
    ASSUME Shape, JournalInv, CommandInv, OneProcess, NEW p \in Proc, ReadJournal(p)
    PROVE  CommandInv'
<1>1. pc[p] = "read" /\ after[p] = "ready" /\ after' = after /\ pc'[p] = "locked"
  BY DEF ReadJournal, CommandInv, CommandOf, Goto, Shape, TypeOK
<1>2. /\ Parsed = journal /\ ~Corrupt /\ ChainOK(Parsed)
      /\ RepairJobs(Parsed) \in Seq(Jobs)
      /\ \A k \in 1 .. Len(RepairJobs(Parsed)) : Marker(RepairJobs(Parsed)[k])
  BY <1>1, RecoveryOfIntact, RepairIsMarkers
<1>3. journal' = journal /\ jobs'[p] = RepairJobs(Parsed) /\ orphans'[p] = Orphaned(journal)
  BY <1>2 DEF ReadJournal, Shape, TypeOK
<1>4. Rest(p)' = RepairJobs(Parsed)
  BY <1>1, <1>3 DEF Rest
<1>5. Ended(RepairJobs(Parsed)) = {}
  BY <1>2 DEF Ended, Marker
<1>6. Recovering(p)'
  BY <1>2, <1>3, <1>4, <1>5 DEF Recovering
<1> QED
  BY <1>1, <1>3, <1>6 DEF CommandInv, CommandOf, OneProcess, Appending

\* The command recovery ends next moves from its list to its jobs.
LEMMA BlockKeepsCommands ==
    ASSUME Shape, CommandInv, OneProcess, NEW p \in Proc, BlockOrphan(p)
    PROVE  CommandInv'
<1> PICK i \in orphans[p] : /\ jobs' = [jobs EXCEPT ![p] =
                                 <<Append1("journal.repair.started", NoCommand),
                                   Append1("execution.command.blocked", journal[i].command_id)>>]
                            /\ orphans' = [orphans EXCEPT ![p] = @ \ {i}]
  BY DEF BlockOrphan
<1>1. /\ pc[p] = "locked" /\ jobs[p] = <<>> /\ UNCHANGED <<journal, pc, after, cmd>>
      /\ after[p] \in {"idle", "ready", "running"} /\ journal \in Seq(Lines) /\ Numbered(journal)
  BY DEF BlockOrphan, diskVars, Shape, TypeOK, CommandInv
<1>2. after[p] = "ready" /\ Recovering(p) /\ Rest(p) = <<>>
  BY <1>1 DEF CommandInv, CommandOf, Appending, Rest
<1>3. Orphaned(journal) = orphans[p]
  BY <1>2, EndedFacts DEF Recovering
<1>4. journal[i].command_id = i
  BY <1>1, <1>3, OrphanedFacts
<1> DEFINE s == <<Append1("journal.repair.started", NoCommand), Append1("execution.command.blocked", i)>>
<1>5. Rest(p)' = s /\ orphans'[p] = orphans[p] \ {i}
  BY <1>1, <1>4 DEF Rest, Shape, TypeOK
<1>6. Len(s) = 2 /\ Marker(s[1]) /\ IsEnd(s[2]) /\ s[2].command_id = i /\ ~IsEnd(s[1])
  BY DEF Marker, IsStart, IsEnd, CommandTerminalEvents, Append1
<1> HIDE DEF s
<1>7. Ended(s) = {i}
  BY <1>6 DEF Ended
<1>8. \A k \in 1 .. Len(s) : Marker(s[k]) \/ (IsEnd(s[k]) /\ k = Len(s))
  BY <1>6
<1>9. Recovering(p)'
  BY <1>1, <1>3, <1>5, <1>7, <1>8 DEF Recovering
<1> QED
  BY <1>1, <1>2, <1>9 DEF CommandInv, CommandOf, OneProcess, Appending

\* Every step of the process, killed or not, keeps the commands in order.
LEMMA CommandStep ==
    ASSUME SafeFailures, OneProcess, Shape, JournalInv, CommandInv, [Next]_vars
    PROVE  CommandInv'
<1>1. CASE UNCHANGED vars
  BY <1>1 DEF vars, diskVars, procVars, CommandInv, CommandOf, Recovering, Starting, Ending, Rest
<1>2. ASSUME NEW p \in Proc, Begin(p) PROVE CommandInv'
  BY <1>2 DEF Begin, Goto, diskVars, CommandInv, CommandOf, OneProcess, Shape, TypeOK, Appending
<1>3. ASSUME NEW p \in Proc, Acquire(p) PROVE CommandInv'
  <2>1. /\ UNCHANGED <<journal, jobs, orphans, after, cmd>> /\ CommandOf(p) /\ Numbered(journal)
        /\ \/ pc[p] = "recover" /\ pc'[p] = "read"
           \/ pc[p] = "want" /\ pc'[p] = "locked"
    BY <1>3 DEF Acquire, Goto, diskVars, CommandInv, Shape, TypeOK
  <2>2. Rest(p)' = Rest(p)
    BY <2>1 DEF Rest
  <2>3. CASE pc[p] = "recover"
    BY <2>1, <2>3 DEF CommandInv, CommandOf, OneProcess, Appending
  <2>4. CASE pc[p] = "want"
    <3>1. after[p] = "running" => orphans[p] = {} /\ Starting(p)'
      BY <2>1, <2>2, <2>4 DEF CommandOf, Appending, Starting
    <3>2. after[p] = "idle" => orphans[p] = {} /\ Ending(p)'
      BY <2>1, <2>2, <2>4 DEF CommandOf, Appending, Ending
    <3> QED
      BY <2>1, <2>4, <3>1, <3>2 DEF CommandInv, CommandOf, OneProcess, Appending
  <2> QED
    BY <2>1, <2>3, <2>4
<1>4. ASSUME NEW p \in Proc, ReadJournal(p) PROVE CommandInv'
  BY <1>4, ReadKeepsCommands
<1>5. ASSUME NEW p \in Proc, BlockOrphan(p) PROVE CommandInv'
  BY <1>5, BlockKeepsCommands
<1>6. ASSUME NEW p \in Proc, RewriteState(p) PROVE CommandInv'
  <2>1. jobs[p] \in Seq(Jobs) /\ jobs[p] # <<>> /\ Head(jobs[p]).job = "write_state" /\ Appends(jobs[p])
    BY <1>6 DEF RewriteState, Shape, TypeOK, JournalInv
  <2> QED
    BY <2>1, AppendsTail
<1>7. ASSUME NEW p \in Proc, LoadState(p) \/ BumpState(p) PROVE CommandInv'
  <2>1. /\ UNCHANGED <<journal, orphans, after, cmd>> /\ CommandOf(p) /\ Numbered(journal)
        /\ pc[p] \in Appending /\ pc'[p] \in Appending
        /\ Rest(p)' = Rest(p)
    <3>1. CASE LoadState(p)
      BY <3>1 DEF LoadState, Goto, diskVars, CommandInv, Shape, TypeOK, Appending, Rest
    <3>2. CASE BumpState(p)
      BY <3>2 DEF BumpState, Goto, CommandInv, Shape, TypeOK, Appending, Rest
    <3> QED
      BY <1>7, <3>1, <3>2
  <2>2. after[p] = "ready" => Recovering(p)'
    BY <2>1 DEF CommandOf, Recovering
  <2>3. after[p] = "running" => orphans[p] = {} /\ Starting(p)'
    BY <2>1 DEF CommandOf, Starting, Appending
  <2>4. after[p] = "idle" => orphans[p] = {} /\ Ending(p)'
    BY <2>1 DEF CommandOf, Ending
  <2> QED
    BY <2>1, <2>2, <2>3, <2>4 DEF CommandInv, CommandOf, OneProcess, Appending
<1>8. ASSUME NEW p \in Proc, WriteLine(p) PROVE CommandInv'
  BY <1>8, WriteKeepsCommands
<1>9. ASSUME NEW p \in Proc, MirrorFails(p) \/ HookLoad(p) \/ HookWrite(p) PROVE CommandInv'
  BY <1>9 DEF MirrorFails, HookLoad, HookWrite, SafeFailures, JournalInv
<1>10. ASSUME NEW p \in Proc, Release(p) PROVE CommandInv'
  <2>1. /\ pc[p] = "locked" /\ jobs[p] = <<>> /\ orphans[p] = {} /\ pc'[p] = after[p]
        /\ UNCHANGED <<journal, jobs, orphans, after, cmd>> /\ CommandOf(p) /\ Numbered(journal)
        /\ after[p] \in {"idle", "ready", "running"}
    BY <1>10 DEF Release, Goto, diskVars, CommandInv, Shape, TypeOK
  <2>2. Rest(p) = <<>>
    BY <2>1 DEF Rest
  <2>3. after[p] = "ready" => Orphaned(journal) = {}
    BY <2>1, <2>2, EndedFacts DEF CommandOf, Appending, Recovering
  <2>4. after[p] = "running" => Orphaned(journal) = {cmd[p]}
    BY <2>1, <2>2 DEF CommandOf, Appending, Starting
  <2> QED
    BY <2>1, <2>3, <2>4 DEF CommandInv, CommandOf, OneProcess, Appending
<1>11. ASSUME NEW p \in Proc, Note(p) \/ StartCommand(p) \/ FinishCommand(p) PROVE CommandInv'
  <2>1. /\ UNCHANGED <<journal, orphans>> /\ CommandOf(p) /\ Numbered(journal) /\ pc'[p] = "want"
        /\ pc[p] \in {"ready", "running"} /\ orphans[p] = {}
    BY <1>11 DEF Note, StartCommand, FinishCommand, Request, Goto, diskVars, CommandInv, Shape, TypeOK, LockInv
  <2>2. /\ Note(p) => /\ jobs'[p] = <<Append1("human.note", NoCommand)>> /\ after'[p] = "idle"
                      /\ cmd' = cmd /\ pc[p] = "ready"
        /\ StartCommand(p) => /\ jobs'[p] = <<Append1("execution.command.started", state.sequence + 1)>>
                              /\ after'[p] = "running" /\ cmd'[p] = state.sequence + 1 /\ pc[p] = "ready"
        /\ FinishCommand(p) => /\ jobs'[p] = <<Append1("execution.command.completed", cmd[p])>>
                               /\ after'[p] = "idle" /\ cmd' = cmd /\ pc[p] = "running"
    BY DEF Note, StartCommand, FinishCommand, Request, Shape, TypeOK, SafeFailures
  <2>3. Rest(p)' = jobs'[p]
    BY <2>1 DEF Rest
  <2>4. pc[p] = "ready" => state.sequence = Len(journal)
    <3>1. pc[p] = "ready" => state = Tip(journal)
      BY DEF JournalInv, OneProcess
    <3>2. journal = <<>> => Len(journal) = 0
      OBVIOUS
    <3>3. journal # <<>> => Len(journal) \in 1 .. Len(journal)
      BY EmptySeq DEF Shape, TypeOK
    <3> QED
      BY <3>1, <3>2, <3>3 DEF Tip, InitialState, JournalInv, ChainIntact
  <2>5. StartCommand(p) => Starting(p)'
    BY <2>1, <2>2, <2>3, <2>4 DEF Starting, CommandOf
  <2>6. Note(p) \/ FinishCommand(p) => Ending(p)'
    BY <2>1, <2>2, <2>3 DEF Ending, CommandOf
  <2> QED
    BY <1>11, <2>1, <2>2, <2>5, <2>6 DEF CommandInv, CommandOf, OneProcess, Appending
<1>12. ASSUME NEW p \in Proc, Crash(p) \/ \E t \in {"partial", "open"} : TornWrite(p, t) PROVE CommandInv'
  <2>1. journal' = journal /\ pc'[p] = "idle"
    BY <1>12 DEF Crash, TornWrite, Abandon, Goto, diskVars, Shape, TypeOK, SafeFailures, BeforeTail, JournalInv
  <2> QED
    BY <2>1 DEF CommandInv, CommandOf, OneProcess, Appending
<1> QED
  BY <1>1, <1>2, <1>3, <1>4, <1>5, <1>6, <1>7, <1>8, <1>9, <1>10, <1>11, <1>12 DEF Next, Done, ProcNext, Kill

\* In every state each command is numbered by its start, and the process knows what
\* has not ended.
LEMMA CommandInvariant == ASSUME SafeFailures, OneProcess PROVE Spec => []CommandInv
<1>1. Init => CommandInv
  BY DEF Init, CommandInv, CommandOf, Numbered, Appending
<1>2. Shape /\ JournalInv /\ CommandInv /\ [Next]_vars => CommandInv'
  BY CommandStep
<1> QED
  BY <1>1, <1>2, ShapeInvariant, JournalInvariant, PTL DEF Spec

\* When recovery has handed over to a command, every rcr run that began earlier has
\* its terminal event, wherever the process was killed before.
THEOREM RecoveryLeavesNoOrphan == ASSUME SafeFailures, OneProcess PROVE Spec => []NoOrphanAfterRecovery
<1>1. Shape /\ CommandInv => NoOrphanAfterRecovery
  <2> SUFFICES ASSUME Shape, CommandInv, NEW p \in Proc, pc[p] = "ready", NEW id \in CommandIds
               PROVE  Positions(CommandTerminalEvents, id) # {}
    BY DEF NoOrphanAfterRecovery
  <2>1. Numbered(journal) /\ Orphaned(journal) = {}
    BY DEF CommandInv, CommandOf
  <2>2. PICK i \in 1 .. Len(journal) : journal[i].command_id = id /\ id # NoCommand
    BY DEF CommandIds
  <2>3. CASE IsEnd(journal[i])
    BY <2>2, <2>3 DEF Positions, IsEnd
  <2>4. CASE IsStart(journal[i])
    <3>1. i \notin Orphaned(journal)
      BY <2>1
    <3>2. PICK j \in 1 .. Len(journal) : /\ journal[j].event_type \in CommandTerminalEvents
                                         /\ journal[j].command_id = journal[i].command_id
      BY <2>4, <3>1 DEF Orphaned, IsStart
    <3> QED
      BY <2>2, <3>2 DEF Positions
  <2> QED
    BY <2>1, <2>2, <2>3, <2>4 DEF Numbered
<1> QED
  BY <1>1, ShapeInvariant, CommandInvariant, PTL

\* Each command_id names one execution: one started event, and one terminal event at
\* most, though recovery may come at any time and be killed itself.
THEOREM CommandsAreRecordedOnce == ASSUME SafeFailures, OneProcess PROVE Spec => []CommandsRecordedOnce
<1>1. CommandInv => CommandsRecordedOnce
  <2> SUFFICES ASSUME CommandInv, NEW id \in CommandIds
               PROVE  /\ Cardinality(Positions({"execution.command.started"}, id)) = 1
                      /\ Cardinality(Positions(CommandTerminalEvents, id)) <= 1
    BY DEF CommandsRecordedOnce
  <2>1. Numbered(journal)
    BY DEF CommandInv
  <2>2. PICK i \in 1 .. Len(journal) : journal[i].command_id = id /\ id # NoCommand
    BY DEF CommandIds
  <2>3. id \in 1 .. Len(journal) /\ IsStart(journal[id])
    BY <2>1, <2>2 DEF Numbered
  <2>4. Positions({"execution.command.started"}, id) = {id}
    BY <2>1, <2>3 DEF Positions, Numbered, IsStart
  <2>5. Positions(CommandTerminalEvents, id) = {} \/ \E j : Positions(CommandTerminalEvents, id) = {j}
    <3>1. \A j, k \in Positions(CommandTerminalEvents, id) : j = k
      BY <2>1 DEF Positions, Numbered, IsEnd
    <3> QED
      BY <3>1
  <2>6. Cardinality({}) = 0 /\ \A j : Cardinality({j}) = 1
    BY FS_EmptySet, FS_Singleton
  <2>7. Cardinality(Positions({"execution.command.started"}, id)) = 1
    BY <2>4, <2>6, Zenon
  <2>8. Cardinality(Positions(CommandTerminalEvents, id)) = 0 \/ Cardinality(Positions(CommandTerminalEvents, id)) = 1
    BY <2>5, <2>6, Zenon
  <2> QED
    BY <2>7, <2>8
<1> QED
  BY <1>1, CommandInvariant, PTL
=============================================================================
