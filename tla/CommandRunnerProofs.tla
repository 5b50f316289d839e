------------------------ MODULE CommandRunnerProofs ------------------------
(* What rcr run guarantees for every pipe size, every number of lines and    *)
(* every failure: its records agree, and CapturedCommand is implemented.     *)
EXTENDS CommandRunner, SequenceTheorems, FiniteSetTheorems, TLAPS

Lines == {"clean", "masked"}

-----------------------------------------------------------------------------
(* Masking a sequence of lines.                                             *)

\* Masking changes the lines one by one.
LEMMA MaskedFacts ==
    ASSUME NEW s \in Seq(Classes)
    PROVE  /\ Masked(s) \in Seq(Lines)
           /\ Len(Masked(s)) = Len(s)
           /\ \A i \in 1 .. Len(s) : Masked(s)[i] = IF s[i] = "secret" THEN "masked" ELSE s[i]
<1>1. Len(s) \in Nat /\ \A i \in 1 .. Len(s) : s[i] \in Classes
  BY ElementOfSeq
<1>2. Masked(s) \in [1 .. Len(s) -> Lines]
  BY <1>1 DEF Masked, Classes, Lines
<1> QED
  BY <1>1, <1>2, IsASeq DEF Masked

\* No line masked is no line.
LEMMA MaskedEmpty == Masked(<<>>) = <<>>
<1>1. <<>> \in Seq(Classes) /\ Len(<<>>) = 0
  BY EmptySeq
<1>2. Masked(<<>>) \in Seq(Lines) /\ Len(Masked(<<>>)) = 0
  BY <1>1, MaskedFacts
<1> QED
  BY <1>2, EmptySeq

\* A masked line.
LEMMA MaskedLine ==
    ASSUME NEW line \in Classes
    PROVE  /\ Masked(<<line>>) \in Seq(Lines)
           /\ Len(Masked(<<line>>)) = 1
           /\ Masked(<<line>>)[1] = IF line = "secret" THEN "masked" ELSE line
<1>1. <<line>> \in Seq(Classes) /\ Len(<<line>>) = 1 /\ <<line>>[1] = line
  OBVIOUS
<1>2. 1 \in 1 .. Len(<<line>>)
  BY <1>1
<1> HIDE DEF Masked
<1> QED
  BY <1>1, <1>2, MaskedFacts

\* Masking two sequences, one behind the other, is masking them together.
LEMMA MaskedConcat ==
    ASSUME NEW s \in Seq(Classes), NEW t \in Seq(Classes)
    PROVE  Masked(s \o t) = Masked(s) \o Masked(t)
<1> DEFINE st == s \o t
<1> DEFINE u == Masked(s) \o Masked(t)
<1>1. /\ st \in Seq(Classes) /\ Len(st) = Len(s) + Len(t)
      /\ \A i \in 1 .. Len(s) + Len(t) : st[i] = IF i <= Len(s) THEN s[i] ELSE t[i - Len(s)]
  BY ConcatProperties
<1>2. /\ Masked(s) \in Seq(Lines) /\ Len(Masked(s)) = Len(s)
      /\ \A i \in 1 .. Len(s) : Masked(s)[i] = IF s[i] = "secret" THEN "masked" ELSE s[i]
  BY MaskedFacts
<1>3. /\ Masked(t) \in Seq(Lines) /\ Len(Masked(t)) = Len(t)
      /\ \A i \in 1 .. Len(t) : Masked(t)[i] = IF t[i] = "secret" THEN "masked" ELSE t[i]
  BY MaskedFacts
<1>4. /\ u \in Seq(Lines) /\ Len(u) = Len(Masked(s)) + Len(Masked(t))
      /\ \A i \in 1 .. Len(Masked(s)) + Len(Masked(t)) :
           u[i] = IF i <= Len(Masked(s)) THEN Masked(s)[i] ELSE Masked(t)[i - Len(Masked(s))]
  <2>1. ASSUME NEW a \in Seq(Lines), NEW b \in Seq(Lines)
        PROVE  /\ a \o b \in Seq(Lines) /\ Len(a \o b) = Len(a) + Len(b)
               /\ \A i \in 1 .. Len(a) + Len(b) :
                    (a \o b)[i] = IF i <= Len(a) THEN a[i] ELSE b[i - Len(a)]
    BY ConcatProperties
  <2> QED
    BY <1>2, <1>3, <2>1, Zenon
<1>5. /\ Masked(st) \in Seq(Lines) /\ Len(Masked(st)) = Len(s) + Len(t)
      /\ \A i \in 1 .. Len(st) : Masked(st)[i] = IF st[i] = "secret" THEN "masked" ELSE st[i]
  BY <1>1, MaskedFacts
<1>6. Len(s) \in Nat /\ Len(t) \in Nat
  OBVIOUS
<1> HIDE DEF st, u
<1>7. ASSUME NEW i \in 1 .. Len(s) + Len(t) PROVE Masked(st)[i] = u[i]
  <2>1. CASE i <= Len(s)
    <3>1. i \in 1 .. Len(s) /\ i \in 1 .. Len(st)
      BY <1>1, <1>6, <2>1
    <3>2. st[i] = s[i] /\ u[i] = Masked(s)[i]
      BY <1>1, <1>2, <1>3, <1>4, <2>1
    <3> QED
      BY <1>2, <1>5, <3>1, <3>2
  <2>2. CASE ~(i <= Len(s))
    <3>1. i - Len(s) \in 1 .. Len(t) /\ i \in 1 .. Len(st)
      BY <1>1, <1>6, <2>2
    <3>2. st[i] = t[i - Len(s)] /\ u[i] = Masked(t)[i - Len(s)]
      BY <1>1, <1>2, <1>3, <1>4, <2>2
    <3> QED
      BY <1>3, <1>5, <3>1, <3>2
  <2> QED
    BY <2>1, <2>2
<1>8. Masked(st) = u
  BY <1>2, <1>3, <1>4, <1>5, <1>6, <1>7, SeqEqual
<1> QED
  BY <1>8 DEF st, u

\* A line written behind others.
LEMMA MaskedAppend ==
    ASSUME NEW s \in Seq(Classes), NEW line \in Classes
    PROVE  Masked(Append(s, line)) = Masked(s) \o Masked(<<line>>)
<1>1. Append(s, line) = s \o <<line>> /\ <<line>> \in Seq(Classes)
  BY AppendIsConcat
<1> QED
  BY <1>1, MaskedConcat

\* A line read before others.
LEMMA MaskedHeadTail ==
    ASSUME NEW s \in Seq(Classes), s # <<>>
    PROVE  /\ Head(s) \in Classes /\ Tail(s) \in Seq(Classes)
           /\ Masked(<<Head(s)>>) \o Masked(Tail(s)) = Masked(s)
<1>1. Head(s) \in Classes /\ Tail(s) \in Seq(Classes)
  BY HeadTailProperties
<1>2. <<Head(s)>> \in Seq(Classes) /\ Len(<<Head(s)>>) = 1 /\ <<Head(s)>>[1] = s[1]
  BY <1>1
<1>3. /\ Len(s) \in Nat /\ Len(s) > 0 /\ Len(Tail(s)) = Len(s) - 1
      /\ \A i \in 1 .. Len(Tail(s)) : Tail(s)[i] = s[i + 1]
  BY HeadTailProperties, EmptySeq, LenProperties
<1>4. /\ <<Head(s)>> \o Tail(s) \in Seq(Classes)
      /\ Len(<<Head(s)>> \o Tail(s)) = Len(s)
      /\ \A i \in 1 .. Len(s) :
           (<<Head(s)>> \o Tail(s))[i] = IF i <= 1 THEN <<Head(s)>>[i] ELSE Tail(s)[i - 1]
  BY <1>1, <1>2, <1>3, ConcatProperties
<1>5. <<Head(s)>> \o Tail(s) = s
  BY <1>2, <1>3, <1>4, SeqEqual
<1> QED
  BY <1>1, <1>2, <1>5, MaskedConcat

-----------------------------------------------------------------------------
(* Counting masks.                                                          *)

\* The places of the masks in a log are finitely many.
LEMMA MaskPlaces ==
    ASSUME NEW s \in Seq(Lines)
    PROVE  /\ IsFiniteSet({i \in 1 .. Len(s) : s[i] = "masked"})
           /\ Masks(s) \in Nat
<1>1. IsFiniteSet(1 .. Len(s))
  BY FS_Interval
<1>2. {i \in 1 .. Len(s) : s[i] = "masked"} \in SUBSET (1 .. Len(s))
  OBVIOUS
<1>3. IsFiniteSet({i \in 1 .. Len(s) : s[i] = "masked"})
  BY <1>1, <1>2, FS_Subset
<1> QED
  BY <1>3, FS_CardinalityType DEF Masks

\* An empty log holds no mask.
LEMMA MasksEmpty == Masks(<<>>) = 0
<1>1. {i \in 1 .. Len(<<>>) : <<>>[i] = "masked"} = {}
  OBVIOUS
<1> QED
  BY <1>1, FS_EmptySet DEF Masks

\* A line holds one secret or none.
LEMMA SecretsOfLine ==
    ASSUME NEW line \in Classes
    PROVE  /\ Secrets(<<line>>) = IF line = "secret" THEN 1 ELSE 0
           /\ Secrets(<<line>>) \in Nat
<1>1. CASE line = "secret"
  <2>1. {i \in 1 .. Len(<<line>>) : <<line>>[i] = "secret"} = {1}
    BY <1>1
  <2>2. Secrets(<<line>>) = 1
    BY <2>1, FS_Singleton DEF Secrets
  <2> QED
    BY <1>1, <2>2
<1>2. CASE line # "secret"
  <2>1. {i \in 1 .. Len(<<line>>) : <<line>>[i] = "secret"} = {}
    BY <1>2
  <2>2. Secrets(<<line>>) = 0
    BY <2>1, FS_EmptySet DEF Secrets
  <2> QED
    BY <1>2, <2>2
<1> QED
  BY <1>1, <1>2

\* Logging a line adds as many masks as its redaction counted.
LEMMA MasksOfLoggedLine ==
    ASSUME NEW s \in Seq(Lines), NEW line \in Classes
    PROVE  /\ s \o Masked(<<line>>) \in Seq(Lines)
           /\ Masks(s \o Masked(<<line>>)) = Masks(s) + Secrets(<<line>>)
<1> DEFINE m == IF line = "secret" THEN "masked" ELSE line
<1> DEFINE t == s \o Masked(<<line>>)
<1> DEFINE P(u) == {i \in 1 .. Len(u) : u[i] = "masked"}
<1>2. Masked(<<line>>) \in Seq(Lines) /\ Len(Masked(<<line>>)) = 1 /\ Masked(<<line>>)[1] = m
  BY MaskedLine
<1>3. Len(s) \in Nat
  OBVIOUS
<1>4. t \in Seq(Lines) /\ Len(t) = Len(s) + 1
      /\ \A i \in 1 .. Len(s) + 1 : t[i] = IF i <= Len(s) THEN s[i] ELSE Masked(<<line>>)[i - Len(s)]
  BY <1>2, ConcatProperties
<1>5. t[Len(s) + 1] = m /\ \A i \in 1 .. Len(s) : t[i] = s[i]
  BY <1>2, <1>3, <1>4
<1>6. CASE line = "secret"
  <2>1. P(t) = P(s) \cup {Len(s) + 1}
    BY <1>3, <1>4, <1>5, <1>6
  <2>2. Len(s) + 1 \notin P(s)
    BY <1>3
  <2>3. Cardinality(P(s) \cup {Len(s) + 1}) = Cardinality(P(s)) + 1
    BY <2>2, MaskPlaces, FS_AddElement
  <2>4. Masks(t) = Masks(s) + 1
    BY <2>1, <2>3 DEF Masks
  <2>5. Masks(t) = Masks(s) + Secrets(<<line>>)
    BY <1>6, <2>4, SecretsOfLine
  <2> QED
    BY <1>4, <2>5
<1>7. CASE line # "secret"
  <2>1. P(t) = P(s)
    BY <1>3, <1>4, <1>5, <1>7 DEF Classes
  <2>2. Masks(t) = Masks(s)
    BY <2>1 DEF Masks
  <2>3. Secrets(<<line>>) = 0 /\ Masks(s) \in Nat
    BY <1>7, SecretsOfLine, MaskPlaces
  <2>4. Masks(t) = Masks(s) + Secrets(<<line>>)
    BY <2>2, <2>3
  <2> QED
    BY <1>4, <2>4
<1> QED
  BY <1>6, <1>7

\* A log cut short holds no more masks.
LEMMA MasksOfPrefix ==
    ASSUME NEW s \in Seq(Lines), NEW n \in 0 .. Len(s)
    PROVE  /\ SubSeq(s, 1, n) \in Seq(Lines)
           /\ Masks(SubSeq(s, 1, n)) <= Masks(s)
<1> DEFINE P(u) == {i \in 1 .. Len(u) : u[i] = "masked"}
<1>1. /\ SubSeq(s, 1, n) \in Seq(Lines)
      /\ Len(SubSeq(s, 1, n)) = n
      /\ \A i \in 1 .. n : SubSeq(s, 1, n)[i] = s[i]
  <2>1. Len(s) \in Nat /\ \A i \in 1 .. n : s[i] \in Lines
    BY ElementOfSeq
  <2> QED
    BY <2>1, SubSeqProperties
<1>2. P(SubSeq(s, 1, n)) \in SUBSET P(s)
  BY <1>1
<1>3. Cardinality(P(SubSeq(s, 1, n))) <= Cardinality(P(s))
  BY <1>2, MaskPlaces, FS_Subset
<1> QED
  BY <1>1, <1>3 DEF Masks

-----------------------------------------------------------------------------
(* The inductive invariant.                                                 *)

Early == {"start", "sidecar", "launch"}
Late == {"collect", "terminal", "tally", "returned"}

\* The command has ended: its processes and pumps cannot change what is recorded.
Past == pc \in Late \/ Len(journal) >= 2

Total == argv + counts["stdout"] + counts["stderr"]
TallyEvent == Event("redaction.applied", "none", {}, Total)

\* What the main thread has journaled, by its control point.
JournalForm ==
    /\ pc = "start" => journal = <<>>
    /\ pc \in {"sidecar", "launch", "pumps", "wait", "join", "collect", "terminal", "interrupted"} =>
         journal = <<Started>>
    /\ pc = "tally" => journal = <<Started, Terminal>>
    /\ pc = "returned" => journal = IF Total = 0 THEN <<Started, Terminal>>
                                    ELSE <<Started, Terminal, TallyEvent>>
    /\ pc = "killed" => \/ journal = <<>>
                        \/ journal = <<Started>>
                        \/ journal = <<Started, Terminal>>
    /\ pc \in {"terminal", "tally", "returned"} \/ Len(journal) >= 2 => sidecar = FinalSidecar

\* Which threads and processes run, and which pipes are open, by the same.
Threads ==
    /\ \A w \in Writers : doing[w] # Idle => alive[w] = "running"
    /\ pc \in Early => /\ \A w \in Writers : alive[w] = "none"
                       /\ open = {}
                       /\ pumpErrors = {}
                       /\ \A s \in Streams : pump[s] = "none" /\ log[s] = <<>> /\ wrote[s] = <<>>
    /\ pc \in {"wait", "join"} => \A s \in Streams : pump[s] # "none"
    /\ pc = "join" => alive["child"] = "gone"
    /\ \A s \in Streams : s \in open => pump[s] # "ended"
    /\ \A s \in Streams : s \notin open => pipe[s] = <<>>
    /\ Past => /\ alive["child"] # "running"
               /\ open = {}
               /\ \A s \in Streams : pump[s] # "running"

\* Unless its pump failed, a log and its pipe hold what was written.
Logged ==
    pc # "killed" \/ Past =>
        \A s \in Streams : s \notin pumpErrors => log[s] \o Masked(pipe[s]) = Masked(wrote[s])

\* Where the redactions of a stream are counted now.
CountOf(s) == IF pump[s] = "ended" \/ pc \in Late THEN counts[s] ELSE applied[s]

\* The count covers the masks of the log, and is exact unless the pump failed.
Counted ==
    pc # "killed" =>
        \A s \in Streams : /\ Masks(log[s]) <= CountOf(s)
                           /\ s \notin pumpErrors => Masks(log[s]) = CountOf(s)

\* A pump that has not begun has counted nothing.
Unbegun == pc \in Early => \A s \in Streams : applied[s] = 0 /\ counts[s] = 0

IInv == TypeOK /\ JournalForm /\ Threads /\ Logged /\ Counted /\ Unbegun

-----------------------------------------------------------------------------
(* Initially, and types.                                                    *)

\* The invariant holds before rcr run has done anything.
LEMMA InitIInv == Init => IInv
<1> SUFFICES ASSUME Init PROVE IInv
  OBVIOUS
<1>1. TypeOK
  BY RunnerAssumption, EmptySeq DEF Init, TypeOK, Writers, Streams, Exits, Idle
<1>2. JournalForm
  BY DEF Init, JournalForm
<1>3. Threads
  BY DEF Init, Threads, Past, Late, Idle
<1>4. Logged
  <2>1. <<>> \o <<>> = <<>>
    BY EmptySeq, ConcatEmptySeq
  <2> QED
    BY <2>1, MaskedEmpty DEF Init, Logged
<1>5. Counted /\ Unbegun
  BY MasksEmpty DEF Init, Counted, CountOf, Unbegun
<1> QED
  BY <1>1, <1>2, <1>3, <1>4, <1>5 DEF IInv

\* A line that a pump logs, a log cut short, a line that enters a pipe and one that
\* leaves it keep the types.
LEMMA TypesOfLines ==
    ASSUME TypeOK, NEW s \in Streams
    PROVE  /\ pipe[s] \in Seq(Classes) /\ log[s] \in Seq(Lines) /\ wrote[s] \in Seq(Classes)
           /\ pipe[s] # <<>> => /\ Tail(pipe[s]) \in Seq(Classes)
                                /\ Head(pipe[s]) \in Classes
                                /\ log[s] \o Masked(<<Head(pipe[s])>>) \in Seq(Lines)
           /\ \A line \in Classes : /\ Append(pipe[s], line) \in Seq(Classes)
                                    /\ Append(wrote[s], line) \in Seq(Classes)
           /\ \A n \in 0 .. Len(log[s]) : SubSeq(log[s], 1, n) \in Seq(Lines)
           /\ <<>> \in Seq(Classes)
<1>1. pipe[s] \in Seq(Classes) /\ log[s] \in Seq(Lines) /\ wrote[s] \in Seq(Classes)
  BY DEF TypeOK, Lines
<1>2. pipe[s] # <<>> => /\ Tail(pipe[s]) \in Seq(Classes)
                        /\ Head(pipe[s]) \in Classes
                        /\ log[s] \o Masked(<<Head(pipe[s])>>) \in Seq(Lines)
  BY <1>1, MaskedHeadTail, MasksOfLoggedLine
<1>3. \A line \in Classes : /\ Append(pipe[s], line) \in Seq(Classes)
                            /\ Append(wrote[s], line) \in Seq(Classes)
  BY <1>1, AppendProperties
<1>4. \A n \in 0 .. Len(log[s]) : SubSeq(log[s], 1, n) \in Seq(Lines)
  BY <1>1, MasksOfPrefix
<1> QED
  BY <1>1, <1>2, <1>3, <1>4, EmptySeq

\* Every step keeps the types.
LEMMA TypeOKStep ==
    ASSUME TypeOK, [Next]_vars
    PROVE  TypeOK'
<1> USE DEF TypeOK
<1>1. CASE UNCHANGED vars
  BY <1>1 DEF vars, record, processes, pumps
<1>2. CASE Done
  BY <1>2 DEF Done, vars, record, processes, pumps
<1>3. CASE AppendStarted \/ WriteSidecar \/ Wait \/ Join \/ Collect \/ Tally \/ Interrupt
  BY <1>3 DEF AppendStarted, WriteSidecar, Wait, Join, Collect, Tally, Interrupt, record, processes, pumps
<1>4. CASE Launch
  BY <1>4 DEF Launch, record, pumps, Writers, Streams
<1>5. CASE LaunchFails
  <2> PICK line \in IF argv = 0 THEN {"clean"} ELSE Classes :
         /\ log' = [s \in Streams |-> IF s = "stderr" THEN Masked(<<line>>) ELSE <<>>]
         /\ wrote' = [s \in Streams |-> IF s = "stderr" THEN <<line>> ELSE <<>>]
         /\ counts' = [s \in Streams |-> IF s = "stderr" THEN Secrets(<<line>>) ELSE 0]
    BY <1>5 DEF LaunchFails
  <2>1. line \in Classes
    BY DEF Classes
  <2>2. Masked(<<line>>) \in Seq({"clean", "masked"}) /\ <<line>> \in Seq(Classes)
    BY <2>1, MaskedLine DEF Lines
  <2>3. Secrets(<<line>>) \in Nat
    BY <2>1, SecretsOfLine
  <2>4. <<>> \in Seq({"clean", "masked"}) /\ <<>> \in Seq(Classes)
    BY EmptySeq
  <2>5. log' \in [Streams -> Seq({"clean", "masked"})] /\ wrote' \in [Streams -> Seq(Classes)]
    BY <2>2, <2>4
  <2>6. counts' \in [Streams -> Nat]
    BY <2>3
  <2> QED
    BY <1>5, <2>5, <2>6 DEF LaunchFails, record
<1>6. CASE StartPumps
  BY <1>6 DEF StartPumps, record, processes
<1>7. CASE Unwind
  BY <1>7, EmptySeq DEF Unwind, record, processes, pumps
<1>8. CASE Spawn
  <2> PICK inherited \in SUBSET Streams :
         holders' = [s \in Streams |-> IF s \in inherited THEN holders[s] \cup {"descendant"} ELSE holders[s]]
    BY <1>8 DEF Spawn
  <2>1. holders' \in [Streams -> SUBSET Writers]
    BY DEF Writers
  <2> QED
    BY <1>8, <2>1 DEF Spawn, record, pumps, Writers
<1>9. CASE Kill
  <2> PICK kept \in [Streams -> 0 .. MaxLines] :
         /\ \A s \in Streams : kept[s] <= Len(log[s])
         /\ log' = [s \in Streams |-> IF pump[s] = "running" THEN SubSeq(log[s], 1, kept[s]) ELSE log[s]]
    BY <1>9 DEF Kill
  <2>1. ASSUME NEW s \in Streams PROVE SubSeq(log[s], 1, kept[s]) \in Seq(Lines)
    <3>1. Len(log[s]) \in Nat /\ kept[s] \in 0 .. Len(log[s])
      BY RunnerAssumption
    <3> QED
      BY <3>1, TypesOfLines
  <2>2. log' \in [Streams -> Seq({"clean", "masked"})]
    BY <2>1, TypesOfLines DEF Lines
  <2> QED
    BY <1>9, <2>2, EmptySeq DEF Kill, record, processes
<1>10. ASSUME NEW s \in Streams, Pump(s)
       PROVE  TypeOK'
  <2>1. CASE PumpLine(s)
    <3>1. Secrets(<<Head(pipe[s])>>) \in Nat
      <4>1. Head(pipe[s]) \in Classes
        BY <2>1, TypesOfLines DEF PumpLine
      <4> QED
        BY <4>1, SecretsOfLine
    <3>2. pipe' \in [Streams -> Seq(Classes)] /\ log' \in [Streams -> Seq({"clean", "masked"})]
      BY <2>1, TypesOfLines DEF PumpLine, Lines
    <3>3. applied' \in [Streams -> Nat]
      BY <2>1, <3>1 DEF PumpLine
    <3> QED
      BY <2>1, <3>2, <3>3 DEF PumpLine, record, processes
  <2>2. CASE PumpEnd(s)
    BY <2>2, EmptySeq DEF PumpEnd, Finish, record, processes
  <2>3. CASE PumpFails(s)
    <3>1. log' \in [Streams -> Seq({"clean", "masked"})]
      BY <2>3, TypesOfLines DEF PumpFails, Lines
    <3> QED
      BY <2>3, <3>1, EmptySeq DEF PumpFails, Finish, record, processes
  <2> QED
    BY <1>10, <2>1, <2>2, <2>3 DEF Pump
<1>11. ASSUME NEW w \in Writers, Process(w) \/ Signal(w)
       PROVE  TypeOK'
  <2>1. CASE TryWrite(w)
    BY <2>1, RunnerAssumption DEF TryWrite, record, pumps
  <2>2. CASE Write(w)
    <3> DEFINE s == doing[w]
    <3>1. s \in Streams
      BY <2>2 DEF Write
    <3>2. pipe' \in [Streams -> Seq(Classes)] /\ wrote' \in [Streams -> Seq(Classes)]
      BY <2>2, <3>1, TypesOfLines DEF Write
    <3> QED
      BY <2>2, <3>2 DEF Write, record, pumps
  <2>3. Leave(w) => /\ alive' \in [Writers -> {"none", "running", "gone"}]
                    /\ holders' \in [Streams -> SUBSET Writers]
                    /\ doing' \in [Writers -> Streams \cup {Idle}]
    BY DEF Leave
  <2>4. CASE WriteBroken(w)
    BY <2>3, <2>4 DEF WriteBroken, record, pumps, Exits
  <2>5. CASE ExitProcess(w)
    <3>1. returncode' \in Exits \cup {"none", "startup_error"}
      BY <2>5 DEF ExitProcess, Exits
    <3> QED
      BY <2>3, <2>5, <3>1 DEF ExitProcess, record, pumps
  <2>6. CASE Signal(w)
    BY <2>3, <2>6 DEF Signal, record, pumps, Exits
  <2> QED
    BY <1>11, <2>1, <2>2, <2>4, <2>5, <2>6 DEF Process
<1> QED
  BY <1>1, <1>2, <1>3, <1>4, <1>5, <1>6, <1>7, <1>8, <1>9, <1>10, <1>11 DEF Next, Main

-----------------------------------------------------------------------------
(* Control: the journal, the threads and the processes.                     *)

\* Short journals.
LEMMA JournalTuples ==
    ASSUME NEW a, NEW b, NEW c
    PROVE  /\ Len(<<>>) = 0 /\ Len(<<a>>) = 1 /\ Len(<<a, b>>) = 2 /\ Len(<<a, b, c>>) = 3
           /\ ~(Len(<<>>) >= 2) /\ ~(Len(<<a>>) >= 2)
           /\ Append(<<>>, a) = <<a>> /\ Append(<<a>>, b) = <<a, b>>
           /\ Append(<<a, b>>, c) = <<a, b, c>>
<1>1. Len(<<>>) = 0 /\ Len(<<a>>) = 1 /\ Len(<<a, b>>) = 2 /\ Len(<<a, b, c>>) = 3
  OBVIOUS
<1>2. ~(Len(<<>>) >= 2) /\ ~(Len(<<a>>) >= 2)
  BY <1>1
<1>3. Append(<<>>, a) = <<a>>
  OBVIOUS
<1> DEFINE S == {a, b, c}
<1>4. Append(<<a>>, b) = <<a, b>>
  <2>1. <<a>> \in Seq(S) /\ b \in S /\ <<a, b>> \in Seq(S)
    OBVIOUS
  <2>2. /\ Append(<<a>>, b) \in Seq(S) /\ Len(Append(<<a>>, b)) = 2
        /\ Append(<<a>>, b)[1] = a /\ Append(<<a>>, b)[2] = b
    BY <2>1, AppendProperties
  <2>3. Len(<<a, b>>) = 2 /\ \A i \in 1 .. 2 : Append(<<a>>, b)[i] = <<a, b>>[i]
    BY <2>2
  <2>4. \A t, u \in Seq(S) : Len(t) = Len(u) /\ (\A i \in 1 .. Len(t) : t[i] = u[i]) => t = u
    BY SeqEqual
  <2> QED
    BY <2>1, <2>2, <2>3, <2>4, Zenon
<1>5. Append(<<a, b>>, c) = <<a, b, c>>
  <2>1. <<a, b>> \in Seq(S) /\ c \in S /\ <<a, b, c>> \in Seq(S)
    OBVIOUS
  <2>2. /\ Append(<<a, b>>, c) \in Seq(S) /\ Len(Append(<<a, b>>, c)) = 3
        /\ Append(<<a, b>>, c)[1] = a /\ Append(<<a, b>>, c)[2] = b /\ Append(<<a, b>>, c)[3] = c
    BY <2>1, AppendProperties
  <2>3. Len(<<a, b, c>>) = 3 /\ \A i \in 1 .. 3 : Append(<<a, b>>, c)[i] = <<a, b, c>>[i]
    BY <2>2
  <2>4. \A t, u \in Seq(S) : Len(t) = Len(u) /\ (\A i \in 1 .. Len(t) : t[i] = u[i]) => t = u
    BY SeqEqual
  <2> QED
    BY <2>1, <2>2, <2>3, <2>4, Zenon
<1> QED
  BY <1>1, <1>2, <1>3, <1>4, <1>5

\* The control points, and the journal before the command has ended.
LEMMA ControlPoints ==
    ASSUME TypeOK
    PROVE  /\ pc \in Early \cup Late \cup {"pumps", "wait", "join", "interrupted", "killed"}
           /\ JournalForm /\ ~Past =>
                \/ journal = <<>> /\ pc \in {"start", "killed"}
                \/ journal = <<Started>>
                   /\ pc \in {"sidecar", "launch", "pumps", "wait", "join", "interrupted", "killed"}
<1>1. pc \in Early \cup Late \cup {"pumps", "wait", "join", "interrupted", "killed"}
  BY DEF TypeOK, Early, Late
<1>2. ASSUME JournalForm, ~Past
      PROVE  \/ journal = <<>> /\ pc \in {"start", "killed"}
             \/ journal = <<Started>>
                /\ pc \in {"sidecar", "launch", "pumps", "wait", "join", "interrupted", "killed"}
  <2>1. pc \notin Late /\ ~(Len(journal) >= 2)
    BY <1>2 DEF Past
  <2>2. journal # <<Started, Terminal>>
    BY <2>1, JournalTuples
  <2> QED
    BY <1>1, <1>2, <2>1, <2>2 DEF JournalForm, Early, Late
<1> QED
  BY <1>1, <1>2

\* What has ended with the command.
LEMMA PastFacts ==
    ASSUME TypeOK, JournalForm, Threads, Past
    PROVE  /\ pc \in Late \cup {"killed"}
           /\ alive["child"] # "running" /\ doing["child"] = Idle
           /\ open = {}
           /\ \A s \in Streams : pump[s] # "running" /\ pipe[s] = <<>>
<1>1. pc \in Late \cup {"killed"}
  <2>1. /\ pc \in {"sidecar", "launch", "pumps", "wait", "join", "interrupted"} => ~(Len(journal) >= 2)
        /\ pc = "start" => ~(Len(journal) >= 2)
    BY JournalTuples DEF JournalForm
  <2> QED
    BY <2>1, ControlPoints DEF Past, Early, Late
<1> QED
  BY <1>1 DEF Threads, Writers

\* The steps that are left then.
LEMMA PastSteps ==
    ASSUME TypeOK, JournalForm, Threads, Past, Next
    PROVE  \/ Done \/ Collect \/ Tally \/ Kill
           \/ Process("descendant") \/ Signal("descendant")
<1>1. ~(AppendStarted \/ WriteSidecar \/ Launch \/ LaunchFails \/ StartPumps \/ Wait \/ Join \/ Unwind)
  BY PastFacts DEF Late, AppendStarted, WriteSidecar, Launch, LaunchFails, StartPumps, Wait, Join, Unwind
<1>2. ~Spawn /\ ~Interrupt
  BY PastFacts DEF Late, Spawn, Interrupt
<1>3. \A s \in Streams : ~Pump(s)
  BY PastFacts DEF Pump, PumpLine, PumpEnd, PumpFails
<1>4. ~Process("child") /\ ~Signal("child")
  BY PastFacts DEF Process, TryWrite, Write, WriteBroken, ExitProcess, Signal
<1> QED
  BY <1>1, <1>2, <1>3, <1>4 DEF Next, Main, Writers

\* None of them changes what the terminal event says, what was written, or the logs.
LEMMA PastStays ==
    ASSUME TypeOK, JournalForm, Threads, Past, [Next]_vars
    PROVE  /\ Terminal' = Terminal /\ FinalSidecar' = FinalSidecar /\ Total' = Total
           /\ wrote' = wrote /\ log' = log /\ pumpErrors' = pumpErrors
           /\ counts' = counts /\ argv' = argv
           /\ alive'["child"] # "running" /\ open' = {} /\ pipe' = pipe
           /\ \A s \in Streams : pump'[s] # "running" /\ (pc # "killed" /\ pc' # "killed" => pump' = pump)
<1> DEFINE Stays == /\ returncode' = returncode /\ argv' = argv
                    /\ wrote' = wrote /\ log' = log /\ pumpErrors' = pumpErrors /\ counts' = counts
                    /\ alive'["child"] # "running" /\ open' = {} /\ pipe' = pipe
                    /\ \A s \in Streams : /\ pump'[s] # "running"
                                          /\ pc # "killed" /\ pc' # "killed" => pump' = pump
<1> SUFFICES Stays
  BY DEF Terminal, FinalSidecar, Total
<1>1. CASE UNCHANGED vars \/ Done
  BY <1>1, PastFacts DEF Done, vars, record, processes, pumps
<1>2. CASE Collect \/ Tally
  BY <1>2, PastFacts DEF Collect, Tally, processes, pumps
<1>3. CASE Kill
  <2>1. log' = [s \in Streams |-> log[s]]
    BY <1>3, PastFacts DEF Kill
  <2>2. log' = log
    BY <2>1 DEF TypeOK
  <2>3. pipe' = pipe
    BY <1>3, PastFacts DEF Kill, TypeOK
  <2> QED
    BY <1>3, <2>2, <2>3, PastFacts DEF Kill, record, processes
<1>4. CASE Process("descendant") \/ Signal("descendant")
  <2>1. "descendant" \in Writers /\ "child" # "descendant" /\ "child" \in Writers
    BY DEF Writers
  <2>2. CASE TryWrite("descendant")
    BY <2>2, PastFacts DEF TryWrite, record, pumps
  <2>3. CASE Write("descendant")
    BY <2>3, PastFacts DEF Write
  <2>4. CASE WriteBroken("descendant") \/ ExitProcess("descendant") \/ Signal("descendant")
    <3>1. alive'["child"] = alive["child"]
      BY <2>1, <2>4 DEF WriteBroken, ExitProcess, Signal, Leave, TypeOK
    <3>2. returncode' = returncode
      BY <2>1, <2>4 DEF WriteBroken, ExitProcess, Signal
    <3> QED
      BY <2>4, <3>1, <3>2, PastFacts DEF WriteBroken, ExitProcess, Signal, record, pumps
  <2> QED
    BY <1>4, <2>2, <2>3, <2>4 DEF Process
<1> QED
  BY <1>1, <1>2, <1>3, <1>4, PastSteps

\* The journal has the form of its control point after every step.
LEMMA JournalFormStep ==
    ASSUME TypeOK, JournalForm, Threads, [Next]_vars
    PROVE  JournalForm'
<1>1. CASE Past
  <2>1. /\ pc \in Late \cup {"killed"}
        /\ Terminal' = Terminal /\ FinalSidecar' = FinalSidecar /\ Total' = Total
    BY <1>1, PastFacts, PastStays
  <2>2. CASE Collect
    <3>1. journal = <<Started>>
      BY <2>2 DEF Collect, JournalForm
    <3>2. CASE pc = "collect"
      <4>1. journal' = <<Started>> /\ sidecar' = FinalSidecar /\ pc' = "terminal" /\ Len(journal') = 1
        BY <2>2, <3>1, <3>2, JournalTuples DEF Collect
      <4> QED
        BY <2>1, <4>1 DEF JournalForm
    <3>3. CASE pc = "terminal"
      <4>1. journal' = <<Started, Terminal>> /\ pc' = "tally" /\ sidecar' = sidecar
        BY <2>2, <3>1, <3>3, JournalTuples DEF Collect
      <4>2. sidecar = FinalSidecar
        BY <3>3 DEF JournalForm
      <4> QED
        BY <2>1, <4>1, <4>2 DEF JournalForm
    <3> QED
      BY <2>2, <3>2, <3>3 DEF Collect
  <2>3. CASE Tally
    <3>1. journal = <<Started, Terminal>> /\ sidecar = FinalSidecar /\ sidecar' = sidecar /\ pc' = "returned"
      BY <2>3 DEF Tally, JournalForm
    <3>2. journal' = IF Total = 0 THEN journal ELSE Append(journal, TallyEvent)
      BY <2>3 DEF Tally, Total, TallyEvent
    <3>3. TallyEvent' = TallyEvent
      BY <2>1 DEF TallyEvent, Event
    <3>4. Append(<<Started, Terminal>>, TallyEvent) = <<Started, Terminal, TallyEvent>>
      BY JournalTuples
    <3>5. journal' = IF Total' = 0 THEN <<Started, Terminal'>> ELSE <<Started, Terminal', TallyEvent'>>
      BY <2>1, <3>1, <3>2, <3>3, <3>4
    <3>6. Started' = Started
      BY DEF Started, Event
    <3> QED
      BY <2>1, <3>1, <3>5, <3>6 DEF JournalForm
  <2>4. CASE Kill
    <3>1. journal' = journal /\ sidecar' = sidecar /\ pc' = "killed" /\ pc # "returned"
      BY <2>4 DEF Kill, record
    <3> QED
      BY <2>1, <3>1 DEF JournalForm, Late
  <2>5. CASE UNCHANGED vars \/ Done \/ Process("descendant") \/ Signal("descendant")
    <3>1. journal' = journal /\ sidecar' = sidecar /\ pc' = pc
      BY <2>5 DEF Done, vars, record, Process, TryWrite, Write, WriteBroken, ExitProcess, Signal
    <3>2. TallyEvent' = TallyEvent
      BY <2>1 DEF TallyEvent, Event
    <3> QED
      BY <2>1, <3>1, <3>2 DEF JournalForm
  <2> QED
    BY <1>1, <2>2, <2>3, <2>4, <2>5, PastSteps
<1>2. CASE ~Past
  <2>1. \/ journal = <<>> /\ pc \in {"start", "killed"}
        \/ journal = <<Started>>
           /\ pc \in {"sidecar", "launch", "pumps", "wait", "join", "interrupted", "killed"}
    BY <1>2, ControlPoints
  <2>2. CASE AppendStarted \/ WriteSidecar
    <3>1. journal' = <<Started>> /\ Len(journal') = 1 /\ pc' \in {"sidecar", "launch"}
      BY <2>1, <2>2, JournalTuples DEF AppendStarted, WriteSidecar
    <3> QED
      BY <3>1 DEF JournalForm
  <2>3. CASE Launch \/ LaunchFails \/ StartPumps \/ Wait \/ Join \/ Unwind \/ Interrupt
    <3>1. journal = <<Started>> /\ journal' = journal
      BY <2>3 DEF Launch, LaunchFails, StartPumps, Wait, Join, Unwind, Interrupt, record, JournalForm
    <3>2. pc' \in {"pumps", "collect", "wait", "join", "killed", "interrupted"}
      BY <2>3 DEF Launch, LaunchFails, StartPumps, Wait, Join, Unwind, Interrupt
    <3>3. Len(journal') = 1
      BY <3>1, JournalTuples
    <3> QED
      BY <3>1, <3>2, <3>3 DEF JournalForm
  <2>4. CASE Collect \/ Tally
    BY <2>1, <2>4 DEF Collect, Tally
  <2>5. CASE Kill
    <3>1. journal' = journal /\ pc' = "killed"
      BY <2>5 DEF Kill, record
    <3>2. ~(Len(journal') >= 2)
      BY <2>1, <3>1, JournalTuples
    <3> QED
      BY <2>1, <3>1, <3>2 DEF JournalForm
  <2>6. CASE \/ UNCHANGED vars \/ Done \/ Spawn \/ \E s \in Streams : Pump(s)
             \/ \E w \in Writers : Process(w) \/ Signal(w)
    <3>1. journal' = journal /\ sidecar' = sidecar /\ pc' = pc
      BY <2>6 DEF Done, vars, record, Spawn, Pump, PumpLine, PumpEnd, PumpFails,
                  Process, TryWrite, Write, WriteBroken, ExitProcess, Signal
    <3>2. ~(Len(journal') >= 2)
      BY <2>1, <3>1, JournalTuples
    <3> QED
      BY <2>1, <3>1, <3>2 DEF JournalForm
  <2> QED
    BY <2>2, <2>3, <2>4, <2>5, <2>6 DEF Next, Main
<1> QED
  BY <1>1, <1>2

\* The command ends with the join, or with the launch that failed.
LEMMA PastBegins ==
    ASSUME TypeOK, JournalForm, ~Past, [Next]_vars, Past'
    PROVE  Join \/ LaunchFails
<1>1. \/ journal = <<>> /\ pc \in {"start", "killed"}
      \/ journal = <<Started>>
         /\ pc \in {"sidecar", "launch", "pumps", "wait", "join", "interrupted", "killed"}
  BY ControlPoints
<1>2. ~(Len(journal) >= 2) /\ ~(Len(<<Started>>) >= 2)
  BY <1>1, JournalTuples
<1>3. CASE AppendStarted
  <2>1. pc' = "sidecar" /\ journal' = <<Started>>
    BY <1>1, <1>3, JournalTuples DEF AppendStarted
  <2> QED
    BY <1>2, <2>1 DEF Past, Late
<1>4. CASE WriteSidecar \/ Launch \/ StartPumps \/ Wait \/ Unwind \/ Interrupt \/ Kill
  <2>1. journal' = journal /\ pc' \in {"launch", "pumps", "wait", "join", "killed", "interrupted"}
    BY <1>4 DEF WriteSidecar, Launch, StartPumps, Wait, Unwind, Interrupt, Kill, record
  <2> QED
    BY <1>2, <2>1 DEF Past, Late
<1>5. CASE Collect \/ Tally
  BY <1>1, <1>5 DEF Collect, Tally
<1>6. CASE \/ UNCHANGED vars \/ Done \/ Spawn \/ \E s \in Streams : Pump(s)
           \/ \E w \in Writers : Process(w) \/ Signal(w)
  <2>1. journal' = journal /\ pc' = pc
    BY <1>6 DEF Done, vars, record, Spawn, Pump, PumpLine, PumpEnd, PumpFails,
                Process, TryWrite, Write, WriteBroken, ExitProcess, Signal
  <2> QED
    BY <2>1 DEF Past
<1> QED
  BY <1>3, <1>4, <1>5, <1>6 DEF Next, Main

\* Threads and processes are where the control point says after every step.
LEMMA ThreadsStep ==
    ASSUME TypeOK, TypeOK', JournalForm, Threads, [Next]_vars
    PROVE  Threads'
<1> DEFINE Quiet == Past => /\ alive["child"] # "running"
                            /\ open = {}
                            /\ \A s \in Streams : pump[s] # "running"
<1> DEFINE Rest ==
        /\ \A w \in Writers : doing[w] # Idle => alive[w] = "running"
        /\ pc \in Early => /\ \A w \in Writers : alive[w] = "none"
                           /\ open = {}
                           /\ pumpErrors = {}
                           /\ \A s \in Streams : pump[s] = "none" /\ log[s] = <<>> /\ wrote[s] = <<>>
        /\ pc \in {"wait", "join"} => \A s \in Streams : pump[s] # "none"
        /\ pc = "join" => alive["child"] = "gone"
        /\ \A s \in Streams : s \in open => pump[s] # "ended"
        /\ \A s \in Streams : s \notin open => pipe[s] = <<>>
<1>1. Rest
  BY DEF Threads
<1>2. Quiet'
  <2>1. CASE Past
    BY <2>1, PastStays
  <2>2. CASE ~Past /\ Join
    BY <1>1, <2>2 DEF Join, processes, pumps, TypeOK
  <2>3. CASE ~Past /\ LaunchFails
    BY <1>1, <2>3 DEF LaunchFails, Early, Writers
  <2> QED
    BY <2>1, <2>2, <2>3, PastBegins
<1> HIDE DEF Quiet
<1>3. Rest'
  <2>1. CASE UNCHANGED vars \/ Done
    BY <1>1, <2>1 DEF Done, vars, record, processes, pumps
  <2>2. CASE AppendStarted \/ WriteSidecar
    BY <1>1, <2>2 DEF AppendStarted, WriteSidecar, Early, processes, pumps
  <2>3. CASE Launch
    BY <1>1, <2>3 DEF Launch, Early, pumps, TypeOK
  <2>4. CASE LaunchFails
    BY <1>1, <2>4 DEF LaunchFails, Early
  <2>5. CASE StartPumps
    BY <1>1, <2>5 DEF StartPumps, Early, processes, TypeOK, Streams
  <2>6. CASE Wait
    BY <1>1, <2>6 DEF Wait, Early, processes, pumps
  <2>7. CASE Join \/ Collect \/ Tally \/ Interrupt
    BY <1>1, <2>7 DEF Join, Collect, Tally, Interrupt, Early, processes, pumps
  <2>8. CASE Unwind \/ Kill
    BY <1>1, <2>8 DEF Unwind, Kill, Early, processes
  <2>9. CASE Spawn
    BY <1>1, <2>9 DEF Spawn, pumps, Writers, TypeOK
  <2>10. ASSUME NEW s \in Streams, Pump(s)
         PROVE  Rest'
    <3>1. CASE PumpLine(s)
      BY <1>1, <3>1 DEF PumpLine, Early, processes, TypeOK
    <3>2. CASE PumpEnd(s) \/ PumpFails(s)
      BY <1>1, <3>2 DEF PumpEnd, PumpFails, Finish, Early, processes, TypeOK
    <3> QED
      BY <2>10, <3>1, <3>2 DEF Pump
  <2>11. ASSUME NEW w \in Writers, Process(w) \/ Signal(w)
         PROVE  Rest'
    <3>1. alive[w] = "running" /\ pc \notin Early
      BY <1>1, <2>11 DEF Process, TryWrite, Write, WriteBroken, ExitProcess, Signal
    <3>2. CASE TryWrite(w)
      BY <1>1, <3>1, <3>2 DEF TryWrite, pumps, TypeOK
    <3>3. CASE Write(w)
      <4>1. doing[w] \in open /\ \A s \in Streams : s # doing[w] => pipe'[s] = pipe[s]
        BY <3>3 DEF Write, TypeOK
      <4>2. \A v \in Writers : doing'[v] # Idle => doing[v] # Idle
        BY <3>3 DEF Write, TypeOK
      <4>3. pc' = pc /\ alive' = alive /\ open' = open /\ pump' = pump
        BY <3>3 DEF Write, pumps
      <4> QED
        BY <1>1, <3>1, <4>1, <4>2, <4>3
    <3>4. CASE WriteBroken(w) \/ ExitProcess(w) \/ Signal(w)
      <4>1. \A v \in Writers : doing'[v] # Idle => doing[v] # Idle
        BY <3>4 DEF WriteBroken, ExitProcess, Signal, Leave, TypeOK
      <4>2. \A v \in Writers : alive'[v] = alive[v] \/ (alive'[v] = "gone" /\ v = w /\ doing'[v] = Idle)
        <5>1. CASE Leave(w)
          BY <5>1 DEF Leave, TypeOK
        <5>2. CASE ~Leave(w)
          BY <3>4, <5>2 DEF WriteBroken, ExitProcess, Signal
        <5> QED
          BY <5>1, <5>2
      <4>3. pc' = pc /\ open' = open /\ pump' = pump /\ pipe' = pipe
        BY <3>4 DEF WriteBroken, ExitProcess, Signal, pumps
      <4> QED
        BY <1>1, <3>1, <4>1, <4>2, <4>3 DEF Writers
    <3> QED
      BY <2>11, <3>2, <3>3, <3>4 DEF Process
  <2> QED
    BY <2>1, <2>2, <2>3, <2>4, <2>5, <2>6, <2>7, <2>8, <2>9, <2>10, <2>11 DEF Next, Main
<1> QED
  BY <1>2, <1>3 DEF Threads, Quiet

-----------------------------------------------------------------------------
(* Data: the logs and the counts.                                           *)

\* No line is lost between the processes and a log whose pump did not fail.
LEMMA LoggedStep ==
    ASSUME TypeOK, JournalForm, Threads, Logged, [Next]_vars
    PROVE  Logged'
<1> SUFFICES ASSUME NEW s \in Streams, pc' # "killed" \/ Past', s \notin pumpErrors'
             PROVE  log'[s] \o Masked(pipe'[s]) = Masked(wrote'[s])
  BY DEF Logged
<1> DEFINE Whole == log[s] \o Masked(pipe[s]) = Masked(wrote[s])
<1>1. CASE Past
  BY <1>1, PastStays DEF Logged
<1>2. CASE ~Past
  <2>1. pc' # "killed"
    BY <1>2, PastBegins DEF Join, LaunchFails
  <2>2. pc # "killed" => (s \notin pumpErrors => Whole)
    BY DEF Logged
  <2> HIDE DEF Whole
  <2>3. CASE AppendStarted \/ WriteSidecar \/ Wait \/ Join \/ Collect \/ Tally \/ Interrupt
    <3>1. pc # "killed" /\ pumpErrors' = pumpErrors /\ log' = log /\ pipe' = pipe /\ wrote' = wrote
      BY <2>3 DEF AppendStarted, WriteSidecar, Wait, Join, Collect, Tally, Interrupt, processes, pumps
    <3> QED
      BY <2>2, <3>1 DEF Whole
  <2>4. CASE Launch \/ StartPumps \/ Spawn
    <3>1. pc # "killed" \/ Spawn
      BY <2>4 DEF Launch, StartPumps
    <3>2. pumpErrors' = pumpErrors /\ log' = log /\ pipe' = pipe /\ wrote' = wrote /\ (Spawn => pc' = pc)
      BY <2>4 DEF Launch, StartPumps, Spawn, processes, pumps
    <3> QED
      BY <2>1, <2>2, <3>1, <3>2 DEF Whole
  <2>5. CASE LaunchFails
    <3>1. PICK line \in IF argv = 0 THEN {"clean"} ELSE Classes :
            /\ log' = [r \in Streams |-> IF r = "stderr" THEN Masked(<<line>>) ELSE <<>>]
            /\ wrote' = [r \in Streams |-> IF r = "stderr" THEN <<line>> ELSE <<>>]
      BY <2>5 DEF LaunchFails
    <3>2. line \in Classes /\ <<>> \in Seq(Lines)
      BY <3>1, EmptySeq DEF Classes
    <3>3. pipe'[s] = <<>>
      BY <2>5 DEF LaunchFails, Threads, Early
    <3>4. Masked(<<line>>) \o <<>> = Masked(<<line>>) /\ <<>> \o <<>> = <<>>
      BY <3>2, MaskedLine, ConcatEmptySeq
    <3> QED
      BY <3>1, <3>3, <3>4, MaskedEmpty
  <2>6. CASE UNCHANGED vars \/ Done
    <3>1. pc' = pc /\ pumpErrors' = pumpErrors /\ log' = log /\ pipe' = pipe /\ wrote' = wrote
      BY <2>6 DEF Done, vars, processes, pumps
    <3> QED
      BY <2>1, <2>2, <3>1 DEF Whole
  <2>7. CASE Unwind \/ Kill
    BY <2>1, <2>7 DEF Unwind, Kill
  <2>8. ASSUME NEW r \in Streams, Pump(r)
        PROVE  log'[s] \o Masked(pipe'[s]) = Masked(wrote'[s])
    <3>1. pc' = pc /\ wrote' = wrote /\ s \notin pumpErrors
      BY <2>8 DEF Pump, PumpLine, PumpEnd, PumpFails, processes
    <3>2. Whole
      BY <2>1, <2>2, <3>1
    <3>3. CASE r # s
      <4>1. log'[s] = log[s] /\ pipe'[s] = pipe[s]
        BY <2>8, <3>3 DEF Pump, PumpLine, PumpEnd, PumpFails, Finish, TypeOK
      <4> QED
        BY <3>1, <3>2, <4>1 DEF Whole
    <3>4. CASE r = s /\ PumpLine(s)
      <4> DEFINE h == Masked(<<Head(pipe[s])>>)
      <4> DEFINE t == Masked(Tail(pipe[s]))
      <4>1. log'[s] = log[s] \o h /\ pipe'[s] = Tail(pipe[s]) /\ pipe[s] # <<>>
        BY <3>4 DEF PumpLine, TypeOK
      <4>2. Head(pipe[s]) \in Classes /\ Tail(pipe[s]) \in Seq(Classes) /\ h \o t = Masked(pipe[s])
        BY <4>1, TypesOfLines, MaskedHeadTail
      <4>3. log[s] \in Seq(Lines) /\ h \in Seq(Lines) /\ t \in Seq(Lines)
        BY <4>2, TypesOfLines, MaskedLine, MaskedFacts
      <4> HIDE DEF h, t
      <4>4. (log[s] \o h) \o t = log[s] \o (h \o t)
        <5>1. \A a, b, c \in Seq(Lines) : (a \o b) \o c = a \o (b \o c)
          BY ConcatAssociative
        <5> QED
          BY <4>3, <5>1, Zenon
      <4>5. log'[s] \o Masked(pipe'[s]) = (log[s] \o h) \o t
        BY <4>1 DEF t
      <4> QED
        BY <3>1, <3>2, <4>2, <4>4, <4>5 DEF Whole
    <3>5. CASE r = s /\ PumpEnd(s)
      <4>1. log'[s] = log[s] /\ pipe'[s] = pipe[s]
        BY <3>5 DEF PumpEnd, Finish, TypeOK
      <4> QED
        BY <3>1, <3>2, <4>1 DEF Whole
    <3>6. CASE r = s /\ PumpFails(s)
      BY <3>6 DEF PumpFails
    <3> QED
      BY <2>8, <3>3, <3>4, <3>5, <3>6 DEF Pump
  <2>9. ASSUME NEW w \in Writers, Process(w) \/ Signal(w)
        PROVE  log'[s] \o Masked(pipe'[s]) = Masked(wrote'[s])
    <3>1. pc' = pc /\ log' = log /\ pumpErrors' = pumpErrors
      BY <2>9 DEF Process, TryWrite, Write, WriteBroken, ExitProcess, Signal, pumps
    <3>2. Whole
      BY <2>1, <2>2, <3>1
    <3>3. CASE Write(w) /\ s = doing[w]
      <4>1. PICK line \in Classes : /\ pipe' = [pipe EXCEPT ![s] = Append(@, line)]
                                    /\ wrote' = [wrote EXCEPT ![s] = Append(@, line)]
        BY <3>3 DEF Write
      <4> DEFINE l == Masked(<<line>>)
      <4> DEFINE p == Masked(pipe[s])
      <4>2. pipe'[s] = Append(pipe[s], line) /\ wrote'[s] = Append(wrote[s], line)
        BY <4>1 DEF TypeOK
      <4>3. log[s] \in Seq(Lines) /\ p \in Seq(Lines) /\ l \in Seq(Lines)
        BY TypesOfLines, MaskedLine, MaskedFacts
      <4>4. Masked(pipe'[s]) = p \o l /\ Masked(wrote'[s]) = Masked(wrote[s]) \o l
        BY <4>2, TypesOfLines, MaskedAppend
      <4> HIDE DEF l, p
      <4>5. log[s] \o (p \o l) = (log[s] \o p) \o l
        <5>1. \A a, b, c \in Seq(Lines) : (a \o b) \o c = a \o (b \o c)
          BY ConcatAssociative
        <5> QED
          BY <4>3, <5>1, Zenon
      <4>6. log[s] \o p = Masked(wrote[s])
        BY <3>2 DEF Whole, p
      <4> QED
        BY <3>1, <4>4, <4>5, <4>6
    <3>4. CASE ~(Write(w) /\ s = doing[w])
      <4>1. pipe'[s] = pipe[s] /\ wrote'[s] = wrote[s]
        BY <2>9, <3>4 DEF Process, TryWrite, Write, WriteBroken, ExitProcess, Signal, pumps, TypeOK
      <4> QED
        BY <3>1, <3>2, <4>1 DEF Whole
    <3> QED
      BY <3>3, <3>4
  <2> QED
    BY <2>3, <2>4, <2>5, <2>6, <2>7, <2>8, <2>9 DEF Next, Main
<1> QED
  BY <1>1, <1>2

\* The redactions counted for a stream are the masks in its log.
LEMMA CountedStep ==
    ASSUME TypeOK, JournalForm, Threads, Counted, Unbegun, [Next]_vars
    PROVE  Counted'
<1> SUFFICES ASSUME NEW s \in Streams, pc' # "killed"
             PROVE  /\ Masks(log'[s]) <= CountOf(s)'
                    /\ s \notin pumpErrors' => Masks(log'[s]) = CountOf(s)'
  BY DEF Counted
<1> DEFINE Exact == /\ Masks(log[s]) <= CountOf(s)
                    /\ s \notin pumpErrors => Masks(log[s]) = CountOf(s)
<1>1. pc # "killed" => Exact
  BY DEF Counted
<1> HIDE DEF Exact
<1>2. CASE Past
  <2>1. pc \in Late /\ pc' \in Late
    <3>1. CASE Collect \/ Tally
      BY <3>1 DEF Collect, Tally, Late
    <3>2. CASE UNCHANGED vars \/ Done \/ Process("descendant") \/ Signal("descendant")
      <4>1. pc' = pc
        BY <3>2 DEF Done, vars, Process, TryWrite, Write, WriteBroken, ExitProcess, Signal
      <4> QED
        BY <1>2, <4>1, PastFacts
    <3>3. CASE Kill
      BY <3>3 DEF Kill
    <3> QED
      BY <1>2, <3>1, <3>2, <3>3, PastSteps
  <2>2. log' = log /\ counts' = counts /\ pumpErrors' = pumpErrors
    BY <1>2, PastStays
  <2>3. Exact
    BY <1>1, <2>1 DEF Late
  <2> QED
    BY <2>1, <2>2, <2>3 DEF Exact, CountOf
<1>3. CASE ~Past
  <2>1. pc \notin Late
    BY <1>3 DEF Past
  <2>2. CASE \/ AppendStarted \/ WriteSidecar \/ Launch \/ Wait \/ Interrupt \/ Spawn \/ UNCHANGED vars \/ Done
             \/ \E w \in Writers : Process(w) \/ Signal(w)
    <3>1. UNCHANGED <<log, applied, counts, pumpErrors, pump>>
      BY <2>2 DEF AppendStarted, WriteSidecar, Launch, Wait, Interrupt, Spawn, Done, vars, pumps,
                  Process, TryWrite, Write, WriteBroken, ExitProcess, Signal
    <3>2. pc # "killed"
      BY <2>2 DEF AppendStarted, WriteSidecar, Launch, Wait, Interrupt, Spawn, Done, vars,
                  Process, TryWrite, Write, WriteBroken, ExitProcess, Signal
    <3>3. pc' \notin Late
      <4>1. ~(Join \/ LaunchFails)
        BY <2>2 DEF AppendStarted, WriteSidecar, Launch, Wait, Interrupt, Spawn, Done, vars, Join, LaunchFails,
                    Process, TryWrite, Write, WriteBroken, ExitProcess, Signal
      <4> QED
        BY <1>3, <4>1, PastBegins DEF Past
    <3> QED
      BY <1>1, <2>1, <3>1, <3>2, <3>3 DEF Exact, CountOf
  <2>3. CASE StartPumps
    <3>1. UNCHANGED <<log, applied, counts, pumpErrors>> /\ pc \notin Late /\ pc' \notin Late /\ pc # "killed"
      BY <2>3 DEF StartPumps, Late
    <3>2. pump'[s] = "ended" <=> pump[s] = "ended"
      BY <2>3 DEF StartPumps, TypeOK
    <3> QED
      BY <1>1, <3>1, <3>2 DEF Exact, CountOf
  <2>4. CASE Join
    <3>1. UNCHANGED <<log, applied, counts, pumpErrors, pump>> /\ pump[s] = "ended" /\ pc # "killed"
      BY <2>4 DEF Join, pumps
    <3> QED
      BY <1>1, <3>1 DEF Exact, CountOf
  <2>5. CASE LaunchFails
    <3>1. PICK line \in IF argv = 0 THEN {"clean"} ELSE Classes :
            /\ log' = [r \in Streams |-> IF r = "stderr" THEN Masked(<<line>>) ELSE <<>>]
            /\ counts' = [r \in Streams |-> IF r = "stderr" THEN Secrets(<<line>>) ELSE 0]
      BY <2>5 DEF LaunchFails
    <3>2. line \in Classes /\ <<>> \in Seq(Lines)
      BY <3>1, EmptySeq DEF Classes
    <3>3. Masks(Masked(<<line>>)) = Secrets(<<line>>) /\ Secrets(<<line>>) \in Nat
      <4>1. Masks(<<>> \o Masked(<<line>>)) = Masks(<<>>) + Secrets(<<line>>)
        BY <3>2, MasksOfLoggedLine
      <4>2. <<>> \o Masked(<<line>>) = Masked(<<line>>)
        BY <3>2, MaskedLine, ConcatEmptySeq
      <4> QED
        BY <3>2, <4>1, <4>2, MasksEmpty, SecretsOfLine
    <3>4. CountOf(s)' = counts'[s]
      BY <2>5 DEF LaunchFails, CountOf, Late
    <3>5. Masks(log'[s]) = counts'[s] /\ counts'[s] \in Nat
      BY <3>1, <3>3, MasksEmpty
    <3> QED
      BY <3>4, <3>5
  <2>6. CASE Unwind \/ Kill
    BY <2>6 DEF Unwind, Kill
  <2>7. CASE Collect \/ Tally
    BY <2>1, <2>7 DEF Collect, Tally, Late
  <2>8. ASSUME NEW r \in Streams, Pump(r)
        PROVE  /\ Masks(log'[s]) <= CountOf(s)'
               /\ s \notin pumpErrors' => Masks(log'[s]) = CountOf(s)'
    <3>1. pc' = pc /\ pump[r] = "running"
      BY <2>8 DEF Pump, PumpLine, PumpEnd, PumpFails
    <3>2. Exact
      BY <1>1, <3>1
    <3>3. CASE r # s
      <4>1. /\ log'[s] = log[s] /\ pump'[s] = pump[s] /\ applied'[s] = applied[s] /\ counts'[s] = counts[s]
            /\ s \in pumpErrors' <=> s \in pumpErrors
        BY <2>8, <3>3 DEF Pump, PumpLine, PumpEnd, PumpFails, Finish, TypeOK
      <4> QED
        BY <3>1, <3>2, <4>1 DEF Exact, CountOf
    <3>4. CASE r = s /\ PumpLine(s)
      <4>1. /\ log'[s] = log[s] \o Masked(<<Head(pipe[s])>>) /\ pipe[s] # <<>>
            /\ applied'[s] = applied[s] + Secrets(<<Head(pipe[s])>>)
            /\ pump' = pump /\ pumpErrors' = pumpErrors
        BY <3>4 DEF PumpLine, TypeOK
      <4>2. Head(pipe[s]) \in Classes /\ log[s] \in Seq(Lines)
        BY <4>1, TypesOfLines
      <4>3. /\ Masks(log'[s]) = Masks(log[s]) + Secrets(<<Head(pipe[s])>>)
            /\ Secrets(<<Head(pipe[s])>>) \in Nat /\ Masks(log[s]) \in Nat
        BY <4>1, <4>2, MasksOfLoggedLine, SecretsOfLine, MaskPlaces
      <4>4. CountOf(s) = applied[s] /\ CountOf(s)' = applied'[s] /\ applied[s] \in Nat
        BY <2>1, <3>1, <3>4, <4>1 DEF CountOf, TypeOK
      <4> HIDE DEF Masks, Secrets, CountOf
      <4> QED
        BY <3>2, <4>1, <4>3, <4>4 DEF Exact
    <3>5. CASE r = s /\ (PumpEnd(s) \/ PumpFails(s))
      <4>1. pump'[s] = "ended" /\ counts'[s] = applied[s]
        BY <3>5 DEF PumpEnd, PumpFails, Finish, TypeOK
      <4>2. CountOf(s) = applied[s] /\ CountOf(s)' = applied[s] /\ applied[s] \in Nat
        BY <2>1, <3>1, <3>5, <4>1 DEF CountOf, TypeOK
      <4>3. CASE PumpEnd(s)
        <5>1. log' = log /\ pumpErrors' = pumpErrors
          BY <4>3 DEF PumpEnd
        <5> QED
          BY <3>2, <4>2, <5>1 DEF Exact
      <4>4. CASE PumpFails(s)
        <5>1. PICK n \in 0 .. Len(log[s]) : log'[s] = SubSeq(log[s], 1, n)
          BY <4>4 DEF PumpFails, TypeOK
        <5>2. log[s] \in Seq(Lines) /\ SubSeq(log[s], 1, n) \in Seq(Lines)
          BY TypesOfLines
        <5>3. Masks(log'[s]) <= Masks(log[s]) /\ Masks(log'[s]) \in Nat /\ Masks(log[s]) \in Nat
          BY <5>1, <5>2, MasksOfPrefix, MaskPlaces
        <5>4. s \in pumpErrors'
          BY <4>4 DEF PumpFails
        <5> QED
          BY <3>2, <4>2, <5>3, <5>4 DEF Exact
      <4> QED
        BY <3>5, <4>3, <4>4
    <3> QED
      BY <2>8, <3>3, <3>4, <3>5 DEF Pump
  <2> QED
    BY <2>2, <2>3, <2>4, <2>5, <2>6, <2>7, <2>8 DEF Next, Main
<1> QED
  BY <1>2, <1>3

\* Nothing is counted before the launch.
LEMMA UnbegunStep ==
    ASSUME TypeOK, Threads, Unbegun, [Next]_vars
    PROVE  Unbegun'
<1> SUFFICES ASSUME pc' \in Early PROVE pc \in Early /\ applied' = applied /\ counts' = counts
  BY DEF Unbegun
<1>1. CASE AppendStarted \/ WriteSidecar
  BY <1>1 DEF AppendStarted, WriteSidecar, Early, pumps
<1>2. CASE Launch \/ LaunchFails \/ StartPumps \/ Wait \/ Join \/ Collect \/ Tally \/ Unwind \/ Interrupt \/ Kill
  BY <1>2 DEF Launch, LaunchFails, StartPumps, Wait, Join, Collect, Tally, Unwind, Interrupt, Kill, Early
<1>3. CASE UNCHANGED vars \/ Done \/ Spawn \/ \E w \in Writers : Process(w) \/ Signal(w)
  BY <1>3 DEF Done, vars, pumps, Spawn, Process, TryWrite, Write, WriteBroken, ExitProcess, Signal
<1>4. ASSUME NEW s \in Streams, Pump(s)
      PROVE  FALSE
  BY <1>4 DEF Pump, PumpLine, PumpEnd, PumpFails, Threads
<1> QED
  BY <1>1, <1>2, <1>3, <1>4 DEF Next, Main

-----------------------------------------------------------------------------
(* What the invariant says of the record.                                   *)

RecordForm ==
    /\ ~Past \/ pc \in {"collect", "terminal"} => ~Recorded
    /\ Recorded \/ pc \in {"tally", "returned"} =>
         Recorded /\ Past /\ TerminalEvent = Terminal /\ sidecar = FinalSidecar

\* A terminal event is there exactly when a second event is, and says how the command
\* ended.
LEMMA RecordedFacts ==
    ASSUME TypeOK, JournalForm
    PROVE  RecordForm
<1> USE DEF RecordForm
<1>1. /\ ~IsTerminal(Started) /\ IsTerminal(Terminal) /\ ~IsTerminal(TallyEvent)
      /\ ~IsTerminal(Started)
  BY DEF IsTerminal, Started, Terminal, TallyEvent, Event
<1>2. ASSUME journal = <<>> \/ journal = <<Started>>
      PROVE  ~Recorded
  BY <1>1, <1>2 DEF Recorded
<1>3. ASSUME journal = <<Started, Terminal>> \/ journal = <<Started, Terminal, TallyEvent>>
      PROVE  Recorded /\ Len(journal) >= 2 /\ TerminalEvent = Terminal
  <2>1. /\ Len(journal) = 2 \/ Len(journal) = 3
        /\ journal[1] = Started /\ journal[2] = Terminal
        /\ Len(journal) = 3 => journal[3] = TallyEvent
    BY <1>3
  <2>2. \A i \in 1 .. Len(journal) : IsTerminal(journal[i]) <=> i = 2
    <3> SUFFICES ASSUME NEW i \in 1 .. Len(journal)
                 PROVE  IsTerminal(journal[i]) <=> i = 2
      OBVIOUS
    <3>1. i = 1 \/ i = 2 \/ (i = 3 /\ Len(journal) = 3)
      <4>1. CASE Len(journal) = 2
        BY <4>1
      <4>2. CASE Len(journal) = 3
        BY <4>2
      <4> QED
        BY <2>1, <4>1, <4>2
    <3> QED
      BY <1>1, <2>1, <3>1
  <2>3. 2 \in 1 .. Len(journal)
    BY <2>1
  <2>4. (CHOOSE i \in 1 .. Len(journal) : IsTerminal(journal[i])) = 2
    BY <2>2, <2>3
  <2> QED
    BY <2>1, <2>2, <2>3, <2>4 DEF Recorded, TerminalEvent
<1>4. \/ (journal = <<>> \/ journal = <<Started>>) /\ pc \notin {"tally", "returned"}
      \/ (journal = <<Started, Terminal>> \/ journal = <<Started, Terminal, TallyEvent>>)
         /\ pc \in {"tally", "returned", "killed"}
  BY ControlPoints DEF JournalForm, Early, Late
<1>5. ~Past => journal = <<>> \/ journal = <<Started>>
  BY ControlPoints
<1>6. CASE (journal = <<>> \/ journal = <<Started>>) /\ pc \notin {"tally", "returned"}
  BY <1>2, <1>6
<1>7. CASE (journal = <<Started, Terminal>> \/ journal = <<Started, Terminal, TallyEvent>>)
           /\ pc \in {"tally", "returned", "killed"}
  <2>1. Recorded /\ Len(journal) >= 2 /\ TerminalEvent = Terminal
    BY <1>3, <1>7
  <2>2. Past /\ sidecar = FinalSidecar
    BY <2>1 DEF Past, JournalForm
  <2> QED
    BY <1>7, <2>1, <2>2
<1> QED
  BY <1>4, <1>6, <1>7

\* The same of the state after a step.
LEMMA RecordedFactsNext == TypeOK' /\ JournalForm' => RecordForm'
<1>1. TypeOK /\ JournalForm => RecordForm
  BY RecordedFacts
<1> QED
  BY <1>1, PTL

\* Sidecar and terminal event agree whenever the invariant holds.
LEMMA SidecarFollows == ASSUME TypeOK, JournalForm PROVE SidecarAgrees
<1> SUFFICES ASSUME Recorded
             PROVE  sidecar = [status |-> "final", exit |-> TerminalEvent.exit,
                               errors |-> TerminalEvent.errors]
  BY DEF SidecarAgrees
<1>1. TerminalEvent = Terminal /\ sidecar = FinalSidecar
  BY RecordedFacts DEF RecordForm
<1>2. Terminal.exit = returncode /\ Terminal.errors = pumpErrors
  BY DEF Terminal, Event
<1> QED
  BY <1>1, <1>2 DEF FinalSidecar

\* So do the tally, the arguments and the logs once rcr run has returned.
LEMMA TallyFollows == ASSUME TypeOK, JournalForm, Counted PROVE TallyIsExact
<1> DEFINE tallies == {i \in 1 .. Len(journal) : journal[i].type = "redaction.applied"}
<1> DEFINE recorded == IF tallies = {} THEN 0 ELSE journal[CHOOSE i \in tallies : TRUE].applied
<1> DEFINE masks == argv + Masks(log["stdout"]) + Masks(log["stderr"])
<1> SUFFICES ASSUME pc = "returned"
             PROVE  recorded >= masks /\ (pumpErrors = {} => recorded = masks)
  BY DEF TallyIsExact
<1>1. "stdout" \in Streams /\ "stderr" \in Streams
  BY DEF Streams
<1>2. /\ argv \in Nat
      /\ counts["stdout"] \in Nat /\ counts["stderr"] \in Nat
      /\ Masks(log["stdout"]) \in Nat /\ Masks(log["stderr"]) \in Nat
  BY <1>1, RunnerAssumption, TypesOfLines, MaskPlaces DEF TypeOK
<1>3. \A s \in Streams : /\ Masks(log[s]) <= counts[s]
                         /\ s \notin pumpErrors => Masks(log[s]) = counts[s]
  BY DEF Counted, CountOf, Late
<1>4. Total >= masks /\ (pumpErrors = {} => Total = masks) /\ Total \in Nat
  BY <1>1, <1>2, <1>3 DEF Total
<1>5. Started.type # "redaction.applied" /\ Terminal.type # "redaction.applied"
      /\ TallyEvent.type = "redaction.applied" /\ TallyEvent.applied = Total
  BY DEF Started, Terminal, TallyEvent, Event
<1>6. CASE Total = 0
  <2>1. journal = <<Started, Terminal>>
    BY <1>6 DEF JournalForm
  <2>2. Len(journal) = 2 /\ journal[1] = Started /\ journal[2] = Terminal
    BY <2>1
  <2>3. tallies = {}
    BY <1>5, <2>2
  <2>4. recorded = Total
    BY <1>6, <2>3
  <2> QED
    BY <1>4, <2>4
<1>7. CASE Total # 0
  <2>1. journal = <<Started, Terminal, TallyEvent>>
    BY <1>7 DEF JournalForm
  <2>2. Len(journal) = 3 /\ journal[1] = Started /\ journal[2] = Terminal /\ journal[3] = TallyEvent
    BY <2>1
  <2>3. tallies = {3}
    BY <1>5, <2>2
  <2>4. recorded = Total
    BY <1>5, <2>2, <2>3
  <2> QED
    BY <1>4, <2>4
<1> QED
  BY <1>6, <1>7

-----------------------------------------------------------------------------
(* The theorems.                                                            *)

\* The invariant is inductive.
LEMMA IInvStep == IInv /\ [Next]_vars => IInv'
<1> SUFFICES ASSUME IInv, [Next]_vars PROVE IInv'
  OBVIOUS
<1>1. TypeOK /\ JournalForm /\ Threads /\ Logged /\ Counted /\ Unbegun
  BY DEF IInv
<1>2. TypeOK'
  BY <1>1, TypeOKStep
<1>3. JournalForm'
  BY <1>1, JournalFormStep
<1>4. Threads'
  BY <1>1, <1>2, ThreadsStep
<1>5. Logged' /\ Counted' /\ Unbegun'
  BY <1>1, LoggedStep, CountedStep, UnbegunStep
<1> QED
  BY <1>2, <1>3, <1>4, <1>5 DEF IInv

\* In every reachable state the main thread has journaled what its control point says,
\* threads and processes are where it says, and log, pipe and count of a stream whose
\* pump did not fail hold what was written to it.
THEOREM CaptureInvariant == Spec => []IInv
BY InitIInv, IInvStep, PTL DEF Spec

\* Every variable has its type in every reachable state.
THEOREM RunnerTypes == Spec => []TypeOK
<1>1. IInv => TypeOK
  BY DEF IInv
<1> QED
  BY <1>1, CaptureInvariant, PTL

\* Sidecar, terminal event, logs and redaction.applied of one command agree, however
\* many lines it wrote, whatever the pipes hold and whatever failed (runner.py).
THEOREM RecordsAlwaysAgree == Spec => []RecordsAgree
<1>1. IInv => RecordsAgree
  BY SidecarFollows, TallyFollows DEF IInv, RecordsAgree
<1> QED
  BY <1>1, CaptureInvariant, PTL

\* The record that CapturedCommand speaks of, as Captured maps it.
TheRecord == [whole |-> Recorded /\ TerminalEvent.errors = {},
              logs |-> IF Recorded THEN log ELSE [s \in Streams |-> <<>>],
              ended |-> Recorded]

NotYet == [whole |-> FALSE, logs |-> [s \in Streams |-> <<>>], ended |-> FALSE]

\* Before the terminal event there is no record.
LEMMA NoRecordYet == ~Recorded => TheRecord = NotYet
<1> SUFFICES ASSUME ~Recorded PROVE TheRecord = NotYet
  OBVIOUS
<1>1. (Recorded /\ TerminalEvent.errors = {}) = FALSE
  OBVIOUS
<1>2. Recorded = FALSE
  BY DEF Recorded
<1>3. (IF Recorded THEN log ELSE [s \in Streams |-> <<>>]) = [s \in Streams |-> <<>>]
  OBVIOUS
<1> QED
  BY <1>1, <1>2, <1>3, Zenon DEF TheRecord, NotYet

\* The same of the state after a step.
LEMMA NoRecordYetNext == ~Recorded' => TheRecord' = NotYet
<1>1. (~Recorded => TheRecord = NotYet)'
  BY NoRecordYet, PTL
<1>2. NotYet' = NotYet
  BY DEF NotYet
<1> QED
  BY <1>1, <1>2

\* A line enters a pipe before the command is recorded, and by one step.
LEMMA LinesAreEmitted ==
    ASSUME IInv, [Next]_vars, wrote' # wrote
    PROVE  /\ ~Past
           /\ \E s \in Streams, line \in Classes : wrote' = [wrote EXCEPT ![s] = Append(@, line)]
           /\ ~Recorded'
<1>1. TypeOK /\ JournalForm /\ Threads /\ TypeOK' /\ JournalForm'
  BY IInvStep DEF IInv
<1>2. ~Past
  BY <1>1, PastStays
<1>3. CASE LaunchFails
  <2>1. PICK line \in IF argv = 0 THEN {"clean"} ELSE Classes :
          wrote' = [s \in Streams |-> IF s = "stderr" THEN <<line>> ELSE <<>>]
    BY <1>3 DEF LaunchFails
  <2>2. line \in Classes /\ "stderr" \in Streams
    BY DEF Classes, Streams
  <2>3. \A s \in Streams : wrote[s] = <<>>
    BY <1>1, <1>3 DEF LaunchFails, Threads, Early
  <2>4. Append(wrote["stderr"], line) = <<line>>
    BY <2>2, <2>3, JournalTuples
  <2>5. wrote' = [wrote EXCEPT !["stderr"] = Append(@, line)]
    BY <1>1, <2>1, <2>2, <2>3, <2>4 DEF TypeOK
  <2>6. pc' = "collect"
    BY <1>3 DEF LaunchFails
  <2> QED
    BY <1>1, <1>2, <2>2, <2>5, <2>6, RecordedFactsNext DEF RecordForm
<1>4. CASE \E w \in Writers : Write(w)
  <2>1. PICK w \in Writers : Write(w)
    BY <1>4
  <2>2. doing[w] \in Streams /\ ~Join /\ ~LaunchFails
    BY <1>1, <2>1 DEF Write, Join, LaunchFails, TypeOK, Idle, Streams
  <2>3. \E line \in Classes : wrote' = [wrote EXCEPT ![doing[w]] = Append(@, line)]
    BY <2>1 DEF Write
  <2>4. ~Past'
    BY <1>1, <1>2, <2>2, PastBegins
  <2> QED
    BY <1>1, <1>2, <2>2, <2>3, <2>4, RecordedFactsNext DEF RecordForm
<1>5. CASE ~LaunchFails /\ ~(\E w \in Writers : Write(w))
  <2>1. wrote' = wrote
    BY <1>5 DEF Next, Main, AppendStarted, WriteSidecar, Launch, StartPumps, Wait, Join, Collect, Tally, Unwind,
                Spawn, Interrupt, Kill, Done, vars, processes, Pump, PumpLine, PumpEnd, PumpFails,
                Process, TryWrite, WriteBroken, ExitProcess, Signal
  <2> QED
    BY <2>1
<1> QED
  BY <1>3, <1>4, <1>5

\* The record does not change once it is made.
LEMMA RecordStays ==
    ASSUME IInv, [Next]_vars, Recorded
    PROVE  TheRecord' = TheRecord /\ wrote' = wrote
<1>1. TypeOK /\ JournalForm /\ Threads /\ TypeOK' /\ JournalForm' /\ Threads'
  BY IInvStep DEF IInv
<1>2. Past /\ TerminalEvent = Terminal /\ pc \notin {"collect", "terminal"}
  BY <1>1, RecordedFacts DEF RecordForm
<1>3. Terminal' = Terminal /\ log' = log /\ wrote' = wrote
  BY <1>1, <1>2, PastStays
<1>4. Recorded'
  <2>1. CASE Collect \/ Tally
    <3>1. pc' = "returned"
      BY <1>2, <2>1 DEF Collect, Tally
    <3> QED
      BY <1>1, <3>1, RecordedFactsNext DEF RecordForm
  <2>2. CASE UNCHANGED vars \/ Done \/ Kill \/ Process("descendant") \/ Signal("descendant")
    <3>1. journal' = journal
      BY <2>2 DEF Done, vars, Kill, record, Process, TryWrite, Write, WriteBroken, ExitProcess, Signal
    <3> QED
      BY <3>1 DEF Recorded
  <2> QED
    BY <1>1, <1>2, <2>1, <2>2, PastSteps
<1>5. TerminalEvent' = Terminal'
  BY <1>1, <1>4, RecordedFactsNext DEF RecordForm
<1> QED
  BY <1>2, <1>3, <1>4, <1>5 DEF TheRecord

LogsAreWhole ==
    Recorded /\ TheRecord.whole => \A s \in Streams : TheRecord.logs[s] = Masked(wrote[s])

\* When it is made, its logs are what was written unless it says that logging failed.
LEMMA RecordIsWhole ==
    ASSUME IInv
    PROVE  LogsAreWhole
<1> SUFFICES ASSUME Recorded, TheRecord.whole
             PROVE  \A s \in Streams : TheRecord.logs[s] = Masked(wrote[s])
  BY DEF LogsAreWhole
<1>1. TypeOK /\ JournalForm /\ Threads /\ Logged
  BY DEF IInv
<1>2. Past /\ TerminalEvent = Terminal
  BY <1>1, RecordedFacts DEF RecordForm
<1>3. pumpErrors = {} /\ TheRecord.logs = log
  BY <1>2 DEF TheRecord, Terminal, Event
<1> SUFFICES ASSUME NEW s \in Streams PROVE log[s] = Masked(wrote[s])
  BY <1>3
<1>4. pipe[s] = <<>>
  BY <1>1, <1>2, PastFacts
<1>5. log[s] \o Masked(pipe[s]) = Masked(wrote[s])
  BY <1>1, <1>2, <1>3 DEF Logged
<1>6. log[s] \in Seq(Lines) /\ Masked(pipe[s]) = <<>>
  BY <1>1, <1>4, TypesOfLines, MaskedEmpty
<1>7. log[s] \o <<>> = log[s]
  BY <1>6, ConcatEmptySeq
<1> QED
  BY <1>5, <1>6, <1>7

\* The same of the state after a step.
LEMMA RecordIsWholeNext == IInv' => LogsAreWhole'
<1>1. IInv => LogsAreWhole
  BY RecordIsWhole
<1> QED
  BY <1>1, PTL

\* rcr run implements CapturedCommand: for every pipe size, every number of lines and
\* every failure, the command is recorded at most once, after its last line, with logs
\* that hold every line masked and in order or a record that says which one failed.
THEOREM CaptureIsFaithful == Spec => Implements
<1>1. Init => Captured!Init
  <2> SUFFICES ASSUME Init PROVE Captured!Init
    OBVIOUS
  <2>1. ~Recorded
    BY JournalTuples DEF Init, Recorded
  <2>2. TheRecord = Captured!NoRecord
    BY <2>1, NoRecordYet DEF NotYet, Captured!NoRecord
  <2> QED
    BY <2>2 DEF Init, Captured!Init, TheRecord
<1>2. IInv /\ IInv' /\ [Next]_vars => [Captured!Next]_<<wrote, TheRecord>>
  <2> SUFFICES ASSUME IInv, IInv', [Next]_vars
               PROVE  Captured!Next \/ (wrote' = wrote /\ TheRecord' = TheRecord)
    OBVIOUS
  <2>1. CASE Recorded
    BY <2>1, RecordStays
  <2>2. CASE ~Recorded /\ wrote' # wrote
    <3>1. TheRecord' = TheRecord
      BY <2>2, LinesAreEmitted, NoRecordYet, NoRecordYetNext
    <3>3. ~TheRecord.ended
      BY <2>2 DEF TheRecord
    <3>2. \E s \in Streams, line \in {"clean", "secret"} : wrote' = [wrote EXCEPT ![s] = Append(@, line)]
      BY <2>2, LinesAreEmitted DEF Classes
    <3> QED
      BY <3>1, <3>2, <3>3 DEF Captured!Next, Captured!Emit, TheRecord
  <2>3. CASE ~Recorded /\ wrote' = wrote /\ Recorded'
    <3>1. ~TheRecord.ended /\ TheRecord'.ended
      BY <2>3 DEF TheRecord
    <3>2. TheRecord'.whole => \A s \in Streams : TheRecord'.logs[s] = Masked(wrote'[s])
      BY <2>3, RecordIsWholeNext DEF LogsAreWhole
    <3> QED
      BY <2>3, <3>1, <3>2 DEF Captured!Next, Captured!Record, TheRecord
  <2>4. CASE ~Recorded /\ wrote' = wrote /\ ~Recorded'
    BY <2>4, NoRecordYet, NoRecordYetNext
  <2> QED
    BY <2>1, <2>2, <2>3, <2>4
<1> QED
  BY <1>1, <1>2, CaptureInvariant, PTL DEF Spec, Implements, Captured!Spec, TheRecord
=============================================================================
