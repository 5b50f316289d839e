--------------------------- MODULE RunModelProofs ---------------------------
(***************************************************************************)
(* Proofs about the reducer of module RunModel: what the model of a run is *)
(* and how it follows the journal, for journals of any length.             *)
(***************************************************************************)
EXTENDS Crate, WellFoundedInduction, SequenceTheorems, FiniteSetTheorems, TLAPS

-----------------------------------------------------------------------------
(* Induction and recursion over the natural numbers, with a set in place of  *)
(* the usual predicate and a function in place of the usual operator.        *)

\* A set that holds 0 and every successor holds every natural number.
LEMMA Induction ==
    ASSUME NEW T, 0 \in T, \A n \in Nat : n \in T => n + 1 \in T
    PROVE  Nat \subseteq T
<1> SUFFICES ASSUME Nat \ T # {} PROVE FALSE
  OBVIOUS
<1> DEFINE R == OpToRel(<, Nat)
<1>1. PICK x \in Nat \ T : \A y \in Nat \ T : ~ (<<y, x>> \in R)
  <2> HIDE DEF R
  <2>1. IsWellFoundedOn(R, Nat)
    BY NatLessThanWellFounded DEF R
  <2>2. Nat \ T \subseteq Nat
    OBVIOUS
  <2> QED
    BY <2>1, <2>2, WFMin
<1>2. x # 0 /\ x - 1 \in Nat
  OBVIOUS
<1>3. <<x - 1, x>> \in R
  BY <1>2 DEF OpToRel
<1> HIDE DEF R
<1> QED
  BY <1>1, <1>2, <1>3

\* So does one that holds 0 and the successors up to a bound, of the numbers up to it.
LEMMA BoundedInduction ==
    ASSUME NEW T, NEW n \in Nat, 0 \in T, \A k \in 0 .. n - 1 : k \in T => k + 1 \in T
    PROVE  0 .. n \subseteq T
<1> DEFINE U == {k \in Nat : k <= n => k \in T}
<1>1. 0 \in U
  OBVIOUS
<1>2. ASSUME NEW k \in Nat, k \in U PROVE k + 1 \in U
  BY <1>2
<1> HIDE DEF U
<1>3. Nat \subseteq U
  BY <1>1, <1>2, Induction
<1> QED
  BY <1>3 DEF U

\* The first n values of a recursion.
Recursive(g, n, base, step) ==
    g[0] = base /\ \A i \in 1 .. n : g[i] = step[i][g[i - 1]]

\* A function on a set is iterated by a function.
LEMMA Recursion ==
    ASSUME NEW S, NEW base \in S, NEW n \in Nat, NEW step \in [1 .. n -> [S -> S]]
    PROVE  \E g \in [0 .. n -> S] : Recursive(g, n, base, step)
<1> DEFINE Upto(k) == \E g \in [0 .. k -> S] : Recursive(g, k, base, step)
           T == {k \in Nat : k <= n => Upto(k)}
<1>1. 0 \in T
  <2> DEFINE g == [i \in 0 .. 0 |-> base]
  <2>1. g \in [0 .. 0 -> S] /\ g[0] = base
    OBVIOUS
  <2>2. Recursive(g, 0, base, step)
    BY <2>1 DEF Recursive
  <2> HIDE DEF g
  <2> QED
    BY <2>1, <2>2
<1>2. ASSUME NEW k \in Nat, k \in T PROVE k + 1 \in T
  <2> SUFFICES ASSUME k + 1 <= n PROVE Upto(k + 1)
    OBVIOUS
  <2>1. PICK g \in [0 .. k -> S] : Recursive(g, k, base, step)
    BY <1>2
  <2> DEFINE h == [i \in 0 .. k + 1 |-> IF i = k + 1 THEN step[k + 1][g[k]] ELSE g[i]]
  <2>2. step[k + 1][g[k]] \in S
    <3>1. g[k] \in S /\ step[k + 1] \in [S -> S]
      BY <2>1
    <3> QED
      BY <3>1
  <2>3. h \in [0 .. k + 1 -> S]
    BY <2>1, <2>2
  <2>4. h[0] = base
    BY <2>1 DEF Recursive
  <2>5. ASSUME NEW i \in 1 .. k + 1 PROVE h[i] = step[i][h[i - 1]]
    <3>1. i - 1 \in 0 .. k /\ i \in 0 .. k + 1
      OBVIOUS
    <3>2. h[i - 1] = g[i - 1]
      BY <3>1
    <3>3. CASE i = k + 1
      <4>1. h[i] = step[k + 1][g[k]] /\ i - 1 = k
        BY <3>3
      <4> QED
        BY <3>2, <4>1, <3>3
    <3>4. CASE i \in 1 .. k
      <4>1. h[i] = g[i]
        BY <3>4
      <4> QED
        BY <2>1, <3>2, <3>4, <4>1 DEF Recursive
    <3> QED
      BY <3>3, <3>4
  <2> HIDE DEF h
  <2>6. Recursive(h, k + 1, base, step)
    BY <2>4, <2>5 DEF Recursive
  <2> QED
    BY <2>3, <2>6
<1> HIDE DEF T
<1>3. n \in T
  BY <1>1, <1>2, Induction
<1> QED
  BY <1>3 DEF T

-----------------------------------------------------------------------------
(* Types. *)

ActionIds == {Uuid(n) : n \in Nat}

DeclarationEvents ==
    [type : {"workflow.input.declared", "workflow.output.declared"}, path : Paths,
     role : STRING, copy : STRING, existence : {"local", "absent"}]
PhaseEvents ==
    [type : {"workflow.phase.started", "workflow.phase.completed"}, name : STRING]
StepStartEvents == [type : {"workflow.step.started"}, step : Names.steps]
StepEndEvents ==
    [type : {"workflow.step.terminal"}, step : Names.steps, status : StepTerminals]
StartEvents ==
    [type : {"execution.command.started"}, command : Nat, action : ActionIds, tool : STRING,
     step : Names.steps \cup {NoStep}, inputs : SUBSET Paths, outputs : SUBSET Paths]
EndEvents ==
    [type : {"execution.command.terminal"}, command : Nat,
     status : {"completed", "failed", "blocked"}]
FileEvents == [type : {"file"}, path : Paths, op : STRING]
ToolEvents == [type : {"tool.completed"}, tool : STRING]
TaskEvents == [type : {"agent.task"}, task : STRING]
ResultEvents == [type : {"human.result"}, accepted : BOOLEAN]
AbortEvents == [type : {"run.aborted"}]

Events ==
    DeclarationEvents \cup PhaseEvents \cup StepStartEvents \cup StepEndEvents \cup StartEvents
    \cup EndEvents \cup FileEvents \cup ToolEvents \cup TaskEvents \cup ResultEvents
    \cup AbortEvents

Workflows == {NoWorkflow, AgentActions} \cup {Definition(p) : p \in Paths}

StepMaps == UNION {[S -> {"identified", "started"} \cup StepTerminals] : S \in SUBSET Names.steps}

Phases == [name : STRING, status : {"", "started", "completed"}, at : Nat]

Commands ==
    [command : Nat, action : ActionIds, tool : STRING, step : Names.steps \cup {NoStep},
     inputs : SUBSET Paths, outputs : SUBSET Paths, at : Nat,
     status : {"started", "completed", "failed", "blocked"}]

FileActions == [path : Paths, op : STRING, at : Nat]

Shells == [tool : STRING, at : Nat]

Tasks == [task : STRING, at : Nat]

Flags == BOOLEAN

Models ==
    [inputs : Seq(DeclarationEvents), outputs : Seq(DeclarationEvents), workflow : Workflows,
     steps : StepMaps, phases : Seq(Phases), commands : Seq(Commands),
     edits : Seq(FileActions), shells : Seq(Shells), tasks : Seq(Tasks), taskEvents : Nat,
     results : Seq(Flags), aborted : Flags]

-----------------------------------------------------------------------------
(* Projectors keep the types. *)

\* The empty model is one.
LEMMA EmptyTyped == EmptyModel \in Models
<1>1. <<>> \in StepMaps
  <2>1. <<>> \in [{} -> {"identified", "started"} \cup StepTerminals]
    OBVIOUS
  <2> QED
    BY <2>1 DEF StepMaps
<1> QED
  BY <1>1 DEF EmptyModel, Models, Workflows, Flags

\* d[name] = record on a sequence of records.
LEMMA AssignTyped ==
    ASSUME NEW S, NEW seq \in Seq(S), NEW key, NEW record \in S
    PROVE  /\ Assign(seq, key, record) \in Seq(S)
           /\ SetDefault(seq, key, record) \in Seq(S)
<1>1. Append(seq, record) \in Seq(S)
  OBVIOUS
<1>2. [i \in DOMAIN seq |-> IF i \in Keyed(seq, key, record[key]) THEN record ELSE seq[i]] \in Seq(S)
  OBVIOUS
<1> QED
  BY <1>1, <1>2 DEF Assign, SetDefault

\* The fields of a model.
LEMMA ModelFields ==
    ASSUME NEW m \in Models
    PROVE  /\ m.inputs \in Seq(DeclarationEvents) /\ m.outputs \in Seq(DeclarationEvents)
           /\ m.workflow \in Workflows /\ m.steps \in StepMaps
           /\ m.phases \in Seq(Phases) /\ m.commands \in Seq(Commands)
           /\ m.edits \in Seq(FileActions) /\ m.shells \in Seq(Shells) /\ m.tasks \in Seq(Tasks)
           /\ m.taskEvents \in Nat /\ m.results \in Seq(Flags) /\ m.aborted \in Flags
BY DEF Models

\* A model with one field changed is one.
LEMMA ModelUpdates ==
    ASSUME NEW m \in Models
    PROVE  /\ \A x \in Seq(DeclarationEvents) : [m EXCEPT !.inputs = x] \in Models
           /\ \A x \in Seq(DeclarationEvents) : [m EXCEPT !.outputs = x] \in Models
           /\ \A x \in Workflows : [m EXCEPT !.workflow = x] \in Models
           /\ \A x \in StepMaps : [m EXCEPT !.steps = x] \in Models
           /\ \A x \in Seq(Phases) : [m EXCEPT !.phases = x] \in Models
           /\ \A x \in Seq(Commands) : [m EXCEPT !.commands = x] \in Models
           /\ \A x \in Seq(FileActions) : [m EXCEPT !.edits = x] \in Models
           /\ \A x \in Seq(Shells) : [m EXCEPT !.shells = x] \in Models
           /\ \A x \in Seq(Tasks), y \in Nat : [m EXCEPT !.taskEvents = y, !.tasks = x] \in Models
           /\ \A x \in Seq(Flags) : [m EXCEPT !.results = x] \in Models
           /\ [m EXCEPT !.aborted = TRUE] \in Models
BY DEF Models, Flags

\* The status of a step is recorded.
LEMMA WithStepTyped ==
    ASSUME NEW steps \in StepMaps, NEW step \in Names.steps,
           NEW status \in {"identified", "started"} \cup StepTerminals
    PROVE  WithStep(steps, step, status) \in StepMaps
<1>1. PICK S \in SUBSET Names.steps : steps \in [S -> {"identified", "started"} \cup StepTerminals]
  BY DEF StepMaps
<1>2. WithStep(steps, step, status) \in [S \cup {step} -> {"identified", "started"} \cup StepTerminals]
  BY <1>1 DEF WithStep
<1>3. S \cup {step} \in SUBSET Names.steps
  OBVIOUS
<1> QED
  BY <1>2, <1>3 DEF StepMaps

\* What the type of an event says of its fields.
LEMMA EventFields ==
    ASSUME NEW e \in Events
    PROVE  /\ e.type \in {"workflow.input.declared", "workflow.output.declared"} => e \in DeclarationEvents
           /\ e.type \in {"workflow.phase.started", "workflow.phase.completed"} => e \in PhaseEvents
           /\ e.type = "workflow.step.started" => e \in StepStartEvents
           /\ e.type = "workflow.step.terminal" => e \in StepEndEvents
           /\ e.type = "execution.command.started" => e \in StartEvents
           /\ e.type = "execution.command.terminal" => e \in EndEvents
           /\ e.type = "file" => e \in FileEvents
           /\ e.type = "tool.completed" => e \in ToolEvents
           /\ e.type = "agent.task" => e \in TaskEvents
           /\ e.type = "human.result" => e \in ResultEvents
BY DEF Events, DeclarationEvents, PhaseEvents, StepStartEvents, StepEndEvents, StartEvents, EndEvents,
       FileEvents, ToolEvents, TaskEvents, ResultEvents, AbortEvents

\* What each projector does to the model.
LEMMA Projected ==
    ASSUME NEW m, NEW e, NEW i
    PROVE  /\ e.type = "workflow.input.declared" => Project(m, e, i) = ReduceInputDeclared(m, e)
           /\ e.type = "workflow.output.declared" => Project(m, e, i) = ReduceOutputDeclared(m, e)
           /\ e.type = "workflow.phase.started" => Project(m, e, i) = ReducePhaseStarted(m, e, i)
           /\ e.type = "workflow.phase.completed" => Project(m, e, i) = ReducePhaseCompleted(m, e, i)
           /\ e.type = "workflow.step.started" => Project(m, e, i) = ReduceStepStarted(m, e)
           /\ e.type = "workflow.step.terminal" => Project(m, e, i) = ReduceStepTerminal(m, e)
           /\ e.type = "execution.command.started" => Project(m, e, i) = ReduceCommandStarted(m, e, i)
           /\ e.type = "execution.command.terminal" => Project(m, e, i) = ReduceCommandTerminal(m, e)
           /\ e.type = "file" => Project(m, e, i) = ReduceFileAction(m, e, i)
           /\ e.type = "tool.completed" => Project(m, e, i) = ReduceToolCompleted(m, e, i)
           /\ e.type = "agent.task" => Project(m, e, i) = ReduceSubagent(m, e, i)
           /\ e.type = "human.result" => Project(m, e, i) = ReduceResult(m, e)
           /\ e.type = "run.aborted" => Project(m, e, i) = [m EXCEPT !.aborted = TRUE]
BY DEF Project

\* The types an event can have.
EventTypes ==
    {"workflow.input.declared", "workflow.output.declared", "workflow.phase.started",
     "workflow.phase.completed", "workflow.step.started", "workflow.step.terminal",
     "execution.command.started", "execution.command.terminal", "file", "tool.completed",
     "agent.task", "human.result", "run.aborted"}

\* Every event has one of them.
LEMMA EventTyped ==
    ASSUME NEW e \in Events PROVE e.type \in EventTypes
BY DEF Events, DeclarationEvents, PhaseEvents, StepStartEvents, StepEndEvents, StartEvents, EndEvents,
       FileEvents, ToolEvents, TaskEvents, ResultEvents, AbortEvents, EventTypes

\* A phase that ends keeps the types.
LEMMA PhaseTyped ==
    ASSUME NEW m \in Models, NEW e \in PhaseEvents, NEW i \in Nat
    PROVE  /\ ReducePhaseStarted(m, e, i) \in Models
           /\ ReducePhaseCompleted(m, e, i) \in Models
<1>1. e.name \in STRING
  BY DEF PhaseEvents
<1>2. m.phases \in Seq(Phases)
  BY ModelFields
<1>3. [name |-> e.name, status |-> "started", at |-> i] \in Phases
  BY <1>1 DEF Phases
<1>4. Assign(m.phases, "name", [name |-> e.name, status |-> "started", at |-> i]) \in Seq(Phases)
  BY <1>2, <1>3, AssignTyped
<1> DEFINE new == [name |-> e.name, status |-> "", at |-> i]
           seen == SetDefault(m.phases, "name", new)
           entry == Entry(seen, "name", e.name)
<1>5. new \in Phases /\ new.name = e.name
  BY <1>1 DEF Phases
<1>6. seen \in Seq(Phases)
  BY <1>2, <1>5, AssignTyped
<1>7. Keyed(seen, "name", e.name) # {}
  <2>1. CASE Keyed(m.phases, "name", e.name) = {}
    <3>1. seen = Append(m.phases, new)
      BY <1>5, <2>1 DEF SetDefault
    <3> HIDE DEF seen, new
    <3>2. Len(seen) \in DOMAIN seen /\ seen[Len(seen)] = new
      BY <1>2, <1>5, <3>1
    <3> QED
      BY <1>5, <3>2 DEF Keyed
  <2>2. CASE Keyed(m.phases, "name", e.name) # {}
    BY <1>5, <2>2 DEF SetDefault
  <2> QED
    BY <2>1, <2>2
<1>8. \E k \in DOMAIN seen : entry = seen[k]
  BY <1>7 DEF Entry, Keyed
<1> HIDE DEF seen, entry
<1>9. entry \in Phases
  BY <1>6, <1>8
<1>10. [entry EXCEPT !.status = "completed"] \in Phases
  BY <1>9 DEF Phases
<1>11. Assign(seen, "name", [entry EXCEPT !.status = "completed"]) \in Seq(Phases)
  BY <1>6, <1>10, AssignTyped
<1>12. ReducePhaseCompleted(m, e, i) = [m EXCEPT !.phases = Assign(seen, "name", [entry EXCEPT !.status = "completed"])]
  BY DEF ReducePhaseCompleted, seen, entry
<1> QED
  BY <1>4, <1>11, <1>12, ModelUpdates DEF ReducePhaseStarted

\* A command that starts or ends keeps the types.
LEMMA CommandTyped ==
    ASSUME NEW m \in Models
    PROVE  /\ \A e \in StartEvents, i \in Nat : ReduceCommandStarted(m, e, i) \in Models
           /\ \A e \in EndEvents : ReduceCommandTerminal(m, e) \in Models
<1>1. m.commands \in Seq(Commands)
  BY ModelFields
<1>2. ASSUME NEW e \in StartEvents, NEW i \in Nat PROVE ReduceCommandStarted(m, e, i) \in Models
  <2> DEFINE record == [command |-> e.command, action |-> e.action, tool |-> e.tool,
                        step |-> e.step, inputs |-> e.inputs, outputs |-> e.outputs,
                        at |-> i, status |-> "started"]
  <2>1. record \in Commands
    BY DEF Commands, StartEvents
  <2> HIDE DEF record
  <2>2. Assign(m.commands, "command", record) \in Seq(Commands)
    BY <1>1, <2>1, AssignTyped
  <2> QED
    BY <2>2, ModelUpdates DEF ReduceCommandStarted, record
<1>3. ASSUME NEW e \in EndEvents PROVE ReduceCommandTerminal(m, e) \in Models
  <2> DEFINE ended == [k \in DOMAIN m.commands |->
                          IF m.commands[k].command = e.command
                          THEN [m.commands[k] EXCEPT !.status = e.status] ELSE m.commands[k]]
  <2>1. ASSUME NEW c \in Commands PROVE [c EXCEPT !.status = e.status] \in Commands
    BY DEF Commands, EndEvents
  <2>2. ended \in Seq(Commands)
    BY <1>1, <2>1
  <2> HIDE DEF ended
  <2> QED
    BY <2>2, ModelUpdates DEF ReduceCommandTerminal, ended
<1> QED
  BY <1>2, <1>3

\* Every projector keeps the types.
LEMMA ProjectTyped ==
    ASSUME NEW m \in Models, NEW e \in Events, NEW i \in Nat
    PROVE  Project(m, e, i) \in Models
<1>1. CASE e.type = "workflow.input.declared"
  <2>1. e \in DeclarationEvents
    BY <1>1, EventFields
  <2>2. Append(m.inputs, e) \in Seq(DeclarationEvents) /\ m.workflow \in Workflows
    BY <2>1, ModelFields
  <2>3. Definition(e.path) \in Workflows
    BY <2>1 DEF Workflows, DeclarationEvents
  <2> DEFINE read == [m EXCEPT !.inputs = Append(@, e)]
             workflow == IF e.role = "workflow-definition" \/ e.path \in Definitions
                         THEN Definition(e.path) ELSE m.workflow
  <2>4. read \in Models
    BY <2>2, ModelUpdates
  <2>5. workflow \in Workflows
    BY <2>2, <2>3
  <2> HIDE DEF workflow
  <2>6. ReduceInputDeclared(m, e) = [read EXCEPT !.workflow = workflow]
    BY DEF ReduceInputDeclared, Models, workflow
  <2> HIDE DEF read
  <2>7. Project(m, e, i) = ReduceInputDeclared(m, e)
    BY <1>1, Projected
  <2>8. [read EXCEPT !.workflow = workflow] \in Models
    BY <2>4, <2>5, ModelUpdates
  <2> QED
    BY <2>6, <2>7, <2>8
<1>2. CASE e.type = "workflow.output.declared"
  <2>1. e \in DeclarationEvents
    BY <1>2, EventFields
  <2>2. Append(m.outputs, e) \in Seq(DeclarationEvents)
    BY <2>1, ModelFields
  <2>3. Project(m, e, i) = ReduceOutputDeclared(m, e)
    BY <1>2, Projected
  <2> QED
    BY <2>2, <2>3, ModelUpdates DEF ReduceOutputDeclared
<1>3. CASE e.type \in {"workflow.phase.started", "workflow.phase.completed"}
  <2>1. e \in PhaseEvents
    BY <1>3, EventFields
  <2>2. Project(m, e, i) \in {ReducePhaseStarted(m, e, i), ReducePhaseCompleted(m, e, i)}
    BY <1>3, Projected
  <2> QED
    BY <2>1, <2>2, PhaseTyped
<1>4. CASE e.type = "workflow.step.started"
  <2>1. e \in StepStartEvents
    BY <1>4, EventFields
  <2>2. m.steps \in StepMaps
    BY ModelFields
  <2>3. WithStep(m.steps, e.step, "started") \in StepMaps
    BY <2>1, <2>2, WithStepTyped DEF StepStartEvents
  <2>4. Project(m, e, i) = ReduceStepStarted(m, e)
    BY <1>4, Projected
  <2> QED
    BY <2>3, <2>4, ModelUpdates DEF ReduceStepStarted
<1>5. CASE e.type = "workflow.step.terminal"
  <2>1. e \in StepEndEvents
    BY <1>5, EventFields
  <2>2. m.steps \in StepMaps
    BY ModelFields
  <2>3. WithStep(m.steps, e.step, e.status) \in StepMaps
    BY <2>1, <2>2, WithStepTyped DEF StepEndEvents
  <2>4. Project(m, e, i) = ReduceStepTerminal(m, e)
    BY <1>5, Projected
  <2> QED
    BY <2>3, <2>4, ModelUpdates DEF ReduceStepTerminal
<1>6. CASE e.type = "execution.command.started"
  <2>1. e \in StartEvents
    BY <1>6, EventFields
  <2>2. Project(m, e, i) = ReduceCommandStarted(m, e, i)
    BY <1>6, Projected
  <2> QED
    BY <2>1, <2>2, CommandTyped
<1>7. CASE e.type = "execution.command.terminal"
  <2>1. e \in EndEvents
    BY <1>7, EventFields
  <2>2. Project(m, e, i) = ReduceCommandTerminal(m, e)
    BY <1>7, Projected
  <2> QED
    BY <2>1, <2>2, CommandTyped
<1>8. CASE e.type = "file"
  <2>1. e \in FileEvents
    BY <1>8, EventFields
  <2>2. [path |-> e.path, op |-> e.op, at |-> i] \in FileActions
    BY <2>1 DEF FileEvents, FileActions
  <2>3. Append(m.edits, [path |-> e.path, op |-> e.op, at |-> i]) \in Seq(FileActions)
    BY <2>2, ModelFields
  <2>4. Project(m, e, i) = ReduceFileAction(m, e, i)
    BY <1>8, Projected
  <2> QED
    BY <2>3, <2>4, ModelUpdates DEF ReduceFileAction
<1>9. CASE e.type = "tool.completed"
  <2>1. e \in ToolEvents
    BY <1>9, EventFields
  <2>2. [tool |-> e.tool, at |-> i] \in Shells
    BY <2>1 DEF ToolEvents, Shells
  <2>3. Append(m.shells, [tool |-> e.tool, at |-> i]) \in Seq(Shells)
    BY <2>2, ModelFields
  <2>4. Project(m, e, i) = ReduceToolCompleted(m, e, i)
    BY <1>9, Projected
  <2> QED
    BY <2>3, <2>4, ModelUpdates DEF ReduceToolCompleted
<1>10. CASE e.type = "agent.task"
  <2>1. e \in TaskEvents
    BY <1>10, EventFields
  <2>2. [task |-> e.task, at |-> i] \in Tasks
    BY <2>1 DEF TaskEvents, Tasks
  <2>3. m.tasks \in Seq(Tasks) /\ m.taskEvents + 1 \in Nat
    BY ModelFields
  <2> DEFINE tasks == SetDefault(m.tasks, "task", [task |-> e.task, at |-> i])
  <2>4. tasks \in Seq(Tasks)
    BY <2>2, <2>3, AssignTyped
  <2>6. ReduceSubagent(m, e, i) = [m EXCEPT !.taskEvents = m.taskEvents + 1, !.tasks = tasks]
    BY DEF ReduceSubagent, Models
  <2> HIDE DEF tasks
  <2>5. Project(m, e, i) = ReduceSubagent(m, e, i)
    BY <1>10, Projected
  <2>7. [m EXCEPT !.taskEvents = m.taskEvents + 1, !.tasks = tasks] \in Models
    BY <2>3, <2>4, ModelUpdates
  <2> QED
    BY <2>5, <2>6, <2>7
<1>11. CASE e.type = "human.result"
  <2>1. e \in ResultEvents
    BY <1>11, EventFields
  <2>2. e.accepted \in Flags
    BY <2>1 DEF ResultEvents, Flags
  <2>3. Append(m.results, e.accepted) \in Seq(Flags)
    BY <2>2, ModelFields
  <2>4. Project(m, e, i) = ReduceResult(m, e)
    BY <1>11, Projected
  <2> QED
    BY <2>3, <2>4, ModelUpdates DEF ReduceResult
<1>12. CASE e.type = "run.aborted"
  <2>1. Project(m, e, i) = [m EXCEPT !.aborted = TRUE]
    BY <1>12, Projected
  <2> QED
    BY <2>1, ModelUpdates
<1> QED
  BY <1>1, <1>2, <1>3, <1>4, <1>5, <1>6, <1>7, <1>8, <1>9, <1>10, <1>11, <1>12, EventTyped
     DEF EventTypes

-----------------------------------------------------------------------------
(* The reducer reads one event after the other.                             *)

\* The model of the first events is the reducer's step from the one before.
LEMMA ReducedSteps ==
    ASSUME NEW log \in Seq(Events), NEW through \in 0 .. Len(log)
    PROVE  \E read \in [0 .. through -> Models] :
               /\ read[0] = EmptyModel
               /\ \A n \in 1 .. through : read[n] = Project(read[n - 1], log[n], n)
               /\ Reduced(log, through) = read[through]
<1> DEFINE step == [i \in 1 .. through |-> [m \in Models |-> Project(m, log[i], i)]]
           Reading(f) == [n \in 0 .. through |-> IF n = 0 THEN EmptyModel ELSE Project(f[n - 1], log[n], n)]
           read == CHOOSE f : f = Reading(f)
<1>1. step \in [1 .. through -> [Models -> Models]]
  <2>1. ASSUME NEW i \in 1 .. through, NEW m \in Models PROVE Project(m, log[i], i) \in Models
    <3>1. log[i] \in Events /\ i \in Nat
      OBVIOUS
    <3> QED
      BY <3>1, ProjectTyped
  <2> QED
    BY <2>1
<1> HIDE DEF step
<1>2. PICK g \in [0 .. through -> Models] : Recursive(g, through, EmptyModel, step)
  <2>1. through \in Nat
    OBVIOUS
  <2> QED
    BY <1>1, <2>1, EmptyTyped, Recursion
<1>3. ASSUME NEW n \in 1 .. through PROVE g[n] = Project(g[n - 1], log[n], n)
  <2>1. g[n - 1] \in Models
    OBVIOUS
  <2>2. g[n] = step[n][g[n - 1]]
    BY <1>2 DEF Recursive
  <2> QED
    BY <2>1, <2>2 DEF step
<1>4. g[0] = EmptyModel
  BY <1>2 DEF Recursive
<1>5. g = Reading(g)
  BY <1>3, <1>4
<1>6. read = Reading(read)
  <2> HIDE DEF Reading
  <2> QED
    BY <1>5
<1>7. Reduced(log, through) = read[through]
  BY DEF Reduced
<1> HIDE DEF read
<1>8. read[0] = EmptyModel /\ \A n \in 1 .. through : read[n] = Project(read[n - 1], log[n], n)
  BY <1>6
<1>9. DOMAIN read = 0 .. through
  BY <1>6
<1> DEFINE T == {n \in 0 .. through : read[n] = g[n]}
<1>10. 0 \in T
  BY <1>4, <1>8
<1>11. ASSUME NEW n \in 0 .. through - 1, n \in T PROVE n + 1 \in T
  <2>1. n + 1 \in 1 .. through /\ n + 1 - 1 = n
    OBVIOUS
  <2>2. read[n + 1] = Project(read[n], log[n + 1], n + 1)
    BY <1>8, <2>1
  <2>3. g[n + 1] = Project(g[n], log[n + 1], n + 1)
    BY <1>3, <2>1
  <2> QED
    BY <1>11, <2>1, <2>2, <2>3
<1> HIDE DEF T
<1>12. 0 .. through \subseteq T
  <2>1. through \in Nat
    OBVIOUS
  <2>2. \A n \in 0 .. through - 1 : n \in T => n + 1 \in T
    BY <1>11
  <2> QED
    BY <1>10, <2>1, <2>2, BoundedInduction
<1>13. Reduced(log, through) = g[through]
  BY <1>7, <1>12 DEF T
<1> QED
  BY <1>3, <1>4, <1>13

\* What was read of a journal does not change when the journal grows.
LEMMA ReducedPrefix ==
    ASSUME NEW log \in Seq(Events), NEW e \in Events, NEW through \in 0 .. Len(log)
    PROVE  Reduced(Append(log, e), through) = Reduced(log, through)
<1> DEFINE longer == Append(log, e)
<1>1. longer \in Seq(Events) /\ through \in 0 .. Len(longer)
  OBVIOUS
<1>2. \A n \in 1 .. through : longer[n] = log[n]
  OBVIOUS
<1> HIDE DEF longer
<1>3. PICK f \in [0 .. through -> Models] :
         /\ f[0] = EmptyModel
         /\ \A n \in 1 .. through : f[n] = Project(f[n - 1], longer[n], n)
         /\ Reduced(longer, through) = f[through]
  BY <1>1, ReducedSteps
<1>4. PICK g \in [0 .. through -> Models] :
         /\ g[0] = EmptyModel
         /\ \A n \in 1 .. through : g[n] = Project(g[n - 1], log[n], n)
         /\ Reduced(log, through) = g[through]
  BY ReducedSteps
<1> DEFINE T == {n \in 0 .. through : f[n] = g[n]}
<1>5. 0 \in T
  BY <1>3, <1>4
<1>6. ASSUME NEW n \in 0 .. through - 1, n \in T PROVE n + 1 \in T
  <2>1. n + 1 \in 1 .. through /\ n + 1 - 1 = n
    OBVIOUS
  <2>2. f[n + 1] = Project(f[n], longer[n + 1], n + 1)
    BY <1>3, <2>1
  <2>3. g[n + 1] = Project(g[n], log[n + 1], n + 1)
    BY <1>4, <2>1
  <2> QED
    BY <1>2, <1>6, <2>1, <2>2, <2>3
<1> HIDE DEF T
<1>7. 0 .. through \subseteq T
  <2>1. through \in Nat
    OBVIOUS
  <2>2. \A n \in 0 .. through - 1 : n \in T => n + 1 \in T
    BY <1>6
  <2> QED
    BY <1>5, <2>1, <2>2, BoundedInduction
<1> QED
  BY <1>3, <1>4, <1>7 DEF T, longer

\* The reducer's model has the type of one.
LEMMA ReducedTyped ==
    ASSUME NEW log \in Seq(Events), NEW through \in 0 .. Len(log)
    PROVE  Reduced(log, through) \in Models
BY ReducedSteps

-----------------------------------------------------------------------------
(* Profile selection.                                                       *)

\* A profile is selected.
LEMMA SelectTyped ==
    ASSUME NEW m, NEW request PROVE SelectProfile(m, request) \in Profiles
BY DEF SelectProfile, Profiles

\* Synthesis and the adapter keep the types.
LEMMA SynthesizeTyped ==
    ASSUME NEW m \in Models, NEW profile PROVE SynthesizeWorkflow(m, profile) \in Models
BY ModelUpdates DEF SynthesizeWorkflow, Workflows

\* The adapter keeps the types.
LEMMA EnrichTyped ==
    ASSUME NEW m \in Models, NEW files PROVE EnrichWithAdapter(m, files) \in Models
<1> DEFINE new == [s \in DOMAIN m.steps \cup DefinedSteps[m.workflow.path] |->
                      IF s \in DOMAIN m.steps THEN m.steps[s] ELSE "identified"]
<1>1. CASE m.workflow.path \in Definitions \cap files
  <2>1. DefinedSteps[m.workflow.path] \in SUBSET Names.steps
    BY <1>1, ConstantsAssumption
  <2>2. PICK S \in SUBSET Names.steps : m.steps \in [S -> {"identified", "started"} \cup StepTerminals]
    BY ModelFields DEF StepMaps
  <2>3. new \in [S \cup DefinedSteps[m.workflow.path] -> {"identified", "started"} \cup StepTerminals]
    BY <2>2
  <2>4. S \cup DefinedSteps[m.workflow.path] \in SUBSET Names.steps
    BY <2>1, <2>2
  <2>5. new \in StepMaps
    BY <2>3, <2>4 DEF StepMaps
  <2> HIDE DEF new
  <2> QED
    BY <1>1, <2>5, ModelUpdates DEF EnrichWithAdapter, new
<1>2. CASE m.workflow.path \notin Definitions \cap files
  BY <1>2 DEF EnrichWithAdapter
<1> QED
  BY <1>1, <1>2

\* What a build works from.
Builds == [model : Models, profile : Profiles]

\* It has its types.
LEMMA BuildTyped ==
    ASSUME NEW log \in Seq(Events), NEW through \in 0 .. Len(log), NEW request, NEW files
    PROVE  BuildModel(log, through, request, files) \in Builds
<1>1. Reduced(log, through) \in Models
  BY ReducedTyped
<1> DEFINE synthesized == SynthesizeWorkflow(Reduced(log, through), SelectProfile(Reduced(log, through), request))
           model == EnrichWithAdapter(synthesized, files)
<1>2. synthesized \in Models
  BY <1>1, SynthesizeTyped
<1> HIDE DEF synthesized
<1>3. model \in Models
  BY <1>2, EnrichTyped
<1> HIDE DEF model
<1>4. SelectProfile(model, request) \in Profiles
  BY SelectTyped
<1>5. BuildModel(log, through, request, files) = [model |-> model, profile |-> SelectProfile(model, request)]
  BY DEF BuildModel, synthesized, model
<1> QED
  BY <1>3, <1>4, <1>5 DEF Builds

\* It does not change when the journal grows.
LEMMA BuildPrefix ==
    ASSUME NEW log \in Seq(Events), NEW e \in Events, NEW through \in 0 .. Len(log),
           NEW request, NEW files
    PROVE  BuildModel(Append(log, e), through, request, files) = BuildModel(log, through, request, files)
BY ReducedPrefix DEF BuildModel

-----------------------------------------------------------------------------
(* What each event changes.                                                 *)

\* The record of a command that starts.
CommandRecord(e, i) ==
    [command |-> e.command, action |-> e.action, tool |-> e.tool, step |-> e.step,
     inputs |-> e.inputs, outputs |-> e.outputs, at |-> i, status |-> "started"]

\* The commands after one has ended.
EndedCommands(commands, e) ==
    [k \in DOMAIN commands |-> IF commands[k].command = e.command
                               THEN [commands[k] EXCEPT !.status = e.status] ELSE commands[k]]

\* The workflow after a declaration.
DefinedWorkflow(workflow, e) ==
    IF e.role = "workflow-definition" \/ e.path \in Definitions THEN Definition(e.path) ELSE workflow

\* A record that agrees with a model but for some fields.
Same(new, m, fields) ==
    \A f \in {"inputs", "outputs", "workflow", "steps", "commands", "edits", "shells", "tasks"} \ fields :
        new[f] = m[f]

\* What an event does to the model, field by field.
LEMMA FieldsRead ==
    ASSUME NEW m \in Models, NEW e \in Events, NEW i
    PROVE  /\ e.type \notin {"workflow.input.declared", "workflow.output.declared", "workflow.step.started",
                             "workflow.step.terminal", "execution.command.started", "execution.command.terminal",
                             "file", "tool.completed", "agent.task"}
                => Same(Project(m, e, i), m, {})
           /\ e.type = "workflow.input.declared" =>
                  /\ Same(Project(m, e, i), m, {"inputs", "workflow"})
                  /\ Project(m, e, i).inputs = Append(m.inputs, e)
                  /\ Project(m, e, i).workflow = DefinedWorkflow(m.workflow, e)
           /\ e.type = "workflow.output.declared" =>
                  /\ Same(Project(m, e, i), m, {"outputs"})
                  /\ Project(m, e, i).outputs = Append(m.outputs, e)
           /\ e.type \in {"workflow.step.started", "workflow.step.terminal"} =>
                  /\ Same(Project(m, e, i), m, {"steps"})
                  /\ Project(m, e, i).steps
                        = WithStep(m.steps, e.step, IF e.type = "workflow.step.started" THEN "started" ELSE e.status)
           /\ e.type = "execution.command.started" =>
                  /\ Same(Project(m, e, i), m, {"commands"})
                  /\ Project(m, e, i).commands = Assign(m.commands, "command", CommandRecord(e, i))
           /\ e.type = "execution.command.terminal" =>
                  /\ Same(Project(m, e, i), m, {"commands"})
                  /\ Project(m, e, i).commands = EndedCommands(m.commands, e)
           /\ e.type = "file" =>
                  /\ Same(Project(m, e, i), m, {"edits"})
                  /\ Project(m, e, i).edits
                        = IF e.path \in Internal THEN m.edits
                          ELSE Append(m.edits, [path |-> e.path, op |-> e.op, at |-> i])
           /\ e.type = "tool.completed" =>
                  /\ Same(Project(m, e, i), m, {"shells"})
                  /\ Project(m, e, i).shells = Append(m.shells, [tool |-> e.tool, at |-> i])
           /\ e.type = "agent.task" =>
                  /\ Same(Project(m, e, i), m, {"tasks"})
                  /\ Project(m, e, i).tasks = SetDefault(m.tasks, "task", [task |-> e.task, at |-> i])
<1> DEFINE P == Project(m, e, i)
<1>1. e.type \notin {"workflow.input.declared", "workflow.output.declared", "workflow.step.started",
                     "workflow.step.terminal", "execution.command.started", "execution.command.terminal",
                     "file", "tool.completed", "agent.task"}
        => Same(P, m, {})
  <2>1. CASE e.type \in {"workflow.phase.started", "workflow.phase.completed"}
    <3>1. \E x : P = [m EXCEPT !.phases = x]
      <4>1. \E x : ReducePhaseStarted(m, e, i) = [m EXCEPT !.phases = x]
        BY DEF ReducePhaseStarted
      <4>2. \E x : ReducePhaseCompleted(m, e, i) = [m EXCEPT !.phases = x]
        BY DEF ReducePhaseCompleted
      <4> QED
        BY <2>1, <4>1, <4>2, Projected
    <3> HIDE DEF P
    <3> QED
      BY <3>1 DEF Models, Same
  <2>2. CASE e.type = "human.result"
    <3>1. P = [m EXCEPT !.results = Append(m.results, e.accepted)]
      BY <2>2, Projected DEF ReduceResult
    <3> HIDE DEF P
    <3> QED
      BY <3>1 DEF Models, Same
  <2>3. CASE e.type = "run.aborted"
    <3>1. P = [m EXCEPT !.aborted = TRUE]
      BY <2>3, Projected
    <3> HIDE DEF P
    <3> QED
      BY <3>1 DEF Models, Same
  <2> HIDE DEF P
  <2> QED
    BY <2>1, <2>2, <2>3, EventTyped DEF EventTypes
<1>2. e.type = "workflow.input.declared" =>
         /\ Same(P, m, {"inputs", "workflow"})
         /\ P.inputs = Append(m.inputs, e)
         /\ P.workflow = DefinedWorkflow(m.workflow, e)
  <2>1. e.type = "workflow.input.declared" =>
           P = [m EXCEPT !.inputs = Append(m.inputs, e), !.workflow = DefinedWorkflow(m.workflow, e)]
    BY Projected DEF ReduceInputDeclared, DefinedWorkflow
  <2> HIDE DEF P
  <2> QED
    BY <2>1 DEF Models, Same
<1>3. e.type = "workflow.output.declared" =>
         Same(P, m, {"outputs"}) /\ P.outputs = Append(m.outputs, e)
  <2>1. e.type = "workflow.output.declared" => P = [m EXCEPT !.outputs = Append(m.outputs, e)]
    BY Projected DEF ReduceOutputDeclared
  <2> HIDE DEF P
  <2> QED
    BY <2>1 DEF Models, Same
<1>4. e.type \in {"workflow.step.started", "workflow.step.terminal"} =>
         /\ Same(P, m, {"steps"})
         /\ P.steps = WithStep(m.steps, e.step, IF e.type = "workflow.step.started" THEN "started" ELSE e.status)
  <2>1. e.type \in {"workflow.step.started", "workflow.step.terminal"} =>
           P = [m EXCEPT !.steps =
                   WithStep(m.steps, e.step, IF e.type = "workflow.step.started" THEN "started" ELSE e.status)]
    BY Projected DEF ReduceStepStarted, ReduceStepTerminal
  <2> HIDE DEF P
  <2> QED
    BY <2>1 DEF Models, Same
<1>5. e.type = "execution.command.started" =>
         Same(P, m, {"commands"}) /\ P.commands = Assign(m.commands, "command", CommandRecord(e, i))
  <2>1. e.type = "execution.command.started" =>
           P = [m EXCEPT !.commands = Assign(m.commands, "command", CommandRecord(e, i))]
    BY Projected DEF ReduceCommandStarted, CommandRecord
  <2> HIDE DEF P
  <2> QED
    BY <2>1 DEF Models, Same
<1>6. e.type = "execution.command.terminal" =>
         Same(P, m, {"commands"}) /\ P.commands = EndedCommands(m.commands, e)
  <2>1. e.type = "execution.command.terminal" => P = [m EXCEPT !.commands = EndedCommands(m.commands, e)]
    BY Projected DEF ReduceCommandTerminal, EndedCommands
  <2> HIDE DEF P
  <2> QED
    BY <2>1 DEF Models, Same
<1>7. e.type = "file" =>
         /\ Same(P, m, {"edits"})
         /\ P.edits = IF e.path \in Internal THEN m.edits
                      ELSE Append(m.edits, [path |-> e.path, op |-> e.op, at |-> i])
  <2>1. e.type = "file" /\ e.path \notin Internal =>
           P = [m EXCEPT !.edits = Append(m.edits, [path |-> e.path, op |-> e.op, at |-> i])]
    BY Projected DEF ReduceFileAction
  <2>2. e.type = "file" /\ e.path \in Internal => P = m
    BY Projected DEF ReduceFileAction
  <2>3. e.type = "file" /\ e.path \in Internal => Same(P, m, {"edits"}) /\ P.edits = m.edits
    BY <2>2 DEF Same
  <2> HIDE DEF P
  <2> QED
    BY <2>1, <2>3 DEF Models, Same
<1>8. e.type = "tool.completed" =>
         Same(P, m, {"shells"}) /\ P.shells = Append(m.shells, [tool |-> e.tool, at |-> i])
  <2>1. e.type = "tool.completed" => P = [m EXCEPT !.shells = Append(m.shells, [tool |-> e.tool, at |-> i])]
    BY Projected DEF ReduceToolCompleted
  <2> HIDE DEF P
  <2> QED
    BY <2>1 DEF Models, Same
<1>9. e.type = "agent.task" =>
         Same(P, m, {"tasks"}) /\ P.tasks = SetDefault(m.tasks, "task", [task |-> e.task, at |-> i])
  <2> DEFINE x == SetDefault(m.tasks, "task", [task |-> e.task, at |-> i])
  <2>1. e.type = "agent.task" => P = [m EXCEPT !.taskEvents = m.taskEvents + 1, !.tasks = x]
    <3>1. ReduceSubagent(m, e, i) = [m EXCEPT !.taskEvents = m.taskEvents + 1, !.tasks = x]
      BY DEF ReduceSubagent, Models
    <3> HIDE DEF x
    <3> QED
      BY <3>1, Projected
  <2> HIDE DEF P, x
  <2>2. e.type = "agent.task" => Same(P, m, {"tasks"}) /\ P.tasks = x
    BY <2>1 DEF Models, Same
  <2> QED
    BY <2>2 DEF x
<1> QED
  BY <1>1, <1>2, <1>3, <1>4, <1>5, <1>6, <1>7, <1>8, <1>9

\* Each field has the events that change it.
LEMMA FieldsStay ==
    ASSUME NEW m \in Models, NEW e \in Events, NEW i
    PROVE  /\ e.type # "workflow.input.declared" => Project(m, e, i).workflow = m.workflow
           /\ e.type \notin {"workflow.step.started", "workflow.step.terminal"} => Project(m, e, i).steps = m.steps
           /\ e.type # "file" => Project(m, e, i).edits = m.edits
           /\ e.type # "tool.completed" => Project(m, e, i).shells = m.shells
           /\ e.type # "agent.task" => Project(m, e, i).tasks = m.tasks
           /\ e.type \in {"workflow.step.started", "workflow.step.terminal"} =>
                  \E status : Project(m, e, i).steps = WithStep(m.steps, e.step, status)
<1> DEFINE P == Project(m, e, i)
           Stays(fields) == \A f \in {"workflow", "steps", "edits", "shells", "tasks"} \ fields : P[f] = m[f]
<1>1. \A fields : Same(P, m, fields) => Stays(fields)
  BY DEF Same
<1>2. /\ Stays({}) \/ e.type \in {"workflow.input.declared", "workflow.output.declared", "workflow.step.started",
                                  "workflow.step.terminal", "execution.command.started",
                                  "execution.command.terminal", "file", "tool.completed", "agent.task"}
      /\ e.type = "workflow.input.declared" => Stays({"inputs", "workflow"})
      /\ e.type = "workflow.output.declared" => Stays({"outputs"})
      /\ e.type \in {"workflow.step.started", "workflow.step.terminal"} => Stays({"steps"})
      /\ e.type \in {"execution.command.started", "execution.command.terminal"} => Stays({"commands"})
      /\ e.type = "file" => Stays({"edits"})
      /\ e.type = "tool.completed" => Stays({"shells"})
      /\ e.type = "agent.task" => Stays({"tasks"})
  <2> HIDE DEF Stays, P
  <2> QED
    BY <1>1, FieldsRead DEF P
<1>3. e.type \in {"workflow.step.started", "workflow.step.terminal"} =>
         \E status : P.steps = WithStep(m.steps, e.step, status)
  <2> DEFINE status == IF e.type = "workflow.step.started" THEN "started" ELSE e.status
  <2>1. e.type \in {"workflow.step.started", "workflow.step.terminal"} => P.steps = WithStep(m.steps, e.step, status)
    BY FieldsRead
  <2> HIDE DEF P, status
  <2> QED
    BY <2>1
<1> HIDE DEF P
<1> QED
  BY <1>2, <1>3 DEF P

\* Profile selection and the adapter only change the workflow and the steps.
LEMMA BuildKeeps ==
    ASSUME NEW log \in Seq(Events), NEW through \in 0 .. Len(log), NEW request, NEW files
    PROVE  Same(BuildModel(log, through, request, files).model, Reduced(log, through), {"workflow", "steps"})
<1> DEFINE read == Reduced(log, through)
           synthesized == SynthesizeWorkflow(read, SelectProfile(read, request))
           model == EnrichWithAdapter(synthesized, files)
<1>1. read \in Models /\ synthesized \in Models
  BY ReducedTyped, SynthesizeTyped
<1>2. BuildModel(log, through, request, files).model = model
  BY DEF BuildModel
<1> HIDE DEF read
<1>3. synthesized = read \/ synthesized = [read EXCEPT !.workflow = AgentActions]
  BY DEF SynthesizeWorkflow
<1>4. Same(synthesized, read, {"workflow", "steps"})
  BY <1>1, <1>3 DEF Same, Models
<1> HIDE DEF synthesized
<1>5. model = synthesized \/ \E x : model = [synthesized EXCEPT !.steps = x]
  BY DEF EnrichWithAdapter
<1> HIDE DEF model
<1>6. Same(model, synthesized, {"workflow", "steps"})
  BY <1>1, <1>5 DEF Same, Models
<1> QED
  BY <1>2, <1>4, <1>6 DEF Same, read

\* What it knows to be declared the journal declares, up to where it was read.
DeclaredIn(m, log, through) ==
    /\ \A k \in DOMAIN m.inputs : \E i \in 1 .. through :
           log[i] = m.inputs[k] /\ log[i].type = "workflow.input.declared"
    /\ \A k \in DOMAIN m.outputs : \E i \in 1 .. through :
           log[i] = m.outputs[k] /\ log[i].type = "workflow.output.declared"

\* An appended element is the new one or an old one.
LEMMA Appended ==
    ASSUME NEW S, NEW s \in Seq(S), NEW x
    PROVE  /\ DOMAIN Append(s, x) = 1 .. Len(s) + 1 /\ DOMAIN s = 1 .. Len(s) /\ Len(s) \in Nat
           /\ Append(s, x)[Len(s) + 1] = x
           /\ \A k \in DOMAIN s : Append(s, x)[k] = s[k] /\ k \in DOMAIN Append(s, x)
           /\ \A k \in DOMAIN Append(s, x) : k \in DOMAIN s \/ k = Len(s) + 1
OBVIOUS

\* The reducer knows of declarations what the journal declares.
LEMMA DeclarationsRead ==
    ASSUME NEW log \in Seq(Events), NEW through \in 0 .. Len(log), NEW request, NEW files
    PROVE  DeclaredIn(BuildModel(log, through, request, files).model, log, through)
<1>1. PICK read \in [0 .. through -> Models] :
         /\ read[0] = EmptyModel
         /\ \A n \in 1 .. through : read[n] = Project(read[n - 1], log[n], n)
         /\ Reduced(log, through) = read[through]
  BY ReducedSteps
<1> DEFINE T == {n \in 0 .. through : DeclaredIn(read[n], log, n)}
<1>2. 0 \in T
  BY <1>1 DEF DeclaredIn, EmptyModel
<1>3. ASSUME NEW n \in 0 .. through - 1, n \in T PROVE n + 1 \in T
  <2> DEFINE m == read[n]
             e == log[n + 1]
             next == read[n + 1]
  <2>1. n + 1 \in 1 .. through /\ n + 1 - 1 = n /\ n \in 0 .. through
    OBVIOUS
  <2>2. m \in Models /\ e \in Events
    BY <2>1
  <2>3. next = Project(m, e, n + 1)
    BY <1>1, <2>1
  <2>4. /\ e.type = "workflow.input.declared" => next.inputs = Append(m.inputs, e) /\ next.outputs = m.outputs
        /\ e.type = "workflow.output.declared" => next.outputs = Append(m.outputs, e) /\ next.inputs = m.inputs
        /\ e.type \notin {"workflow.input.declared", "workflow.output.declared"} =>
              next.inputs = m.inputs /\ next.outputs = m.outputs
    <3> HIDE DEF m, e, next
    <3> QED
      BY <2>2, <2>3, FieldsRead DEF Same
  <2>5. DeclaredIn(m, log, n)
    BY <1>3
  <2>6. \A i \in 1 .. n : i \in 1 .. n + 1
    BY <2>1
  <2>7. m.inputs \in Seq(DeclarationEvents) /\ m.outputs \in Seq(DeclarationEvents)
    BY <2>2, ModelFields
  <2>8. e = log[n + 1] /\ n + 1 \in 1 .. n + 1
    BY <2>1
  <2> HIDE DEF m, e, next
  <2>9. ASSUME NEW k \in DOMAIN next.inputs
        PROVE  \E i \in 1 .. n + 1 : log[i] = next.inputs[k] /\ log[i].type = "workflow.input.declared"
    <3>1. CASE e.type = "workflow.input.declared"
      <4>1. next.inputs = Append(m.inputs, e)
        BY <2>4, <3>1
      <4>2. CASE k \in DOMAIN m.inputs
        <5>1. next.inputs[k] = m.inputs[k]
          BY <2>7, <4>1, <4>2, Appended
        <5> QED
          BY <2>5, <2>6, <4>2, <5>1 DEF DeclaredIn
      <4>3. CASE k = Len(m.inputs) + 1
        <5>1. next.inputs[k] = e
          BY <2>7, <4>1, <4>3, Appended
        <5> QED
          BY <2>8, <3>1, <5>1
      <4> QED
        BY <2>7, <4>1, <4>2, <4>3, Appended
    <3>2. CASE e.type # "workflow.input.declared"
      BY <2>4, <2>5, <2>6, <3>2 DEF DeclaredIn
    <3> QED
      BY <3>1, <3>2
  <2>10. ASSUME NEW k \in DOMAIN next.outputs
         PROVE  \E i \in 1 .. n + 1 : log[i] = next.outputs[k] /\ log[i].type = "workflow.output.declared"
    <3>1. CASE e.type = "workflow.output.declared"
      <4>1. next.outputs = Append(m.outputs, e)
        BY <2>4, <3>1
      <4>2. CASE k \in DOMAIN m.outputs
        <5>1. next.outputs[k] = m.outputs[k]
          BY <2>7, <4>1, <4>2, Appended
        <5> QED
          BY <2>5, <2>6, <4>2, <5>1 DEF DeclaredIn
      <4>3. CASE k = Len(m.outputs) + 1
        <5>1. next.outputs[k] = e
          BY <2>7, <4>1, <4>3, Appended
        <5> QED
          BY <2>8, <3>1, <5>1
      <4> QED
        BY <2>7, <4>1, <4>2, <4>3, Appended
    <3>2. CASE e.type # "workflow.output.declared"
      BY <2>4, <2>5, <2>6, <3>2 DEF DeclaredIn
    <3> QED
      BY <3>1, <3>2
  <2>11. DeclaredIn(next, log, n + 1)
    BY <2>9, <2>10 DEF DeclaredIn
  <2> QED
    BY <2>1, <2>11 DEF next
<1> HIDE DEF T
<1>4. 0 .. through \subseteq T
  <2>1. through \in Nat
    OBVIOUS
  <2>2. \A n \in 0 .. through - 1 : n \in T => n + 1 \in T
    BY <1>3
  <2> QED
    BY <1>2, <2>1, <2>2, BoundedInduction
<1>5. DeclaredIn(Reduced(log, through), log, through)
  BY <1>1, <1>4 DEF T
<1> QED
  BY <1>5, BuildKeeps DEF DeclaredIn, Same

-----------------------------------------------------------------------------
(* The commands of a model are those the journal started.                   *)

Starts(e) == e.type = "execution.command.started"
Ends(e) == e.type = "execution.command.terminal"

\* A journal in which every command starts once, and ends after it has started.
Orderly(log) ==
    /\ \A i, j \in DOMAIN log : Starts(log[i]) /\ Starts(log[j]) /\ log[i].command = log[j].command => i = j
    /\ \A j \in DOMAIN log : Ends(log[j]) =>
           \E i \in 1 .. j - 1 : Starts(log[i]) /\ log[i].command = log[j].command

\* Where the first n events end a command, and whether they leave it completed.
EndsOf(log, command, n) == {j \in 1 .. n : Ends(log[j]) /\ log[j].command = command}
Done(log, command, n) ==
    \E j \in EndsOf(log, command, n) : log[j].status = "completed" /\ \A l \in EndsOf(log, command, n) : l <= j

\* The record of a command says what the first n events do.
Reflects(c, log, n) ==
    /\ c.at \in 1 .. n /\ Starts(log[c.at])
    /\ c.command = log[c.at].command /\ c.action = log[c.at].action
    /\ c.tool = log[c.at].tool /\ c.step = log[c.at].step
    /\ c.inputs = log[c.at].inputs /\ c.outputs = log[c.at].outputs
    /\ (c.status = "completed") = Done(log, c.command, n)

\* There is one for each command started, in their order.
Tracked(commands, log, n) ==
    /\ \A k \in DOMAIN commands : Reflects(commands[k], log, n)
    /\ \A i \in 1 .. n : Starts(log[i]) => \E k \in DOMAIN commands : commands[k].at = i
    /\ \A k, l \in DOMAIN commands : k < l => commands[k].at < commands[l].at

\* An event that ends no such command leaves it as it was; one that ends it has the last word.
LEMMA DoneNext ==
    ASSUME NEW log, NEW command, NEW n \in Nat
    PROVE  /\ ~(Ends(log[n + 1]) /\ log[n + 1].command = command) =>
                  EndsOf(log, command, n + 1) = EndsOf(log, command, n)
                  /\ Done(log, command, n + 1) = Done(log, command, n)
           /\ Ends(log[n + 1]) /\ log[n + 1].command = command =>
                  Done(log, command, n + 1) = (log[n + 1].status = "completed")
<1>1. 1 .. n + 1 = (1 .. n) \cup {n + 1}
  OBVIOUS
<1>2. ASSUME ~(Ends(log[n + 1]) /\ log[n + 1].command = command)
      PROVE  EndsOf(log, command, n + 1) = EndsOf(log, command, n)
  BY <1>1, <1>2 DEF EndsOf
<1>3. ASSUME Ends(log[n + 1]), log[n + 1].command = command
      PROVE  Done(log, command, n + 1) = (log[n + 1].status = "completed")
  <2>1. n + 1 \in EndsOf(log, command, n + 1) /\ \A j \in EndsOf(log, command, n + 1) : j \in Nat /\ j <= n + 1
    BY <1>3 DEF EndsOf
  <2>2. log[n + 1].status = "completed" => Done(log, command, n + 1)
    BY <2>1 DEF Done
  <2>3. ASSUME Done(log, command, n + 1) PROVE log[n + 1].status = "completed"
    <3>1. PICK j \in EndsOf(log, command, n + 1) :
             log[j].status = "completed" /\ \A l \in EndsOf(log, command, n + 1) : l <= j
      BY <2>3 DEF Done
    <3>2. j = n + 1
      BY <2>1, <3>1
    <3> QED
      BY <3>1, <3>2
  <2>4. Done(log, command, n + 1) \in BOOLEAN
    BY DEF Done
  <2> QED
    BY <2>2, <2>3, <2>4
<1> QED
  BY <1>2, <1>3 DEF Done

\* A record goes on reflecting what the journal says when no event ends its command.
LEMMA ReflectsNext ==
    ASSUME NEW c, NEW log, NEW n \in Nat, Reflects(c, log, n),
           ~(Ends(log[n + 1]) /\ log[n + 1].command = c.command)
    PROVE  Reflects(c, log, n + 1)
<1>1. Done(log, c.command, n + 1) = Done(log, c.command, n)
  BY DoneNext
<1> QED
  BY <1>1 DEF Reflects

\* The commands after an event that neither starts nor ends one.
LEMMA TrackedOther ==
    ASSUME NEW commands, NEW log, NEW n \in Nat, Tracked(commands, log, n),
           ~Starts(log[n + 1]), ~Ends(log[n + 1])
    PROVE  Tracked(commands, log, n + 1)
<1>1. \A i \in 1 .. n + 1 : i \in 1 .. n \/ i = n + 1
  OBVIOUS
<1>2. \A k \in DOMAIN commands : Reflects(commands[k], log, n + 1)
  BY ReflectsNext DEF Tracked
<1> QED
  BY <1>1, <1>2 DEF Tracked

\* The commands after one has started: it is new, and comes last.
LEMMA TrackedStart ==
    ASSUME NEW log \in Seq(Events), NEW n \in Nat, n + 1 \in 1 .. Len(log), Orderly(log),
           NEW commands \in Seq(Commands), Tracked(commands, log, n), Starts(log[n + 1])
    PROVE  Tracked(Assign(commands, "command", CommandRecord(log[n + 1], n + 1)), log, n + 1)
<1> DEFINE e == log[n + 1]
           c == CommandRecord(e, n + 1)
           next == Append(commands, c)
<1>1. \A i \in 1 .. n : i \in DOMAIN log /\ i # n + 1
  OBVIOUS
<1>2. n + 1 \in DOMAIN log
  OBVIOUS
<1>3. c.command = e.command /\ c.at = n + 1 /\ c.status = "started" /\ c.action = e.action
      /\ c.inputs = e.inputs /\ c.outputs = e.outputs /\ c.tool = e.tool /\ c.step = e.step
  BY DEF CommandRecord
<1>4. \A i \in 1 .. n : Starts(log[i]) => log[i].command # e.command
  BY <1>1, <1>2 DEF Orderly
<1> HIDE DEF c
<1>5. \A k \in DOMAIN commands : commands[k].command # e.command
  <2> TAKE k \in DOMAIN commands
  <2>1. Reflects(commands[k], log, n)
    BY DEF Tracked
  <2> HIDE DEF e
  <2> QED
    BY <1>4, <2>1 DEF Reflects
<1>6. Assign(commands, "command", c) = next
  BY <1>3, <1>5 DEF Assign, Keyed
<1>7. EndsOf(log, e.command, n + 1) = {}
  <2>1. ASSUME NEW j \in 1 .. n + 1, Ends(log[j]), log[j].command = e.command PROVE FALSE
    <3>1. j \in DOMAIN log /\ j \in Nat
      BY <1>1, <1>2
    <3>2. PICK i \in 1 .. j - 1 : Starts(log[i]) /\ log[i].command = log[j].command
      BY <2>1, <3>1 DEF Orderly
    <3>3. i \in 1 .. n
      BY <2>1, <3>1, <3>2
    <3> QED
      BY <1>4, <2>1, <3>2, <3>3
  <2> QED
    BY <2>1 DEF EndsOf
<1>8. Reflects(c, log, n + 1)
  <2>1. ~Done(log, e.command, n + 1)
    BY <1>7 DEF Done
  <2>2. n + 1 \in 1 .. n + 1 /\ Done(log, e.command, n + 1) \in BOOLEAN
    BY DEF Done
  <2>3. e = log[n + 1] /\ Starts(log[n + 1])
    OBVIOUS
  <2> HIDE DEF e
  <2> QED
    BY <1>3, <2>1, <2>2, <2>3 DEF Reflects
<1>9. \A k \in DOMAIN commands : Reflects(commands[k], log, n + 1)
  <2>1. ~Ends(log[n + 1])
    BY DEF Starts, Ends
  <2> QED
    BY <2>1, ReflectsNext DEF Tracked
<1>10. /\ DOMAIN next = 1 .. Len(commands) + 1 /\ DOMAIN commands = 1 .. Len(commands) /\ Len(commands) \in Nat
       /\ next[Len(commands) + 1] = c
       /\ \A k \in DOMAIN commands : next[k] = commands[k] /\ k \in DOMAIN next
       /\ \A k \in DOMAIN next : k \in DOMAIN commands \/ k = Len(commands) + 1
  BY Appended
<1> HIDE DEF e, next
<1>11. \A k \in DOMAIN next : Reflects(next[k], log, n + 1)
  BY <1>8, <1>9, <1>10
<1>12. \A i \in 1 .. n + 1 : Starts(log[i]) => \E k \in DOMAIN next : next[k].at = i
  <2>1. Len(commands) + 1 \in DOMAIN next
    BY <1>10
  <2>2. \A i \in 1 .. n + 1 : i \in 1 .. n \/ i = n + 1
    OBVIOUS
  <2> QED
    BY <1>3, <1>10, <2>1, <2>2 DEF Tracked
<1>13. \A k, l \in DOMAIN next : k < l => next[k].at < next[l].at
  <2> SUFFICES ASSUME NEW k \in DOMAIN next, NEW l \in DOMAIN next, k < l PROVE next[k].at < next[l].at
    OBVIOUS
  <2>1. k \in DOMAIN commands
    BY <1>10
  <2>2. CASE l \in DOMAIN commands
    BY <1>10, <2>1, <2>2 DEF Tracked
  <2>3. CASE l = Len(commands) + 1
    <3>1. next[k].at \in 1 .. n /\ next[l].at = n + 1
      BY <1>3, <1>10, <2>1, <2>3 DEF Tracked, Reflects
    <3> QED
      BY <3>1
  <2> QED
    BY <1>10, <2>2, <2>3
<1>14. Tracked(next, log, n + 1)
  BY <1>11, <1>12, <1>13 DEF Tracked
<1> QED
  BY <1>6, <1>14 DEF c, e

\* The commands after one has ended.
LEMMA TrackedEnd ==
    ASSUME NEW log, NEW n \in Nat, NEW commands \in Seq(Commands), Tracked(commands, log, n), Ends(log[n + 1])
    PROVE  Tracked(EndedCommands(commands, log[n + 1]), log, n + 1)
<1> DEFINE e == log[n + 1]
           next == EndedCommands(commands, e)
<1>1. DOMAIN next = DOMAIN commands
  BY DEF EndedCommands
<1>2. ASSUME NEW k \in DOMAIN commands
      PROVE  Reflects(next[k], log, n + 1) /\ next[k].at = commands[k].at
  <2>1. commands[k] \in Commands /\ Reflects(commands[k], log, n)
    BY DEF Tracked
  <2>2. CASE commands[k].command # e.command
    <3>1. next[k] = commands[k]
      BY <2>2 DEF EndedCommands
    <3> QED
      BY <2>1, <2>2, <3>1, ReflectsNext
  <2>3. CASE commands[k].command = e.command
    <3> DEFINE c == commands[k]
    <3>1. next[k] = [c EXCEPT !.status = e.status]
      BY <2>3 DEF EndedCommands
    <3> HIDE DEF next, e, c
    <3>2. /\ next[k].at = c.at /\ next[k].command = c.command /\ next[k].action = c.action
          /\ next[k].inputs = c.inputs /\ next[k].outputs = c.outputs /\ next[k].status = e.status
          /\ next[k].tool = c.tool /\ next[k].step = c.step
      BY <2>1, <3>1 DEF Commands, c
    <3>3. Done(log, c.command, n + 1) = (e.status = "completed")
      BY <2>3, DoneNext DEF c, e
    <3>4. Reflects(c, log, n)
      BY <2>1 DEF c
    <3>5. c.at \in 1 .. n + 1
      BY <3>4 DEF Reflects
    <3> QED
      BY <3>2, <3>3, <3>4, <3>5 DEF Reflects, c
  <2> QED
    BY <2>2, <2>3
<1>3. ~Starts(log[n + 1]) /\ \A i \in 1 .. n + 1 : i \in 1 .. n \/ i = n + 1
  BY DEF Starts, Ends
<1> HIDE DEF next, e
<1>4. \A i \in 1 .. n + 1 : Starts(log[i]) => \E k \in DOMAIN next : next[k].at = i
  BY <1>1, <1>2, <1>3 DEF Tracked
<1>5. \A k, l \in DOMAIN next : k < l => next[k].at < next[l].at
  BY <1>1, <1>2 DEF Tracked
<1>6. Tracked(next, log, n + 1)
  BY <1>1, <1>2, <1>4, <1>5 DEF Tracked
<1> QED
  BY <1>6 DEF next, e

\* The reducer tracks the commands of an orderly journal.
LEMMA CommandsRead ==
    ASSUME NEW log \in Seq(Events), Orderly(log), NEW through \in 0 .. Len(log), NEW request, NEW files
    PROVE  Tracked(BuildModel(log, through, request, files).model.commands, log, through)
<1>1. PICK read \in [0 .. through -> Models] :
         /\ read[0] = EmptyModel
         /\ \A n \in 1 .. through : read[n] = Project(read[n - 1], log[n], n)
         /\ Reduced(log, through) = read[through]
  BY ReducedSteps
<1> DEFINE T == {n \in 0 .. through : Tracked(read[n].commands, log, n)}
<1>2. 0 \in T
  BY <1>1 DEF Tracked, EmptyModel
<1>3. ASSUME NEW n \in 0 .. through - 1, n \in T PROVE n + 1 \in T
  <2> DEFINE m == read[n]
             e == log[n + 1]
             next == read[n + 1]
  <2>1. n + 1 \in 1 .. through /\ n + 1 - 1 = n /\ n \in 0 .. through /\ n \in Nat /\ n + 1 \in 1 .. Len(log)
    OBVIOUS
  <2>2. m \in Models /\ e \in Events
    BY <2>1
  <2>3. next = Project(m, e, n + 1)
    BY <1>1, <2>1
  <2>4. m.commands \in Seq(Commands) /\ Tracked(m.commands, log, n)
    BY <1>3, <2>2, ModelFields
  <2> HIDE DEF m, next
  <2>5. CASE Starts(e)
    <3>1. next.commands = Assign(m.commands, "command", CommandRecord(e, n + 1))
      BY <2>2, <2>3, <2>5, FieldsRead DEF Starts
    <3> QED
      BY <2>1, <2>4, <2>5, <3>1, TrackedStart DEF next
  <2>6. CASE Ends(e)
    <3>1. next.commands = EndedCommands(m.commands, e)
      <4> HIDE DEF e
      <4> QED
        BY <2>2, <2>3, <2>6, FieldsRead DEF Ends
    <3> QED
      BY <2>1, <2>4, <2>6, <3>1, TrackedEnd DEF next
  <2>7. CASE ~Starts(e) /\ ~Ends(e)
    <3>1. next.commands = m.commands
      <4> HIDE DEF e
      <4> QED
        BY <2>2, <2>3, <2>7, FieldsRead DEF Starts, Ends, Same
    <3> QED
      BY <2>1, <2>4, <2>7, <3>1, TrackedOther DEF next
  <2> QED
    BY <2>5, <2>6, <2>7
<1> HIDE DEF T
<1>4. 0 .. through \subseteq T
  <2>1. through \in Nat
    OBVIOUS
  <2>2. \A n \in 0 .. through - 1 : n \in T => n + 1 \in T
    BY <1>3
  <2> QED
    BY <1>2, <2>1, <2>2, BoundedInduction
<1>5. Tracked(Reduced(log, through).commands, log, through)
  BY <1>1, <1>4 DEF T
<1> QED
  BY <1>5, BuildKeeps DEF Same

-----------------------------------------------------------------------------
(* The workflow of a model is the definition declared last.                 *)

\* An event that declares a workflow definition.
DeclaresWorkflow(e) ==
    /\ e.type = "workflow.input.declared"
    /\ e.role = "workflow-definition" \/ e.path \in Definitions

\* A workflow that is the last definition the first n events declare, if they declare one.
LastDefined(workflow, log, n) ==
    \A i \in 1 .. n : DeclaresWorkflow(log[i]) /\ (\A j \in 1 .. n : DeclaresWorkflow(log[j]) => j <= i)
        => workflow = Definition(log[i].path)

\* The steps the first n events start are among those of a model.
StepsStarted(steps, log, n) ==
    \A i \in 1 .. n : log[i].type = "workflow.step.started" => log[i].step \in DOMAIN steps

\* The workflow after one more event.
LEMMA LastDefinedNext ==
    ASSUME NEW log, NEW n \in Nat, NEW workflow, LastDefined(workflow, log, n), NEW next,
           next = IF DeclaresWorkflow(log[n + 1]) THEN Definition(log[n + 1].path) ELSE workflow
    PROVE  LastDefined(next, log, n + 1)
<1> SUFFICES ASSUME NEW i \in 1 .. n + 1, DeclaresWorkflow(log[i]),
                    \A j \in 1 .. n + 1 : DeclaresWorkflow(log[j]) => j <= i
             PROVE  next = Definition(log[i].path)
  BY DEF LastDefined
<1>1. CASE DeclaresWorkflow(log[n + 1])
  <2>1. n + 1 \in 1 .. n + 1 /\ i <= n + 1 /\ i \in Nat
    OBVIOUS
  <2>2. i = n + 1
    BY <1>1, <2>1
  <2> QED
    BY <1>1, <2>2
<1>2. CASE ~DeclaresWorkflow(log[n + 1])
  <2>1. i # n + 1
    BY <1>2
  <2>2. i \in 1 .. n /\ \A j \in 1 .. n : j \in 1 .. n + 1
    BY <2>1
  <2> QED
    BY <1>2, <2>2 DEF LastDefined
<1> QED
  BY <1>1, <1>2

\* The reducer's workflow is the last definition, and its steps are those started.
LEMMA WorkflowReduced ==
    ASSUME NEW log \in Seq(Events), NEW through \in 0 .. Len(log)
    PROVE  /\ LastDefined(Reduced(log, through).workflow, log, through)
           /\ StepsStarted(Reduced(log, through).steps, log, through)
<1>1. PICK read \in [0 .. through -> Models] :
         /\ read[0] = EmptyModel
         /\ \A n \in 1 .. through : read[n] = Project(read[n - 1], log[n], n)
         /\ Reduced(log, through) = read[through]
  BY ReducedSteps
<1> DEFINE T == {n \in 0 .. through : LastDefined(read[n].workflow, log, n) /\ StepsStarted(read[n].steps, log, n)}
<1>2. 0 \in T
  BY DEF LastDefined, StepsStarted
<1>3. ASSUME NEW n \in 0 .. through - 1, n \in T PROVE n + 1 \in T
  <2> DEFINE m == read[n]
             e == log[n + 1]
             next == read[n + 1]
  <2>1. n + 1 \in 1 .. through /\ n + 1 - 1 = n /\ n \in 0 .. through /\ n \in Nat
    OBVIOUS
  <2>2. m \in Models /\ e \in Events
    BY <2>1
  <2>3. next = Project(m, e, n + 1)
    BY <1>1, <2>1
  <2>4. LastDefined(m.workflow, log, n) /\ StepsStarted(m.steps, log, n)
    BY <1>3
  <2> HIDE DEF m, next
  <2>5. next.workflow = IF DeclaresWorkflow(e) THEN Definition(e.path) ELSE m.workflow
    <3> HIDE DEF e
    <3>1. CASE e.type = "workflow.input.declared"
      BY <2>2, <2>3, <3>1, FieldsRead DEF DefinedWorkflow, DeclaresWorkflow
    <3>2. CASE e.type # "workflow.input.declared"
      <4>1. next.workflow = m.workflow
        BY <2>2, <2>3, <3>2, FieldsStay
      <4> QED
        BY <3>2, <4>1 DEF DeclaresWorkflow
    <3> QED
      BY <3>1, <3>2
  <2>6. LastDefined(next.workflow, log, n + 1)
    BY <2>1, <2>4, <2>5, LastDefinedNext
  <2>7. DOMAIN m.steps \subseteq DOMAIN next.steps
        /\ (e.type = "workflow.step.started" => e.step \in DOMAIN next.steps)
    <3> HIDE DEF e
    <3>1. CASE e.type \in {"workflow.step.started", "workflow.step.terminal"}
      <4>1. \E status : next.steps = WithStep(m.steps, e.step, status)
        BY <2>2, <2>3, <3>1, FieldsStay
      <4> QED
        BY <4>1 DEF WithStep
    <3>2. CASE e.type \notin {"workflow.step.started", "workflow.step.terminal"}
      <4>1. next.steps = m.steps
        BY <2>2, <2>3, <3>2, FieldsStay
      <4> QED
        BY <3>2, <4>1
    <3> QED
      BY <3>1, <3>2
  <2>8. StepsStarted(next.steps, log, n + 1)
    <3>1. \A i \in 1 .. n + 1 : i \in 1 .. n \/ i = n + 1
      BY <2>1
    <3> QED
      BY <2>4, <2>7, <3>1 DEF StepsStarted
  <2> QED
    BY <2>1, <2>6, <2>8 DEF next
<1> HIDE DEF T
<1>4. 0 .. through \subseteq T
  <2>1. through \in Nat
    OBVIOUS
  <2>2. \A n \in 0 .. through - 1 : n \in T => n + 1 \in T
    BY <1>3
  <2> QED
    BY <1>2, <2>1, <2>2, BoundedInduction
<1> QED
  BY <1>1, <1>4 DEF T

\* No definition is no workflow.
LEMMA DefinitionIs ==
    ASSUME NEW p \in Paths
    PROVE  Definition(p) # NoWorkflow /\ Definition(p).path = p /\ AgentActions # NoWorkflow
           /\ AgentActions.path = AgentPath
<1>1. p # NoPath /\ Definition(p).path = p /\ NoWorkflow.path = NoPath
  BY ConstantsAssumption DEF Definition, NoWorkflow
<1>2. AgentActions.synthetic = TRUE /\ NoWorkflow.synthetic = FALSE /\ AgentActions.path = AgentPath
  BY DEF AgentActions, NoWorkflow
<1> QED
  BY <1>1, <1>2

\* The model a crate is written from has a workflow if its profile wants one, the last
\* definition if there is one, and the steps that were started.
LEMMA WorkflowRead ==
    ASSUME NEW log \in Seq(Events), NEW through \in 0 .. Len(log), NEW request, NEW files,
           NEW build, build = BuildModel(log, through, request, files)
    PROVE  /\ WorkflowLike(build.profile) => HasWorkflow(build.model)
           /\ LastDefined(build.model.workflow, log, through)
           /\ StepsStarted(build.model.steps, log, through)
<1> DEFINE read == Reduced(log, through)
           synthesized == SynthesizeWorkflow(read, SelectProfile(read, request))
           model == EnrichWithAdapter(synthesized, files)
<1>1. read \in Models /\ synthesized \in Models
  BY ReducedTyped, SynthesizeTyped
<1>2. build.model = model /\ build.profile = SelectProfile(model, request)
  BY DEF BuildModel
<1>3. LastDefined(read.workflow, log, through) /\ StepsStarted(read.steps, log, through)
  BY WorkflowReduced
<1> HIDE DEF read
<1>4. /\ synthesized = read \/ (read.workflow = NoWorkflow /\ synthesized = [read EXCEPT !.workflow = AgentActions])
      /\ WorkflowLike(SelectProfile(read, request)) /\ read.workflow = NoWorkflow =>
            synthesized = [read EXCEPT !.workflow = AgentActions]
  BY DEF SynthesizeWorkflow, HasWorkflow
<1>5. /\ synthesized = [read EXCEPT !.workflow = AgentActions] => synthesized.workflow = AgentActions
      /\ synthesized.steps = read.steps
  BY <1>1, <1>4 DEF Models
<1> HIDE DEF synthesized
<1>6. \/ model = synthesized
      \/ /\ synthesized.workflow.path \in Definitions
         /\ \E S : model = [synthesized EXCEPT
                        !.steps = [s \in DOMAIN synthesized.steps \cup S |->
                                      IF s \in DOMAIN synthesized.steps THEN synthesized.steps[s] ELSE "identified"]]
  BY DEF EnrichWithAdapter
<1> HIDE DEF model
<1>7. model.workflow = synthesized.workflow /\ DOMAIN synthesized.steps \subseteq DOMAIN model.steps
  <2>1. ASSUME NEW x PROVE LET new == [synthesized EXCEPT !.steps = x]
                           IN  new.workflow = synthesized.workflow /\ new.steps = x
    BY <1>1 DEF Models
  <2>2. CASE model = synthesized
    BY <2>2
  <2>3. CASE model # synthesized
    <3>1. PICK S : model = [synthesized EXCEPT
                        !.steps = [s \in DOMAIN synthesized.steps \cup S |->
                                      IF s \in DOMAIN synthesized.steps THEN synthesized.steps[s] ELSE "identified"]]
      BY <1>6, <2>3
    <3> DEFINE x == [s \in DOMAIN synthesized.steps \cup S |->
                        IF s \in DOMAIN synthesized.steps THEN synthesized.steps[s] ELSE "identified"]
    <3>2. DOMAIN x = DOMAIN synthesized.steps \cup S /\ model = [synthesized EXCEPT !.steps = x]
      BY <3>1
    <3> HIDE DEF x
    <3> QED
      BY <2>1, <3>2
  <2> QED
    BY <2>2, <2>3
<1>8. ASSUME WorkflowLike(build.profile) PROVE HasWorkflow(build.model)
  <2>1. CASE model.workflow = NoWorkflow
    <3>1. synthesized = read /\ read.workflow = NoWorkflow
      <4>1. AgentActions # NoWorkflow
        <5>1. AgentActions.synthetic = TRUE /\ NoWorkflow.synthetic = FALSE
          BY DEF AgentActions, NoWorkflow
        <5> QED
          BY <5>1
      <4> QED
        BY <1>4, <1>5, <1>7, <2>1, <4>1
    <3>2. synthesized.workflow.path \notin Definitions
      BY <3>1, ConstantsAssumption DEF NoWorkflow
    <3>3. model = read
      BY <1>6, <3>1, <3>2
    <3>4. synthesized = [read EXCEPT !.workflow = AgentActions]
      BY <1>2, <1>4, <1>8, <3>1, <3>3
    <3> QED
      BY <1>5, <1>7, <2>1, <3>4 DEF AgentActions, NoWorkflow
  <2>2. CASE model.workflow # NoWorkflow
    BY <1>2, <2>2 DEF HasWorkflow
  <2> QED
    BY <2>1, <2>2
<1>9. LastDefined(model.workflow, log, through)
  <2>1. CASE read.workflow # NoWorkflow
    BY <1>3, <1>4, <1>7, <2>1
  <2>2. CASE read.workflow = NoWorkflow
    <3>1. ASSUME NEW i \in 1 .. through, DeclaresWorkflow(log[i]) PROVE Definition(log[i].path) # NoWorkflow
      <4>1. log[i] \in Events /\ log[i].type = "workflow.input.declared"
        BY <3>1 DEF DeclaresWorkflow
      <4>2. log[i].path \in Paths
        BY <4>1, EventFields DEF DeclarationEvents
      <4> QED
        BY <4>2, DefinitionIs
    <3> QED
      BY <1>3, <2>2, <3>1 DEF LastDefined
  <2> QED
    BY <2>1, <2>2
<1>10. StepsStarted(model.steps, log, through)
  BY <1>3, <1>5, <1>7 DEF StepsStarted
<1> QED
  BY <1>2, <1>8, <1>9, <1>10

-----------------------------------------------------------------------------
(* The agent's own actions in a model are those of the journal.             *)

\* The records are of events of a type among the first n.
PlacedAt(records, log, n, type) ==
    \A k \in DOMAIN records : records[k].at \in 1 .. n /\ log[records[k].at].type = type

\* An event that is the first of its task.
FirstOfTask(log, i) ==
    /\ log[i].type = "agent.task"
    /\ \A j \in 1 .. i - 1 : log[j].type = "agent.task" => log[j].task # log[i].task

\* Edits are recorded events; every shell command has its record and every task that of its first event.
ShellsTold(shells, log, n) ==
    /\ PlacedAt(shells, log, n, "tool.completed")
    /\ \A i \in 1 .. n : log[i].type = "tool.completed" => \E k \in DOMAIN shells : shells[k].at = i
TasksTold(tasks, log, n) ==
    /\ \A k \in DOMAIN tasks : /\ tasks[k].at \in 1 .. n /\ FirstOfTask(log, tasks[k].at)
                               /\ tasks[k].task = log[tasks[k].at].task
    /\ \A i \in 1 .. n : log[i].type = "agent.task" => \E k \in DOMAIN tasks : tasks[k].task = log[i].task
Told(m, log, n) ==
    PlacedAt(m.edits, log, n, "file") /\ ShellsTold(m.shells, log, n) /\ TasksTold(m.tasks, log, n)

\* A record for the next event.
LEMMA PlacedNext ==
    ASSUME NEW S, NEW records \in Seq(S), NEW log, NEW n \in Nat, NEW type, PlacedAt(records, log, n, type)
    PROVE  /\ PlacedAt(records, log, n + 1, type)
           /\ \A x : x.at = n + 1 /\ log[n + 1].type = type => PlacedAt(Append(records, x), log, n + 1, type)
<1>1. \A i \in 1 .. n : i \in 1 .. n + 1
  OBVIOUS
<1>2. PlacedAt(records, log, n + 1, type)
  BY <1>1 DEF PlacedAt
<1>3. ASSUME NEW x, x.at = n + 1, log[n + 1].type = type PROVE PlacedAt(Append(records, x), log, n + 1, type)
  <2> SUFFICES ASSUME NEW k \in DOMAIN Append(records, x)
               PROVE  Append(records, x)[k].at \in 1 .. n + 1 /\ log[Append(records, x)[k].at].type = type
    BY DEF PlacedAt
  <2>1. n + 1 \in 1 .. n + 1
    OBVIOUS
  <2>2. CASE k \in DOMAIN records
    BY <1>2, <2>2, Appended DEF PlacedAt
  <2>3. CASE k = Len(records) + 1
    BY <1>3, <2>1, <2>3, Appended
  <2> QED
    BY <2>2, <2>3, Appended
<1> QED
  BY <1>2, <1>3

\* The shell commands after one more event.
LEMMA ShellsNext ==
    ASSUME NEW S, NEW shells \in Seq(S), NEW log, NEW n \in Nat, ShellsTold(shells, log, n), NEW next, NEW x,
           x.at = n + 1,
           next = IF log[n + 1].type = "tool.completed" THEN Append(shells, x) ELSE shells
    PROVE  ShellsTold(next, log, n + 1)
<1>1. PlacedAt(next, log, n + 1, "tool.completed")
  BY PlacedNext DEF ShellsTold
<1>2. ASSUME NEW i \in 1 .. n + 1, log[i].type = "tool.completed" PROVE \E k \in DOMAIN next : next[k].at = i
  <2>1. CASE i = n + 1
    <3>1. next = Append(shells, x)
      BY <1>2, <2>1
    <3>2. Len(shells) + 1 \in DOMAIN next /\ next[Len(shells) + 1] = x
      BY <3>1, Appended
    <3> QED
      BY <2>1, <3>2
  <2>2. CASE i # n + 1
    <3>1. i \in 1 .. n
      BY <2>2
    <3>2. PICK k \in DOMAIN shells : shells[k].at = i
      BY <1>2, <3>1 DEF ShellsTold
    <3>3. k \in DOMAIN next /\ next[k] = shells[k]
      BY Appended
    <3> QED
      BY <3>2, <3>3
  <2> QED
    BY <2>1, <2>2
<1> QED
  BY <1>1, <1>2 DEF ShellsTold

\* The tasks after one more event.
LEMMA TasksNext ==
    ASSUME NEW S, NEW tasks \in Seq(S), NEW log, NEW n \in Nat, TasksTold(tasks, log, n), NEW next, NEW x,
           x.at = n + 1, x.task = log[n + 1].task,
           next = IF log[n + 1].type = "agent.task" THEN SetDefault(tasks, "task", x) ELSE tasks
    PROVE  TasksTold(next, log, n + 1)
<1>1. /\ \A k \in DOMAIN tasks : /\ tasks[k].at \in 1 .. n /\ FirstOfTask(log, tasks[k].at)
                                 /\ tasks[k].task = log[tasks[k].at].task
      /\ \A i \in 1 .. n : log[i].type = "agent.task" => \E k \in DOMAIN tasks : tasks[k].task = log[i].task
  BY DEF TasksTold
<1>2. \A i \in 1 .. n + 1 : i \in 1 .. n \/ i = n + 1
  OBVIOUS
<1>3. \A i \in 1 .. n : i \in 1 .. n + 1
  OBVIOUS
<1>4. CASE next = tasks /\ (log[n + 1].type # "agent.task" \/ \E k \in DOMAIN tasks : tasks[k].task = x.task)
  BY <1>1, <1>2, <1>3, <1>4 DEF TasksTold
<1>5. CASE next = Append(tasks, x) /\ log[n + 1].type = "agent.task" /\ \A k \in DOMAIN tasks : tasks[k].task # x.task
  <2>1. FirstOfTask(log, n + 1)
    <3>1. \A j \in 1 .. n + 1 - 1 : j \in 1 .. n
      OBVIOUS
    <3> QED
      BY <1>1, <1>5, <3>1 DEF FirstOfTask
  <2>2. ASSUME NEW k \in DOMAIN next
        PROVE  /\ next[k].at \in 1 .. n + 1 /\ FirstOfTask(log, next[k].at)
               /\ next[k].task = log[next[k].at].task
    <3>1. CASE k \in DOMAIN tasks
      <4>1. next[k] = tasks[k]
        BY <1>5, <3>1, Appended
      <4> QED
        BY <1>1, <1>3, <3>1, <4>1
    <3>2. CASE k = Len(tasks) + 1
      <4>1. next[k] = x
        BY <1>5, <3>2, Appended
      <4>2. n + 1 \in 1 .. n + 1
        OBVIOUS
      <4> QED
        BY <2>1, <4>1, <4>2
    <3> QED
      BY <1>5, <3>1, <3>2, Appended
  <2>3. /\ \A k \in DOMAIN tasks : k \in DOMAIN next /\ next[k] = tasks[k]
        /\ Len(tasks) + 1 \in DOMAIN next /\ next[Len(tasks) + 1] = x
    BY <1>5, Appended
  <2>4. ASSUME NEW i \in 1 .. n + 1, log[i].type = "agent.task"
        PROVE  \E k \in DOMAIN next : next[k].task = log[i].task
    <3>1. CASE i \in 1 .. n
      BY <1>1, <2>3, <2>4, <3>1
    <3>2. CASE i = n + 1
      BY <2>3, <3>2
    <3> QED
      BY <1>2, <3>1, <3>2
  <2> QED
    BY <2>2, <2>4 DEF TasksTold
<1>6. SetDefault(tasks, "task", x) =
         IF \E k \in DOMAIN tasks : tasks[k].task = x.task THEN tasks ELSE Append(tasks, x)
  BY DEF SetDefault, Keyed
<1> QED
  BY <1>4, <1>5, <1>6

\* The reducer records the agent's actions where the journal has them.
LEMMA ActionsRead ==
    ASSUME NEW log \in Seq(Events), NEW through \in 0 .. Len(log), NEW request, NEW files
    PROVE  Told(BuildModel(log, through, request, files).model, log, through)
<1>1. PICK read \in [0 .. through -> Models] :
         /\ read[0] = EmptyModel
         /\ \A n \in 1 .. through : read[n] = Project(read[n - 1], log[n], n)
         /\ Reduced(log, through) = read[through]
  BY ReducedSteps
<1> DEFINE T == {n \in 0 .. through : Told(read[n], log, n)}
<1>2. 0 \in T
  BY <1>1 DEF Told, PlacedAt, ShellsTold, TasksTold, EmptyModel
<1>3. ASSUME NEW n \in 0 .. through - 1, n \in T PROVE n + 1 \in T
  <2> DEFINE m == read[n]
             e == log[n + 1]
             next == read[n + 1]
             edit == [path |-> e.path, op |-> e.op, at |-> n + 1]
             shell == [tool |-> e.tool, at |-> n + 1]
             task == [task |-> e.task, at |-> n + 1]
  <2>1. n + 1 \in 1 .. through /\ n + 1 - 1 = n /\ n \in 0 .. through /\ n \in Nat
    OBVIOUS
  <2>2. m \in Models /\ e \in Events
    BY <2>1
  <2>3. next = Project(m, e, n + 1)
    BY <1>1, <2>1
  <2>4. PlacedAt(m.edits, log, n, "file") /\ ShellsTold(m.shells, log, n) /\ TasksTold(m.tasks, log, n)
    BY <1>3 DEF Told
  <2>5. m.edits \in Seq(FileActions) /\ m.shells \in Seq(Shells) /\ m.tasks \in Seq(Tasks)
    BY <2>2, ModelFields
  <2>6. edit.at = n + 1 /\ shell.at = n + 1 /\ task.at = n + 1 /\ task.task = e.task
    OBVIOUS
  <2> HIDE DEF m, next, edit, shell, task
  <2>7. /\ e.type = "file" => next.edits = IF e.path \in Internal THEN m.edits ELSE Append(m.edits, edit)
        /\ e.type = "tool.completed" => next.shells = Append(m.shells, shell)
        /\ e.type = "agent.task" => next.tasks = SetDefault(m.tasks, "task", task)
    <3> HIDE DEF e
    <3> QED
      BY <2>2, <2>3, FieldsRead DEF edit, shell, task
  <2>8. /\ e.type # "file" => next.edits = m.edits
        /\ e.type # "tool.completed" => next.shells = m.shells
        /\ e.type # "agent.task" => next.tasks = m.tasks
    <3> HIDE DEF e
    <3> QED
      BY <2>2, <2>3, FieldsStay
  <2>9. PlacedAt(next.edits, log, n + 1, "file")
    <3>1. PlacedAt(m.edits, log, n + 1, "file")
      BY <2>1, <2>4, <2>5, PlacedNext
    <3>2. e.type = "file" => PlacedAt(Append(m.edits, edit), log, n + 1, "file")
      BY <2>1, <2>4, <2>5, <2>6, PlacedNext
    <3> QED
      BY <2>7, <2>8, <3>1, <3>2
  <2>10. ShellsTold(next.shells, log, n + 1)
    <3>1. next.shells = IF log[n + 1].type = "tool.completed" THEN Append(m.shells, shell) ELSE m.shells
      BY <2>7, <2>8
    <3> QED
      BY <2>1, <2>4, <2>5, <2>6, <3>1, ShellsNext
  <2>11. TasksTold(next.tasks, log, n + 1)
    <3>1. next.tasks = IF log[n + 1].type = "agent.task" THEN SetDefault(m.tasks, "task", task) ELSE m.tasks
      BY <2>7, <2>8
    <3> QED
      BY <2>1, <2>4, <2>5, <2>6, <3>1, TasksNext
  <2> QED
    BY <2>1, <2>9, <2>10, <2>11 DEF Told, next
<1> HIDE DEF T
<1>4. 0 .. through \subseteq T
  BY <1>2, <1>3, BoundedInduction
<1>5. Told(Reduced(log, through), log, through)
  BY <1>1, <1>4 DEF T
<1> QED
  BY <1>5, BuildKeeps DEF Told, Same
=============================================================================
