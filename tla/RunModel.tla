------------------------------ MODULE RunModel ------------------------------
(***************************************************************************)
(* The reducer of materialize/run_model.py and the profile selection of    *)
(* materialize/profiles.py: what the crate builder knows of a run is a     *)
(* fold of its journal.  One operator per projector; an event without one  *)
(* leaves the model alone.                                                 *)
(*                                                                         *)
(* Texts, timestamps, environment, containers, dependencies and parameters *)
(* are left out.  An event's time is its place in the journal.             *)
(***************************************************************************)
EXTENDS Naturals, Sequences, FiniteSets, SequencesExt

CONSTANTS
    NoStep,          \* the step of a command run outside every step
    NoPath,
    AgentPath,       \* the path of the synthesized workflow, no file
    Internal,        \* paths inside .ro-crate-run
    Definitions,     \* paths an adapter takes for a workflow definition
    DefinedSteps     \* DefinedSteps[p]: the steps the definition p lists

Profiles == {"process", "workflow", "provenance"}
WorkflowLike(profile) == profile \in {"workflow", "provenance"}

StepTerminals == {"completed", "failed", "skipped"}

\* RunModel.workflow: no workflow, the agent's own actions, or a definition.
NoWorkflow == [path |-> NoPath, synthetic |-> FALSE, engine |-> FALSE]
AgentActions == [path |-> AgentPath, synthetic |-> TRUE, engine |-> TRUE]
Definition(path) == [path |-> path, synthetic |-> FALSE, engine |-> path \in Definitions]

EmptyModel ==
    [inputs |-> <<>>, outputs |-> <<>>, workflow |-> NoWorkflow, steps |-> <<>>,
     phases |-> <<>>, commands |-> <<>>, edits |-> <<>>, shells |-> <<>>,
     tasks |-> <<>>, taskEvents |-> 0, results |-> <<>>, aborted |-> FALSE]

(***************************************************************************)
(* Dictionaries keep the place of a key's first insertion.                 *)
(***************************************************************************)
Keyed(seq, key, name) == {i \in DOMAIN seq : seq[i][key] = name}
\* d[name] = record
Assign(seq, key, record) ==
    LET at == Keyed(seq, key, record[key]) IN
    IF at = {} THEN Append(seq, record)
    ELSE [i \in DOMAIN seq |-> IF i \in at THEN record ELSE seq[i]]
\* d.setdefault(name, record)
SetDefault(seq, key, record) ==
    IF Keyed(seq, key, record[key]) = {} THEN Append(seq, record) ELSE seq
Entry(seq, key, name) == seq[CHOOSE i \in Keyed(seq, key, name) : TRUE]

WithStep(steps, step, status) ==
    [s \in DOMAIN steps \cup {step} |-> IF s = step THEN status ELSE steps[s]]

(***************************************************************************)
(* Projectors.  i is the event's sequence number.                          *)
(***************************************************************************)
ReduceInputDeclared(m, e) ==
    [m EXCEPT !.inputs = Append(@, e),
              !.workflow = IF e.role = "workflow-definition" \/ e.path \in Definitions
                           THEN Definition(e.path) ELSE @]

ReduceOutputDeclared(m, e) == [m EXCEPT !.outputs = Append(@, e)]

ReducePhaseStarted(m, e, i) ==
    [m EXCEPT !.phases = Assign(@, "name", [name |-> e.name, status |-> "started", at |-> i])]

ReducePhaseCompleted(m, e, i) ==
    LET seen == SetDefault(m.phases, "name", [name |-> e.name, status |-> "", at |-> i])
        entry == Entry(seen, "name", e.name)
    IN  [m EXCEPT !.phases = Assign(seen, "name", [entry EXCEPT !.status = "completed"])]

ReduceStepStarted(m, e) == [m EXCEPT !.steps = WithStep(@, e.step, "started")]

ReduceStepTerminal(m, e) == [m EXCEPT !.steps = WithStep(@, e.step, e.status)]

ReduceCommandStarted(m, e, i) ==
    [m EXCEPT !.commands =
        Assign(@, "command", [command |-> e.command, action |-> e.action, tool |-> e.tool,
                              step |-> e.step, inputs |-> e.inputs, outputs |-> e.outputs,
                              at |-> i, status |-> "started"])]

\* Mutant: the first terminal event of a command stays.
ReduceCommandTerminalFirst(m, e) ==
    [m EXCEPT !.commands =
        [k \in DOMAIN @ |-> IF @[k].command = e.command /\ @[k].status = "started"
                            THEN [@[k] EXCEPT !.status = e.status] ELSE @[k]]]

\* The last terminal event of a command counts.  rcr run and recovery end only
\* commands that were started.
ReduceCommandTerminal(m, e) ==
    [m EXCEPT !.commands =
        [k \in DOMAIN @ |-> IF @[k].command = e.command
                            THEN [@[k] EXCEPT !.status = e.status] ELSE @[k]]]

ReduceFileAction(m, e, i) ==
    IF e.path \in Internal THEN m
    ELSE [m EXCEPT !.edits = Append(@, [path |-> e.path, op |-> e.op, at |-> i])]

\* A shell command the agent ran outside rcr run.
ReduceToolCompleted(m, e, i) == [m EXCEPT !.shells = Append(@, [tool |-> e.tool, at |-> i])]

\* One record per task, and the count of the raw events.
ReduceSubagent(m, e, i) ==
    [m EXCEPT !.taskEvents = @ + 1,
              !.tasks = SetDefault(@, "task", [task |-> e.task, at |-> i])]

ReduceResult(m, e) == [m EXCEPT !.results = Append(@, e.accepted)]

Project(m, e, i) ==
    CASE e.type = "workflow.input.declared"  -> ReduceInputDeclared(m, e)
      [] e.type = "workflow.output.declared" -> ReduceOutputDeclared(m, e)
      [] e.type = "workflow.phase.started"   -> ReducePhaseStarted(m, e, i)
      [] e.type = "workflow.phase.completed" -> ReducePhaseCompleted(m, e, i)
      [] e.type = "workflow.step.started"    -> ReduceStepStarted(m, e)
      [] e.type = "workflow.step.terminal"   -> ReduceStepTerminal(m, e)
      [] e.type = "execution.command.started"  -> ReduceCommandStarted(m, e, i)
      [] e.type = "execution.command.terminal" -> ReduceCommandTerminal(m, e)
      [] e.type = "file"                     -> ReduceFileAction(m, e, i)
      [] e.type = "tool.completed"           -> ReduceToolCompleted(m, e, i)
      [] e.type = "agent.task"               -> ReduceSubagent(m, e, i)
      [] e.type = "human.result"             -> ReduceResult(m, e)
      [] e.type = "run.aborted"              -> [m EXCEPT !.aborted = TRUE]
      [] OTHER                               -> m

\* The journal up to the high-water mark.
Reduced(events, through) ==
    LET read[n \in 0 .. through] ==
            IF n = 0 THEN EmptyModel ELSE Project(read[n - 1], events[n], n)
    IN  read[through]

(***************************************************************************)
(* Profile selection.                                                      *)
(***************************************************************************)
HasWorkflow(m) == m.workflow # NoWorkflow

ExecutedSteps(m) ==
    \/ \E s \in DOMAIN m.steps : m.steps[s] # "identified"
    \/ \E k \in DOMAIN m.commands : m.commands[k].step # NoStep

Structured(m) ==
    \/ m.phases # <<>>
    \/ Len(m.commands) + Len(m.edits) + Len(m.shells) + m.taskEvents > 1
    \/ m.edits # <<>>

SelectProfile(m, requested) ==
    IF requested \in Profiles THEN requested
    ELSE IF ExecutedSteps(m) THEN "provenance"
    ELSE IF HasWorkflow(m) \/ Structured(m) THEN "workflow"
    ELSE "process"

\* Mutant: every run gets the agent's actions as its workflow.
SynthesizeAlways(m, profile) ==
    IF WorkflowLike(profile) THEN [m EXCEPT !.workflow = AgentActions] ELSE m

SynthesizeWorkflow(m, profile) ==
    IF WorkflowLike(profile) /\ ~HasWorkflow(m) THEN [m EXCEPT !.workflow = AgentActions] ELSE m

\* A definition on disk names its steps.
EnrichWithAdapter(m, disk) ==
    IF m.workflow.path \in Definitions \cap disk
    THEN [m EXCEPT !.steps = [s \in DOMAIN @ \cup DefinedSteps[m.workflow.path] |->
                                 IF s \in DOMAIN @ THEN @[s] ELSE "identified"]]
    ELSE m

\* build_run_model and enrich_with_adapter: the model a crate is written from.
BuildModel(events, through, requested, disk) ==
    LET read == Reduced(events, through)
        synthesized == SynthesizeWorkflow(read, SelectProfile(read, requested))
        model == EnrichWithAdapter(synthesized, disk)
    IN  [model |-> model, profile |-> SelectProfile(model, requested)]
=============================================================================
