-------------------------------- MODULE Crate --------------------------------
(***************************************************************************)
(* What a checkpoint writes into ro-crate/: the agent and its commands     *)
(* fill the journal while checkpoints build the crate from it.  The crate  *)
(* is its graph: entities with their types and the references and statuses *)
(* they carry, merged by @id as _dedupe does.                              *)
(*                                                                         *)
(* Appends are atomic here (module EventJournal), and checkpoints exclude  *)
(* one another (module Checkpoint).  A build reads the journal and the id  *)
(* map in one step and writes the crate and the id map in a later one.     *)
(* One rcr run at a time is between its load and its save of the id map.   *)
(***************************************************************************)
EXTENDS RunModel

CONSTANTS
    Paths,           \* the files the run touches
    Outside,         \* paths outside the project
    Ignored,         \* paths an ignore pattern matches
    Sensitive,       \* paths that may never be captured
    BaseName,        \* BaseName[p]: the last part of p
    Initially,       \* the files there at the start
    Prologues,       \* sequences of declarations the run has begun with
    Declarations,    \* what rcr input and rcr output are called with
    CommandLines,    \* what rcr run is called with
    DeleteTools,     \* tools whose commands are deletions
    Edits,           \* the file edits of the agent
    Names,           \* names of phases, steps, tasks and shell tools
    Requests,        \* profiles a checkpoint is asked for
    Policy,          \* FilePolicy and copy_mode
    MaxEvents        \* bound: length of the journal

\* The arguments of rcr input and rcr output.
Calls == [kind : {"input", "output"}, path : Paths, role : STRING, copy : STRING]

ASSUME ConstantsAssumption ==
    /\ Outside \cup Ignored \cup Sensitive \cup Initially \cup Internal \cup Definitions
          \subseteq Paths
    /\ {NoPath, AgentPath} \cap Paths = {}
    /\ Prologues \subseteq Seq(Calls)
    /\ Declarations \subseteq Calls
    /\ CommandLines \subseteq [tool : STRING, inputs : SUBSET Paths, outputs : SUBSET Paths]
    /\ Edits \subseteq [path : Paths, op : STRING]
    /\ Names \in [phases : SUBSET STRING, steps : SUBSET STRING, tools : SUBSET STRING,
                  tasks : SUBSET STRING, results : SUBSET BOOLEAN, abort : BOOLEAN]
    /\ IsFiniteSet(Names.steps) /\ NoStep \notin Names.steps
    /\ DefinedSteps \in [Definitions -> SUBSET Names.steps]
    /\ Policy \in [inputs : BOOLEAN, outputs : BOOLEAN, source : BOOLEAN, copies : BOOLEAN]
    /\ Requests \subseteq Profiles \cup {"auto"}
    /\ MaxEvents \in Nat

VARIABLES
    journal,   \* events.ndjson
    disk,      \* the files that exist in the project
    idMap,     \* id-map.json: the crate id of every key
    minted,    \* uuids minted so far
    runner,    \* the rcr run that is starting: the id map it has loaded
    requested, \* state.json's requested_profile
    builder,   \* the checkpoint under way: what it has read
    copied,    \* the files in ro-crate/
    crate      \* ro-crate-metadata.json

vars == <<journal, disk, idMap, minted, runner, requested, builder, copied, crate>>

(***************************************************************************)
(* Which files enter the crate: materialize/files.py.                      *)
(***************************************************************************)
IncludedForRole(role) ==
    CASE role = "input" -> Policy.inputs [] role = "source" -> Policy.source
      [] OTHER -> Policy.outputs

ClassifyCopy(path, copy, included) ==
    copy # "reference" /\ path \in disk /\ included /\ (copy = "copy" \/ Policy.copies)

\* Mutant: only the ignore patterns keep a path out.
PlanForPathUnchecked(path, role, copy, existence, user) ==
    [path |-> path, role |-> role, existence |-> existence, user |-> user,
     sensitive |-> FALSE, included |-> IncludedForRole(role),
     copy |-> ClassifyCopy(path, copy, IncludedForRole(role))]

\* What is known of a path.  An ignored path has no plan.
PlanForPath(path, role, copy, existence, user) ==
    LET captured == path \notin Outside \cup Sensitive
        included == captured /\ IncludedForRole(role)
    IN  [path |-> path, role |-> role, existence |-> existence, user |-> user,
         sensitive |-> path \in Sensitive \ Outside, included |-> included,
         copy |-> captured /\ ClassifyCopy(path, copy, included)]

\* Mutant: what the user declared is all that counts.
MergePlanUser(old, new) == IF old.user THEN old ELSE new

\* What the user declared wins over what was inferred, in either order; what any
\* of them captures is captured.
MergePlan(old, new) ==
    LET user == IF old.user /\ ~new.user THEN old ELSE new
        other == IF old.user /\ ~new.user THEN new ELSE old
        sensitive == old.sensitive \/ new.sensitive
    IN  [path |-> new.path, role |-> user.role,
         existence |-> IF user.existence = "" THEN other.existence ELSE user.existence,
         user |-> old.user \/ new.user, sensitive |-> sensitive,
         included |-> old.included \/ new.included,
         copy |-> (old.copy \/ new.copy) /\ ~sensitive]

\* The plans for what was declared, produced and edited, in the order they are made.
\* Those of one group are for different paths.
Considered(m) ==
    LET declared(items, role) ==
            [i \in DOMAIN items |->
                {PlanForPath(items[i].path, role, items[i].copy, items[i].existence, TRUE)}]
        inferred(paths, role) == {PlanForPath(p, role, "default", "", FALSE) : p \in paths}
    IN  declared(m.inputs, "input") \o declared(m.outputs, "output")
        \o [k \in DOMAIN m.commands |-> inferred(m.commands[k].outputs, "output")]
        \o [i \in DOMAIN m.edits |-> inferred({m.edits[i].path}, "output")]
        \o IF HasWorkflow(m) THEN <<inferred({m.workflow.path}, "source")>> ELSE <<>>

\* plans[file_id] = _merge_plan(plans.get(file_id), plan), for each plan of a group.
Consider(plans, group) ==
    LET found == {new \in group : new.path \notin Ignored \ Outside}
        new(path) == CHOOSE plan \in found : plan.path = path
        paths == {plan.path : plan \in found}
    IN  [path \in DOMAIN plans \cup paths |->
            IF path \notin paths THEN plans[path]
            ELSE IF path \notin DOMAIN plans THEN new(path)
            ELSE MergePlan(plans[path], new(path))]

PlanFileInclusion(m) ==
    LET groups == Considered(m)
        plans[n \in 0 .. Len(groups)] ==
            IF n = 0 THEN <<>> ELSE Consider(plans[n - 1], groups[n])
    IN  plans[Len(groups)]

(***************************************************************************)
(* Entities.  A link is a property and what it refers to; a status, an     *)
(* error or an existence is a link to no entity.                           *)
(***************************************************************************)
Entity(id, types, links) == [id |-> id, types |-> types, links |-> links]
Refs(property, ids) == {<<property, id>> : id \in ids}
Ref(property, id) == {<<property, id>>}
Status(status) == {<<"actionStatus", <<"status", status>>>>}
\* completed_or_failed.
Finished(ok) == IF ok THEN Status("completed") ELSE Status("failed") \cup {<<"error", <<"text">>>>}

Root == <<"root">>
FileId(path) == <<"file", path>>
Software(tool) == <<"software", tool>>
Actor(name) == <<"actor", name>>
Engine == <<"actor", "engine">>
Uuid(n) == <<"uuid", n>>
\* The synthesized workflow's path is its id.
WorkflowId(m) == FileId(m.workflow.path)
FilesOf(paths) == {FileId(p) : p \in paths}

(***************************************************************************)
(* The emitters of builder.py and mapping/, one operator each.             *)
(***************************************************************************)
Actors(m) ==
    {Entity(Actor("human"), {"Person"}, {}), Entity(Actor("rcr"), {"SoftwareApplication"}, {}),
     Entity(Actor("claude-code"), {"SoftwareApplication"}, {})}
    \cup IF m.workflow.engine THEN {Entity(Engine, {"SoftwareApplication"}, {})} ELSE {}

ToolsOf(m) == {m.commands[k].tool : k \in DOMAIN m.commands}
Tools(m) == {Entity(Software(t), {"SoftwareApplication"}, {}) : t \in ToolsOf(m)}

\* workflow_formal_parameters: the parameters a declared path stands for.  They
\* are named after the path's base name, and the last declaration of a path counts.
FormalParameters(m, profile) ==
    LET formal(items, kind) ==
            {<<items[i].path, <<"formal", kind, BaseName[items[i].path]>>>> :
                i \in {j \in DOMAIN items : /\ items[j].path # m.workflow.path
                                            /\ items[j].role \notin {"workflow-definition", "config"}}}
        inputs == formal(m.inputs, "input")
        outputs == formal(m.outputs, "output")
        later == {pair[1] : pair \in outputs}
    IN  IF ~WorkflowLike(profile) \/ ~HasWorkflow(m)
        THEN [all |-> {}, of |-> {}]
        ELSE [all |-> {pair[2] : pair \in inputs \cup outputs},
              of |-> {pair \in inputs : pair[1] \notin later} \cup outputs]

Formals(formals) == {Entity(id, {"FormalParameter"}, {}) : id \in formals.all}

\* A sensitive file is only referred to.
FileEntity(plan, formals) ==
    Entity(FileId(plan.path), {"File"},
           {<<"exampleOfWork", pair[2]>> : pair \in {q \in formals.of : q[1] = plan.path}}
           \cup IF plan.sensitive \/ plan.existence = "" THEN {}
                ELSE {<<"existence", <<plan.existence>>>>})

PlannedFiles(plans, formals) == {FileEntity(plans[p], formals) : p \in DOMAIN plans}

BuildWorkflow(m, formals) ==
    IF ~HasWorkflow(m) THEN {}
    ELSE LET formalsOf(items, kind) ==
                 {pair[2] : pair \in {q \in formals.of : \E i \in DOMAIN items : items[i].path = q[1]}}
         IN {Entity(WorkflowId(m),
                {"ComputationalWorkflow"} \cup (IF m.workflow.synthetic THEN {} ELSE {"File"})
                    \cup (IF DOMAIN m.steps = {} THEN {} ELSE {"HowTo"}),
                Refs("hasPart", {Software(t) : t \in ToolsOf(m)})
                \cup (IF m.workflow.engine
                      THEN Ref("programmingLanguage", Engine) \cup Ref("hasPart", Engine) ELSE {})
                \cup Refs("input", formalsOf(m.inputs, "input"))
                \cup Refs("output", formalsOf(m.outputs, "output"))
                \cup Refs("step", {<<"step", s>> : s \in DOMAIN m.steps}))}

\* There is work the workflow was executed by.
Executes(m) == HasWorkflow(m) /\ (m.commands # <<>> \/ m.edits # <<>> \/ m.shells # <<>>)

BuildWorkflowAction(m, ids) ==
    IF ~Executes(m) THEN {}
    ELSE LET failed == \E k \in DOMAIN m.commands : m.commands[k].status = "failed"
             paths(items) == {items[i].path : i \in DOMAIN items}
         IN {Entity(ids[<<"workflow-action">>], {"CreateAction"},
                Finished(~failed) \cup Ref("instrument", WorkflowId(m))
                \cup Ref("agent", Actor(IF m.commands = <<>> THEN "claude-code" ELSE "rcr"))
                \cup Refs("object", FilesOf(paths(m.inputs) \ {m.workflow.path}))
                \cup Refs("result", FilesOf(paths(m.outputs))))}

\* The command a step is linked to.
CommandsOf(m, step) == {k \in DOMAIN m.commands : m.commands[k].step = step}
FirstCommand(m, step) == CHOOSE k \in CommandsOf(m, step) : \A j \in CommandsOf(m, step) : k <= j

StepStatus(status) ==
    CASE status = "started" -> "active" [] status \in {"failed", "skipped"} -> "failed"
      [] OTHER -> "completed"

Controlled(m) == {s \in DOMAIN m.steps : CommandsOf(m, s) # {}}

BuildSteps(m, ids) ==
    LET example(s) == IF CommandsOf(m, s) # {} THEN {Software(m.commands[FirstCommand(m, s)].tool)}
                      ELSE IF m.workflow.engine THEN {Engine}
                      ELSE IF HasWorkflow(m) THEN {WorkflowId(m)} ELSE {}
        howTo(s) == Entity(<<"step", s>>, {"HowToStep"}, Refs("workExample", example(s)))
        control(s) ==
            LET command == m.commands[FirstCommand(m, s)]
            IN Entity(ids[<<"control", command.command>>], {"ControlAction"},
                      Status(StepStatus(m.steps[s])) \cup Ref("instrument", <<"step", s>>)
                      \cup Ref("object", command.action))
    IN  {howTo(s) : s \in DOMAIN m.steps} \cup {control(s) : s \in Controlled(m)}

CommandActionType(command) ==
    IF command.tool \in DeleteTools THEN "DeleteAction"
    ELSE IF command.outputs = {} THEN "Action"
    ELSE IF command.inputs # {} /\ command.outputs \subseteq command.inputs THEN "UpdateAction"
    ELSE "CreateAction"

\* The action of a command, and one entity for its sidecar and its logs.
BuildCommandAction(command) ==
    {Entity(command.action, {CommandActionType(command)},
        Finished(command.status = "completed") \cup Ref("agent", Actor("human"))
        \cup Ref("instrument", Software(command.tool))
        \cup Refs("object", FilesOf(command.inputs)) \cup Refs("result", FilesOf(command.outputs))),
     Entity(<<"log", command.command>>, {"File"}, Ref("about", command.action))}

\* _emit_command_file_entities: files of commands that no plan covers.  An input
\* outside the project is a web id and needs no entity.
UnplannedFiles(m, plans) ==
    (UNION {m.commands[k].outputs \cup (m.commands[k].inputs \ Outside) : k \in DOMAIN m.commands})
        \ DOMAIN plans

\* Files with an id an edit may refer to.
FileIds(m, plans) ==
    DOMAIN plans \cup UNION {m.commands[k].outputs \cup m.commands[k].inputs : k \in DOMAIN m.commands}

\* Mutant: every edit has its action.
EmittedEditsAll(m, plans) == DOMAIN m.edits

EmittedEdits(m, plans) == {i \in DOMAIN m.edits : m.edits[i].path \in FileIds(m, plans)}

\* Mutant: a deletion is one more change.
EditActionUpdate(edit) ==
    Entity(<<"file-action", edit.at>>, {IF edit.op = "created" THEN "CreateAction" ELSE "UpdateAction"},
        Finished(TRUE) \cup Ref("agent", Actor("claude-code")) \cup Ref("instrument", Software("editor"))
        \cup Ref("result", FileId(edit.path)))

EditAction(edit) ==
    Entity(<<"file-action", edit.at>>,
        {CASE edit.op = "created" -> "CreateAction" [] edit.op = "deleted" -> "DeleteAction"
           [] OTHER -> "UpdateAction"},
        Finished(TRUE) \cup Ref("agent", Actor("claude-code")) \cup Ref("instrument", Software("editor"))
        \cup Ref(IF edit.op = "deleted" THEN "object" ELSE "result", FileId(edit.path)))

\* Every family of build_agent_actions.
BuildAgentActions(m, plans) ==
    LET act(id, type, status, agent) == Entity(id, {type}, status \cup Ref("agent", Actor(agent)))
        edits == EmittedEdits(m, plans)
        tools == (IF edits = {} THEN {} ELSE {"editor"}) \cup {m.shells[i].tool : i \in DOMAIN m.shells}
    IN  {EditAction(m.edits[i]) : i \in edits}
        \cup {Entity(Software(t), {"SoftwareApplication"}, {}) : t \in tools}
        \cup {Entity(<<"raw-command", m.shells[i].at>>, {"CreateAction"},
                     Finished(TRUE) \cup Ref("agent", Actor("claude-code")) \cup Ref("object", Root)
                     \cup Ref("instrument", Software(m.shells[i].tool))) : i \in DOMAIN m.shells}
        \cup {act(<<"subagent", m.tasks[i].at>>, "Action", Finished(TRUE), "claude-code")
                  : i \in DOMAIN m.tasks}
        \cup {act(<<"result", i>>, "AssessAction", Finished(m.results[i]), "human")
                  : i \in DOMAIN m.results}
        \cup {act(<<"phase", i>>, "Action",
                  Status(IF m.phases[i].status = "completed" THEN "completed" ELSE "active"), "human")
                  : i \in DOMAIN m.phases}

\* The actions of the agent, each with its time.
TimedActions(m, plans) ==
    {<<m.commands[k].at, m.commands[k].action>> : k \in DOMAIN m.commands}
    \cup {<<m.edits[i].at, <<"file-action", m.edits[i].at>>>> : i \in EmittedEdits(m, plans)}
    \cup {<<m.shells[i].at, <<"raw-command", m.shells[i].at>>>> : i \in DOMAIN m.shells}
    \cup {<<m.tasks[i].at, <<"subagent", m.tasks[i].at>>>> : i \in DOMAIN m.tasks}

\* The steps of a synthesized workflow without declared steps are those actions.
Timeline(m, plans) ==
    IF m.workflow.synthetic /\ DOMAIN m.steps = {} THEN TimedActions(m, plans) ELSE {}

\* Mutant: the last action comes first.
PlaceBackwards(timed, timeline) == Cardinality({other \in timeline : other[1] >= timed[1]})

\* The place of an action among those sorted by time.
Place(timed, timeline) == Cardinality({other \in timeline : other[1] <= timed[1]})

BuildTimeline(timeline) ==
    UNION {{Entity(<<"wfstep", Place(a, timeline)>>, {"HowToStep"}, {}),
            Entity(<<"wfcontrol", Place(a, timeline)>>, {"ControlAction"},
                   Ref("instrument", <<"wfstep", Place(a, timeline)>>) \cup Ref("object", a[2]))}
           : a \in timeline}

\* _weave_synthetic_workflow_steps gives the workflow its steps.
Woven(m, timeline) ==
    IF timeline = {} THEN {}
    ELSE {Entity(WorkflowId(m), {"ComputationalWorkflow"},
                 Refs("step", {<<"wfstep", Place(a, timeline)>> : a \in timeline}))}

(***************************************************************************)
(* write_crate.                                                            *)
(***************************************************************************)
\* The profiles the root declares, with extra_conformsTo.
Conformance(profile) ==
    {<<"profile", p>> : p \in {profile} \cup
        IF WorkflowLike(profile) THEN {"process", "workflow-ro-crate"} ELSE {}}

Scaffold(profile) ==
    {Entity(<<"descriptor">>, {"CreativeWork"}, Ref("about", Root))}
    \cup {Entity(id, {"Profile"}, {}) : id \in Conformance(profile)}

\* An entity emitted again takes the types and the properties of the later one.
Updated(old, new) ==
    [new EXCEPT !.links = @ \cup {link \in old.links : \A l \in @ : l[1] # link[1]}]

\* _dedupe.
Merge(graph, group) ==
    LET emitted == [id \in {e.id : e \in group} |-> CHOOSE e \in group : e.id = id] IN
    [id \in DOMAIN graph \cup DOMAIN emitted |->
        IF id \notin DOMAIN emitted THEN graph[id]
        ELSE IF id \notin DOMAIN graph THEN emitted[id]
        ELSE Updated(graph[id], emitted[id])]

\* The packaged files: relative ids of type File.
LocalData(graph) ==
    {id \in DOMAIN graph :
        /\ "File" \in graph[id].types
        /\ (id[1] = "log" \/ (id[1] = "file" /\ id[2] \notin Outside \cup {AgentPath}))}

Mentions(m, plans, ids) ==
    {e.id : e \in (UNION {BuildCommandAction(m.commands[k]) : k \in DOMAIN m.commands})
                  \cup BuildWorkflowAction(m, ids)}
    \cup {e.id : e \in {a \in BuildAgentActions(m, plans) : a.types # {"SoftwareApplication"}}}
    \cup {FileId(p) : p \in {q \in DOMAIN plans : ~plans[q].included /\ plans[q].role = "input"}}

\* The root and what its sections list, and hasPart as
\* _ensure_data_entities_in_haspart leaves it.
RootEntity(m, profile, plans, ids, graph) ==
    Entity(Root, {"Dataset"},
        Refs("conformsTo", Conformance(profile))
        \cup (IF HasWorkflow(m) THEN Ref("mainEntity", WorkflowId(m)) ELSE {})
        \cup (IF HasWorkflow(m) /\ ~m.workflow.synthetic THEN Ref("hasPart", WorkflowId(m)) ELSE {})
        \cup Refs("hasPart", FilesOf({p \in DOMAIN plans : plans[p].included}))
        \cup Refs("hasPart", FilesOf((UNION {m.commands[k].outputs : k \in DOMAIN m.commands})
                                        \ DOMAIN plans))
        \cup Refs("hasPart", LocalData(graph))
        \cup Refs("mentions", Mentions(m, plans, ids))
        \cup (IF m.aborted THEN {<<"run-status", <<"aborted">>>>} ELSE {}))

\* What is emitted, in its order.
Sections(m, profile, plans, ids) ==
    LET formals == FormalParameters(m, profile)
        timeline == Timeline(m, plans)
    IN  <<Scaffold(profile), Actors(m) \cup Tools(m), Formals(formals),
            PlannedFiles(plans, formals), BuildWorkflow(m, formals), BuildWorkflowAction(m, ids),
            BuildSteps(m, ids),
            UNION {BuildCommandAction(m.commands[k]) : k \in DOMAIN m.commands},
            {Entity(FileId(p), {"File"}, {}) : p \in UnplannedFiles(m, plans)},
            BuildAgentActions(m, plans), BuildTimeline(timeline), Woven(m, timeline)>>

\* The sections one after the other.
Assembled(sections) ==
    LET graph[n \in 0 .. Len(sections)] ==
            IF n = 0 THEN <<>> ELSE Merge(graph[n - 1], sections[n])
    IN  graph[Len(sections)]

Graph(m, profile, plans, ids) ==
    LET graph == Assembled(Sections(m, profile, plans, ids))
    IN  Merge(graph, {RootEntity(m, profile, plans, ids, graph)})

(***************************************************************************)
(* id-map.json.                                                            *)
(***************************************************************************)
\* The keys a build asks for.
Keys(m) ==
    {<<"step", s>> : s \in DOMAIN m.steps}
    \cup {<<"control", m.commands[FirstCommand(m, s)].command>> : s \in Controlled(m)}
    \cup {key \in {<<"workflow-action">>} : Executes(m)}

\* Mutant: what the map already holds is not looked up.
AllocateAnew(ids, keys) ==
    LET fresh == SetToSeq(keys)
        place(key) == CHOOSE i \in DOMAIN fresh : fresh[i] = key
    IN  [key \in DOMAIN ids \cup keys |->
            IF key \notin keys THEN ids[key]
            ELSE IF key[1] = "step" THEN key ELSE Uuid(minted + place(key))]

\* IdMap.entity_for_event and entity_for_step: the keys the map lacks get an id.
Allocate(ids, keys) ==
    LET fresh == SetToSeq(keys \ DOMAIN ids)
        place(key) == CHOOSE i \in DOMAIN fresh : fresh[i] = key
    IN  [key \in DOMAIN ids \cup keys |->
            IF key \in DOMAIN ids THEN ids[key]
            ELSE IF key[1] = "step" THEN key ELSE Uuid(minted + place(key))]

-----------------------------------------------------------------------------
(* Actions. *)

Idle == [open |-> FALSE, through |-> 0, ids |-> <<>>, built |-> BuildModel(<<>>, 0, "auto", {})]
NoRunner == [command |-> 0, ids |-> <<>>]
NoCrate == [through |-> 0, profile |-> "process", graph |-> <<>>]

\* declare_io with classify_existence.
Declaration(d, existing) ==
    [type |-> IF d.kind = "input" THEN "workflow.input.declared" ELSE "workflow.output.declared",
     path |-> d.path, role |-> d.role, copy |-> d.copy,
     existence |-> IF d.path \in existing THEN "local" ELSE "absent"]

Init ==
    /\ \E calls \in Prologues : journal = [i \in DOMAIN calls |-> Declaration(calls[i], Initially)]
    /\ disk = Initially
    /\ idMap = <<>>
    /\ minted = 0
    /\ runner = NoRunner
    /\ requested \in Requests
    /\ builder = Idle
    /\ copied = {}
    /\ crate = NoCrate

\* The bound leaves room for the started event of the rcr run under way.
Record(event) ==
    /\ Len(journal) + (IF runner = NoRunner THEN 0 ELSE 1) < MaxEvents
    /\ journal' = Append(journal, event)
RecordOnly(event) ==
    Record(event) /\ UNCHANGED <<disk, idMap, minted, runner, requested, builder, copied, crate>>

Declare(d) == RecordOnly(Declaration(d, disk))
PhaseStart(name) == RecordOnly([type |-> "workflow.phase.started", name |-> name])
PhaseComplete(name) == RecordOnly([type |-> "workflow.phase.completed", name |-> name])
StepStart(step) == RecordOnly([type |-> "workflow.step.started", step |-> step])
StepEnd(step, status) ==
    RecordOnly([type |-> "workflow.step.terminal", step |-> step, status |-> status])

\* rcr run names its command after the next sequence number and loads the id map ...
CommandLoad ==
    /\ runner = NoRunner
    /\ Len(journal) < MaxEvents
    /\ runner' = [command |-> Len(journal) + 1, ids |-> idMap]
    /\ UNCHANGED <<journal, disk, idMap, minted, requested, builder, copied, crate>>

\* ... saves it with the uuid of the command's action, and appends the started
\* event.  The inputs a command names are there: one that is not is a missing file,
\* as it should be.
CommandStart(line, step) ==
    LET ids == Allocate(runner.ids, {<<"action", runner.command>>})
    IN  /\ runner # NoRunner
        /\ line.inputs \subseteq disk \cup Outside
        /\ journal' = Append(journal,
              [type |-> "execution.command.started", command |-> runner.command,
               action |-> ids[<<"action", runner.command>>], tool |-> line.tool, step |-> step,
               inputs |-> line.inputs, outputs |-> line.outputs])
        /\ idMap' = ids
        /\ minted' = minted + 1
        /\ runner' = NoRunner
        /\ UNCHANGED <<disk, requested, builder, copied, crate>>

Started == {i \in DOMAIN journal : journal[i].type = "execution.command.started"}
TerminalsOf(command, log) ==
    {i \in DOMAIN log : log[i].type = "execution.command.terminal" /\ log[i].command = command}

Terminal(command, status) ==
    [type |-> "execution.command.terminal", command |-> command, status |-> status]

\* The command ends, even after recovery gave it up.  A command that succeeds has
\* done what its tool does; one that fails may have done part of it.
CommandEnd(i, status, done) ==
    LET line == journal[i]
        touched == IF line.tool \in DeleteTools THEN line.inputs \cup line.outputs ELSE line.outputs
    IN  /\ \A j \in TerminalsOf(line.command, journal) : journal[j].status = "blocked"
        /\ done \subseteq touched
        /\ status = "completed" => done = touched
        /\ Record(Terminal(line.command, status))
        /\ disk' = IF line.tool \in DeleteTools THEN disk \ done ELSE disk \cup done
        /\ UNCHANGED <<idMap, minted, runner, requested, builder, copied, crate>>

\* Recovery gives up on a command without a terminal event.
CommandBlocked(i) ==
    /\ TerminalsOf(journal[i].command, journal) = {}
    /\ RecordOnly(Terminal(journal[i].command, "blocked"))

\* A file tool of the agent, and its hook's event.
Edit(edit) ==
    /\ edit.op = "created" \/ edit.path \in disk
    /\ Record([type |-> "file", path |-> edit.path, op |-> edit.op])
    /\ disk' = IF edit.op = "deleted" THEN disk \ {edit.path} ELSE disk \cup {edit.path}
    /\ UNCHANGED <<idMap, minted, runner, requested, builder, copied, crate>>

ToolCompleted(tool) == RecordOnly([type |-> "tool.completed", tool |-> tool])
Subagent(task) == RecordOnly([type |-> "agent.task", task |-> task])
RecordResult(accepted) == RecordOnly([type |-> "human.result", accepted |-> accepted])
Abort == RecordOnly([type |-> "run.aborted"])

\* A checkpoint fixes what it reads: the profile asked for, the journal up to its
\* high-water mark, the definition's steps and the id map.
Open(request) ==
    /\ ~builder.open
    /\ requested' = IF request = "auto" THEN requested ELSE request
    /\ builder' = [open |-> TRUE, through |-> Len(journal), ids |-> idMap,
                   built |-> BuildModel(journal, Len(journal), requested', disk)]
    /\ UNCHANGED <<journal, disk, idMap, minted, runner, copied, crate>>

\* The crate is written.  The id map is saved if the build added to it.
Write ==
    LET m == builder.built.model
        profile == builder.built.profile
        plans == PlanFileInclusion(m)
        ids == Allocate(builder.ids, Keys(m))
    IN  /\ builder.open
        /\ idMap' = IF ids = builder.ids THEN idMap ELSE ids
        /\ minted' = minted + Cardinality(Keys(m) \ DOMAIN builder.ids)
        /\ copied' = copied \cup {p \in DOMAIN plans : plans[p].copy}
        /\ crate' = [through |-> builder.through, profile |-> profile,
                     graph |-> Graph(m, profile, plans, ids)]
        /\ builder' = Idle
        /\ UNCHANGED <<journal, disk, runner, requested>>

Next ==
    \/ \E d \in Declarations : Declare(d)
    \/ \E name \in Names.phases : PhaseStart(name) \/ PhaseComplete(name)
    \/ \E step \in Names.steps : StepStart(step) \/ \E status \in StepTerminals : StepEnd(step, status)
    \/ CommandLoad
    \/ \E line \in CommandLines, step \in Names.steps \cup {NoStep} : CommandStart(line, step)
    \/ \E i \in Started : \/ CommandBlocked(i)
                         \/ \E status \in {"completed", "failed"}, done \in SUBSET Paths :
                                CommandEnd(i, status, done)
    \/ \E edit \in Edits : Edit(edit)
    \/ \E tool \in Names.tools : ToolCompleted(tool)
    \/ \E task \in Names.tasks : Subagent(task)
    \/ \E accepted \in Names.results : RecordResult(accepted)
    \/ Names.abort /\ Abort
    \/ \E request \in Requests : Open(request)
    \/ Write

Spec == Init /\ [][Next]_vars

-----------------------------------------------------------------------------
(* Properties. *)

Graphed == DOMAIN crate.graph
Links(id) == IF id \in Graphed THEN crate.graph[id].links ELSE {}
Targets(id, property) == {link[2] : link \in {l \in Links(id) : l[1] = property}}
OfType(type) == {id \in Graphed : type \in crate.graph[id].types}
Valued == {"actionStatus", "error", "existence", "run-status"}

\* The events the crate was built from.
Seen == 1 .. crate.through
Declared(i) == journal[i].type \in {"workflow.input.declared", "workflow.output.declared"}
DeclaredPaths == {journal[i].path : i \in {j \in Seen : Declared(j)}}

\* Every reference of the crate leads to one of its entities (what the comments of
\* build_workflow, build_steps and build_file_actions promise), whatever was
\* declared, edited and run.  Web ids need no entity; a declared path that an
\* ignore pattern drops keeps its reference.
RefsResolve ==
    \A id \in Graphed : \A link \in crate.graph[id].links :
        link[1] \in Valued \/ link[2] \in Graphed \cup FilesOf(Outside \cup (Ignored \cap DeclaredPaths))

Completed(command) ==
    LET terminals == TerminalsOf(command, SubSeq(journal, 1, crate.through)) IN
    \E i \in terminals : journal[i].status = "completed" /\ \A j \in terminals : j <= i

\* Every command the crate was built from has its action, completed exactly if the
\* last the journal says of it is that it completed, and with an error otherwise,
\* though recovery may have given it up in between.
CommandsRepresented ==
    \A i \in Started \cap Seen :
        LET action == journal[i].action
            completed == Completed(journal[i].command)
        IN  /\ action \in Graphed
            /\ Targets(action, "actionStatus") =
                   {<<"status", IF completed THEN "completed" ELSE "failed">>}
            /\ (Targets(action, "error") = {}) = completed

\* The entity of a recorded action, as a set of at most one.
Performed(i) ==
    CASE journal[i].type = "execution.command.started" -> {journal[i].action}
      [] journal[i].type = "file" -> {<<"file-action", i>>} \cap Graphed
      [] journal[i].type = "tool.completed" -> {<<"raw-command", i>>}
      [] journal[i].type = "agent.task"
           /\ \A j \in 1 .. i - 1 : journal[j].type = "agent.task" => journal[j].task # journal[i].task
           -> {<<"subagent", i>>}
      [] OTHER -> {}

\* A synthesized workflow without declared steps has the agent's actions as its
\* steps: each once, in the order of the journal.
TimelineFollowsJournal ==
    LET steps == {id \in Graphed : id[1] = "wfstep"}
        place(i) == {k \in {id[2] : id \in steps} :
                        Performed(i) \cap Targets(<<"wfcontrol", k>>, "object") # {}}
        performed == {i \in Seen : Performed(i) # {}}
    IN  /\ Targets(Root, "mainEntity") = {FileId(AgentPath)} /\ OfType("HowTo") = {}
               => Cardinality(steps) = Cardinality(performed)
        /\ steps # {} => \A i \in performed : /\ Cardinality(place(i)) = 1
                            /\ \A j \in performed : i < j => \A a \in place(i), b \in place(j) : a < b

\* The workflow definitions the crate knows of.
Defines(i) ==
    /\ journal[i].type = "workflow.input.declared"
    /\ journal[i].role = "workflow-definition" \/ journal[i].path \in Definitions

\* SPEC 15.9: "The root `mainEntity` points to the main `ComputationalWorkflow`."
\* A definition at an ignored path that a command names is emitted again, as a File.
MainIsWorkflow ==
    crate.graph # <<>> /\ WorkflowLike(crate.profile) =>
        Targets(Root, "mainEntity") \cap OfType("ComputationalWorkflow") # {}

\* The checks of validation/profiles.py for the profile the crate was built for, with
\* the definition declared last as the workflow, which synthesis never overwrites
\* (SPEC 16.5).  A provenance crate whose steps are not declared, or have no command,
\* fails them.
StepsRun == \E i \in Started \cap Seen, j \in Seen :
    journal[j].type = "workflow.step.started" /\ journal[j].step = journal[i].step

ConformsToProfile ==
    crate.graph # <<>> =>
    /\ <<"profile", crate.profile>> \in Targets(Root, "conformsTo")
    /\ \A id \in OfType("CreateAction") \cup OfType("UpdateAction") : Targets(id, "instrument") # {}
    /\ \A id \in Graphed \ OfType("ControlAction") :
           <<"status", "failed">> \in Targets(id, "actionStatus") => Targets(id, "error") # {}
    /\ Targets(Root, "mainEntity") \cap FilesOf(Ignored \ Outside) = {} => MainIsWorkflow
    /\ \A i \in Seen : Defines(i) /\ (\A j \in Seen : Defines(j) => j <= i)
           => Targets(Root, "mainEntity") = {FileId(journal[i].path)}
    /\ crate.profile = "provenance" /\ StepsRun =>
           /\ OfType("HowToStep") # {} /\ OfType("ControlAction") # {}
           /\ \A id \in OfType("HowToStep") : Targets(id, "workExample") # {}
           /\ \A id \in OfType("ComputationalWorkflow") : Targets(id, "hasPart") # {}

\* mapping/workflow.py says that workExample must be set on every step of a
\* provenance crate.
StepsNameTheirTool ==
    crate.profile = "provenance" => \A id \in OfType("HowToStep") : Targets(id, "workExample") # {}

\* A sensitive file, or one outside the project, is never copied into the crate,
\* however it was declared, produced or edited.
SensitiveNeverCopied == copied \cap (Sensitive \cup Outside) = {}

Writes == builder.open /\ ~builder'.open

\* What rocrate.py lets be absent: deleted by a recorded action, or declared so.
Excused ==
    (UNION {Targets(id, "object") \cup Targets(id, "result") : id \in OfType("DeleteAction")})
    \cup {FileId(journal[i].path) : i \in {j \in DOMAIN journal : Declared(j) /\ journal[j].existence = "absent"}}
    \cup {id \in Graphed : <<"absent">> \in Targets(id, "existence")}

\* Outputs of commands that have not completed, and files events after the mark
\* may have removed.
Unfinished == UNION {journal[i].outputs : i \in {j \in Started \cap Seen :
    \A k \in TerminalsOf(journal[j].command, journal) : journal[k].status # "completed"}}
RemovedSince == UNION {
    CASE journal[i].type = "file" -> {journal[i].path}
      [] journal[i].type = "execution.command.started" /\ journal[i].tool \in DeleteTools ->
             journal[i].inputs \cup journal[i].outputs
      [] OTHER -> {} : i \in crate.through + 1 .. Len(journal)}

FilesPresent ==
    \A id \in LocalData(crate.graph) :
        id[1] = "log" \/ id[2] \in disk \cup copied \cup Unfinished \cup RemovedSince \/ id \in Excused

\* The crate a checkpoint writes refers to no file that is missing (the check
\* referenced_file_missing), whatever was deleted since it was declared or
\* produced, except the outputs of commands that did not complete and files
\* removed while the checkpoint ran.
ReferencesPresentFiles == [][Writes => FilesPresent']_vars

\* What commands produced is in the crate after a checkpoint, though the user
\* declared it by reference (the default of rcr output).
Captured ==
    \A i \in Started \cap Seen : \A p \in journal[i].outputs :
        p \in disk \ (Outside \cup Ignored \cup Sensitive) => p \in copied
ProducedIsCaptured == [][Writes /\ Policy.outputs /\ Policy.copies => Captured']_vars

Acts(graph) == {id \in DOMAIN graph : id[1] \in
    {"uuid", "file-action", "raw-command", "subagent", "phase", "result"}}
RunActions(graph) == {id \in Acts(graph) :
    \E link \in graph[id].links : link[1] = "instrument" /\ link[2][1] = "file"}

\* Uuids a build cannot know: neither the journal nor the id map it read has them.
Forgotten(id) ==
    id[1] = "uuid" /\ id \notin Range(builder.ids) \cup {journal[i].action : i \in Started}

\* What one checkpoint recorded under an id the next one records under the same
\* id: rebuilding forgets and renames nothing.  The workflow's action goes with the
\* workflow, and uuids are minted anew that the id map has lost to an rcr run, which
\* saves the map it had loaded before.
CrateGrows ==
    [][Writes => \A id \in Acts(crate.graph) \ DOMAIN crate'.graph :
            Forgotten(id) \/ (id \in RunActions(crate.graph) /\ RunActions(crate'.graph) = {})]_vars
=============================================================================
