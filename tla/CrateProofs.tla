----------------------------- MODULE CrateProofs -----------------------------
(***************************************************************************)
(* Proofs about module Crate: which files a crate copies, where its        *)
(* references lead and how it represents the commands of the journal, for  *)
(* runs of any length over any paths, tools and names.                     *)
(***************************************************************************)
EXTENDS RunModelProofs

-----------------------------------------------------------------------------
(* File inclusion.                                                          *)

\* The synthesized workflow is planned as if its path were a file's.
Plannable == Paths \cup {AgentPath}

Roles == {"input", "output", "source"}
Existences == {"", "local", "absent"}

\* What can be planned for a path: sensitivity is a matter of the path, and
\* nothing sensitive or outside the project is copied.
Plans ==
    {plan \in [path : Plannable, role : Roles, existence : Existences, user : Flags,
               sensitive : Flags, included : Flags, copy : Flags] :
        /\ plan.sensitive = (plan.path \in Sensitive \ Outside)
        /\ plan.copy => plan.path \notin Sensitive \cup Outside}

PlanMaps == {plans \in UNION {[P -> Plans] : P \in SUBSET Plannable} :
                \A p \in DOMAIN plans : plans[p].path = p}

\* The plan made for a path is one for that path.
LEMMA PlanTyped ==
    ASSUME NEW path \in Plannable, NEW role \in Roles, NEW copy, NEW existence \in Existences, NEW user \in Flags
    PROVE  /\ PlanForPath(path, role, copy, existence, user) \in Plans
           /\ PlanForPath(path, role, copy, existence, user).path = path
<1> DEFINE captured == path \notin Outside \cup Sensitive
           included == captured /\ IncludedForRole(role)
           copies == captured /\ ClassifyCopy(path, copy, included)
<1>1. Policy.inputs \in BOOLEAN /\ Policy.outputs \in BOOLEAN /\ Policy.source \in BOOLEAN
  BY ConstantsAssumption
<1>2. IncludedForRole(role) \in BOOLEAN
  BY <1>1 DEF IncludedForRole
<1>3. included \in Flags /\ copies \in Flags /\ (path \in Sensitive \ Outside) \in Flags
  BY <1>2 DEF Flags
<1>4. copies => path \notin Sensitive \cup Outside
  OBVIOUS
<1> HIDE DEF included, copies
<1>5. PlanForPath(path, role, copy, existence, user) =
        [path |-> path, role |-> role, existence |-> existence, user |-> user,
         sensitive |-> path \in Sensitive \ Outside, included |-> included, copy |-> copies]
  BY DEF PlanForPath, included, copies
<1> QED
  BY <1>3, <1>4, <1>5 DEF Plans

\* Two plans for a path merge into one that captures what either does.
LEMMA MergePlanTyped ==
    ASSUME NEW old \in Plans, NEW new \in Plans, old.path = new.path
    PROVE  /\ MergePlan(old, new) \in Plans
           /\ MergePlan(old, new).path = new.path
           /\ MergePlan(old, new).copy = (old.copy \/ new.copy)
           /\ MergePlan(old, new).included = (old.included \/ new.included)
<1> DEFINE user == IF old.user /\ ~new.user THEN old ELSE new
           other == IF old.user /\ ~new.user THEN new ELSE old
           existence == IF user.existence = "" THEN other.existence ELSE user.existence
           merged == [path |-> new.path, role |-> user.role, existence |-> existence,
                      user |-> old.user \/ new.user, sensitive |-> old.sensitive \/ new.sensitive,
                      included |-> old.included \/ new.included,
                      copy |-> (old.copy \/ new.copy) /\ ~(old.sensitive \/ new.sensitive)]
<1>1. MergePlan(old, new) = merged
  BY DEF MergePlan
<1>2. user \in Plans /\ other \in Plans
  OBVIOUS
<1>3. \A plan \in Plans : plan.role \in Roles /\ plan.existence \in Existences
  BY DEF Plans
<1>4. user.role \in Roles /\ existence \in Existences
  BY <1>2, <1>3
<1> HIDE DEF user, existence
<1>5. /\ old.user \in BOOLEAN /\ new.user \in BOOLEAN /\ old.sensitive \in BOOLEAN
      /\ new.sensitive \in BOOLEAN /\ old.included \in BOOLEAN /\ new.included \in BOOLEAN
      /\ old.copy \in BOOLEAN /\ new.copy \in BOOLEAN
  BY DEF Plans, Flags
<1>6. /\ old.sensitive = (new.path \in Sensitive \ Outside)
      /\ new.sensitive = (new.path \in Sensitive \ Outside)
      /\ old.copy => new.path \notin Sensitive \cup Outside
      /\ new.copy => new.path \notin Sensitive \cup Outside
      /\ new.path \in Plannable
  BY DEF Plans
<1>7. merged.copy = (old.copy \/ new.copy)
  BY <1>5, <1>6
<1>8. merged.sensitive = (new.path \in Sensitive \ Outside)
  BY <1>5, <1>6
<1>9. merged \in [path : Plannable, role : Roles, existence : Existences, user : Flags,
                  sensitive : Flags, included : Flags, copy : Flags]
  BY <1>4, <1>5, <1>6 DEF Flags
<1>10. merged.copy => new.path \notin Sensitive \cup Outside
  BY <1>6, <1>7
<1>11. merged.path = new.path
  OBVIOUS
<1>12. merged.included = (old.included \/ new.included)
  OBVIOUS
<1> HIDE DEF merged
<1>13. merged \in Plans
  BY <1>8, <1>9, <1>10, <1>11 DEF Plans
<1> QED
  BY <1>1, <1>7, <1>11, <1>12, <1>13

\* The plans of one group are for different paths.
PlanGroups == {group \in SUBSET Plans : \A a \in group, b \in group : a.path = b.path => a = b}

PathsOf(group) == {plan.path : plan \in group}

\* Considering a group adds its paths, but the ignored ones, and loses nothing captured.
LEMMA ConsiderTyped ==
    ASSUME NEW plans \in PlanMaps, NEW group \in PlanGroups
    PROVE  LET next == Consider(plans, group)
           IN  /\ next \in PlanMaps
               /\ DOMAIN next = DOMAIN plans \cup (PathsOf(group) \ (Ignored \ Outside))
               /\ \A p \in DOMAIN plans : plans[p].copy => next[p].copy
               /\ \A p \in DOMAIN plans : plans[p].included => next[p].included
               /\ \A plan \in group : plan.path \notin Ignored \ Outside =>
                      /\ plan.copy => next[plan.path].copy
                      /\ plan.included => next[plan.path].included
<1> DEFINE found == {new \in group : new.path \notin Ignored \ Outside}
           new(path) == CHOOSE plan \in found : plan.path = path
           paths == {plan.path : plan \in found}
           value(path) == IF path \notin paths THEN plans[path]
                          ELSE IF path \notin DOMAIN plans THEN new(path)
                          ELSE MergePlan(plans[path], new(path))
           next == [path \in DOMAIN plans \cup paths |-> value(path)]
<1>1. Consider(plans, group) = next
  BY DEF Consider
<1>2. \A plan \in found : new(plan.path) = plan
  BY DEF PlanGroups
<1>3. found \subseteq Plans
  BY DEF PlanGroups
<1>4. paths = PathsOf(group) \ (Ignored \ Outside)
  BY DEF PathsOf
<1>5. \A p \in DOMAIN plans : plans[p] \in Plans /\ plans[p].path = p
  BY DEF PlanMaps
<1>6. \A path \in paths : new(path) \in Plans /\ new(path).path = path
  BY <1>2, <1>3
<1> HIDE DEF new
<1>7. ASSUME NEW path \in DOMAIN plans \cup paths
      PROVE  /\ value(path) \in Plans /\ value(path).path = path
             /\ path \in DOMAIN plans /\ plans[path].copy => value(path).copy
             /\ path \in DOMAIN plans /\ plans[path].included => value(path).included
             /\ path \in paths /\ new(path).copy => value(path).copy
             /\ path \in paths /\ new(path).included => value(path).included
  <2>1. CASE path \notin paths
    BY <2>1, <1>5
  <2>2. CASE path \in paths /\ path \notin DOMAIN plans
    BY <2>2, <1>6
  <2>3. CASE path \in paths /\ path \in DOMAIN plans
    <3>1. value(path) = MergePlan(plans[path], new(path))
      BY <2>3
    <3>2. plans[path] \in Plans /\ plans[path].path = path /\ new(path) \in Plans /\ new(path).path = path
      BY <2>3, <1>5, <1>6
    <3> DEFINE a == plans[path]
               b == new(path)
    <3>3. a \in Plans /\ b \in Plans /\ a.path = b.path
      BY <3>2
    <3> HIDE DEF a, b
    <3>4. /\ MergePlan(a, b) \in Plans /\ MergePlan(a, b).path = b.path
          /\ MergePlan(a, b).copy = (a.copy \/ b.copy)
          /\ MergePlan(a, b).included = (a.included \/ b.included)
      BY <3>3, MergePlanTyped
    <3>5. value(path) = MergePlan(a, b) /\ b.path = path
      BY <3>1, <3>2 DEF a, b
    <3> HIDE DEF value, paths
    <3> QED
      BY <2>3, <3>4, <3>5 DEF a, b
  <2> QED
    BY <2>1, <2>2, <2>3
<1> HIDE DEF value
<1>8. DOMAIN next = DOMAIN plans \cup paths /\ \A p \in DOMAIN plans \cup paths : next[p] = value(p)
  OBVIOUS
<1>9. DOMAIN plans \cup paths \in SUBSET Plannable
  <2>1. DOMAIN plans \in SUBSET Plannable
    BY DEF PlanMaps
  <2>2. \A plan \in found : plan.path \in Plannable
    BY <1>3 DEF Plans
  <2> QED
    BY <2>1, <2>2
<1>10. next \in [DOMAIN plans \cup paths -> Plans]
  BY <1>7
<1> HIDE DEF next
<1>11. next \in PlanMaps
  BY <1>7, <1>8, <1>9, <1>10 DEF PlanMaps
<1>12. \A plan \in group : plan.path \notin Ignored \ Outside => plan \in found /\ plan.path \in paths
  OBVIOUS
<1> QED
  BY <1>1, <1>2, <1>4, <1>7, <1>8, <1>11, <1>12

\* The ranges of sequences that are joined.
LEMMA JoinedRange ==
    ASSUME NEW S, NEW s \in Seq(S), NEW t \in Seq(S)
    PROVE  s \o t \in Seq(S) /\ Range(s \o t) = Range(s) \cup Range(t)
<1>1. s \o t \in Seq(S) /\ Len(s \o t) = Len(s) + Len(t)
  OBVIOUS
<1>2. ASSUME NEW i \in DOMAIN (s \o t) PROVE (s \o t)[i] \in Range(s) \cup Range(t)
  <2>1. CASE i <= Len(s)
    BY <2>1 DEF Range
  <2>2. CASE i > Len(s)
    <3>1. i - Len(s) \in DOMAIN t /\ (s \o t)[i] = t[i - Len(s)]
      BY <1>1, <2>2
    <3> QED
      BY <3>1 DEF Range
  <2> QED
    BY <2>1, <2>2, <1>1
<1>3. ASSUME NEW i \in DOMAIN s PROVE s[i] \in Range(s \o t)
  <2>1. i \in DOMAIN (s \o t) /\ (s \o t)[i] = s[i]
    BY <1>1
  <2> QED
    BY <2>1 DEF Range
<1>4. ASSUME NEW i \in DOMAIN t PROVE t[i] \in Range(s \o t)
  <2>1. i + Len(s) \in DOMAIN (s \o t) /\ (s \o t)[i + Len(s)] = t[i]
    BY <1>1
  <2> QED
    BY <2>1 DEF Range
<1>5. Range(s \o t) \subseteq Range(s) \cup Range(t)
  BY <1>2 DEF Range
<1>6. Range(s) \subseteq Range(s \o t) /\ Range(t) \subseteq Range(s \o t)
  BY <1>3, <1>4 DEF Range
<1> QED
  BY <1>1, <1>5, <1>6

\* The paths a model speaks of.
OutputsOf(m) == UNION {m.commands[k].outputs : k \in DOMAIN m.commands}
ConsideredPaths(m) ==
    {m.inputs[i].path : i \in DOMAIN m.inputs} \cup {m.outputs[i].path : i \in DOMAIN m.outputs}
    \cup OutputsOf(m) \cup {m.edits[i].path : i \in DOMAIN m.edits}
    \cup {p \in {m.workflow.path} : HasWorkflow(m)}

\* Its workflow, if it has one, can be planned.
LEMMA WorkflowPath ==
    ASSUME NEW m \in Models, HasWorkflow(m) PROVE m.workflow.path \in Plannable
<1>1. m.workflow \in Workflows /\ m.workflow # NoWorkflow
  BY ModelFields DEF HasWorkflow
<1>2. AgentActions.path = AgentPath /\ \A p \in Paths : Definition(p).path = p
  BY DEF AgentActions, Definition
<1> QED
  BY <1>1, <1>2 DEF Workflows, Plannable

\* The plans inferred for a set of paths: one for each.
Inferred(paths, role) == {PlanForPath(p, role, "default", "", FALSE) : p \in paths}

\* They are a group.
LEMMA InferredGroup ==
    ASSUME NEW paths \in SUBSET Plannable, NEW role \in Roles
    PROVE  /\ Inferred(paths, role) \in PlanGroups
           /\ PathsOf(Inferred(paths, role)) = paths
<1>1. ASSUME NEW p \in paths
      PROVE  /\ PlanForPath(p, role, "default", "", FALSE) \in Plans
             /\ PlanForPath(p, role, "default", "", FALSE).path = p
  <2>1. FALSE \in Flags /\ "" \in Existences /\ p \in Plannable
    BY DEF Flags, Existences
  <2> QED
    BY <2>1, PlanTyped
<1> QED
  BY <1>1 DEF Inferred, PlanGroups, PathsOf

\* A function on the first numbers is a sequence.
LEMMA Mapped ==
    ASSUME NEW S, NEW n \in Nat, NEW f, f = [i \in 1 .. n |-> f[i]], \A i \in 1 .. n : f[i] \in S
    PROVE  f \in Seq(S) /\ Range(f) = {f[i] : i \in 1 .. n}
<1>1. f \in [1 .. n -> S] /\ DOMAIN f = 1 .. n
  OBVIOUS
<1>2. f \in Seq(S)
  BY <1>1, SeqDef
<1> QED
  BY <1>1, <1>2 DEF Range

\* A single plan is a group.
LEMMA SingleGroup ==
    ASSUME NEW plan \in Plans PROVE {plan} \in PlanGroups /\ PathsOf({plan}) = {plan.path}
BY DEF PlanGroups, PathsOf

\* The groups a model gives.
LEMMA ConsideredGroups ==
    ASSUME NEW m \in Models
    PROVE  /\ Considered(m) \in Seq(PlanGroups)
           /\ UNION {PathsOf(group) : group \in Range(Considered(m))} = ConsideredPaths(m)
           /\ \A k \in DOMAIN m.commands : Inferred(m.commands[k].outputs, "output") \in Range(Considered(m))
<1> DEFINE declared(items, role) ==
             [i \in DOMAIN items |-> {PlanForPath(items[i].path, role, items[i].copy, items[i].existence, TRUE)}]
           inputs == declared(m.inputs, "input")
           outputs == declared(m.outputs, "output")
           produced == [k \in DOMAIN m.commands |-> Inferred(m.commands[k].outputs, "output")]
           edited == [i \in DOMAIN m.edits |-> Inferred({m.edits[i].path}, "output")]
           workflow == IF HasWorkflow(m) THEN <<Inferred({m.workflow.path}, "source")>> ELSE <<>>
<1>1. Considered(m) = inputs \o outputs \o produced \o edited \o workflow
  BY DEF Considered, Inferred
<1>2. ASSUME NEW items \in Seq(DeclarationEvents), NEW role \in Roles
      PROVE  /\ declared(items, role) \in Seq(PlanGroups)
             /\ UNION {PathsOf(group) : group \in Range(declared(items, role))}
                  = {items[i].path : i \in DOMAIN items}
  <2>1. ASSUME NEW i \in DOMAIN items
        PROVE  /\ declared(items, role)[i] \in PlanGroups
               /\ PathsOf(declared(items, role)[i]) = {items[i].path}
    <3>1. items[i] \in DeclarationEvents
      OBVIOUS
    <3>2. items[i].path \in Paths /\ items[i].existence \in {"local", "absent"}
      BY <3>1 DEF DeclarationEvents
    <3>3. items[i].path \in Plannable /\ items[i].existence \in Existences /\ TRUE \in Flags
      BY <3>2 DEF Plannable, Flags, Existences
    <3> DEFINE plan == PlanForPath(items[i].path, role, items[i].copy, items[i].existence, TRUE)
    <3>4. plan \in Plans /\ plan.path = items[i].path
      BY <3>3, PlanTyped
    <3>5. declared(items, role)[i] = {plan}
      OBVIOUS
    <3> HIDE DEF plan, declared
    <3>6. {plan} \in PlanGroups /\ PathsOf({plan}) = {plan.path}
      BY <3>4, SingleGroup
    <3> QED
      BY <3>4, <3>5, <3>6
  <2> DEFINE groups == declared(items, role)
             n == Len(items)
  <2>2. n \in Nat /\ DOMAIN items = 1 .. n
    OBVIOUS
  <2>3. groups = [i \in 1 .. n |-> groups[i]]
    BY <2>2
  <2>4. \A i \in 1 .. n : groups[i] \in PlanGroups /\ PathsOf(groups[i]) = {items[i].path}
    BY <2>1, <2>2
  <2> HIDE DEF groups, n
  <2>7. \A i \in 1 .. n : groups[i] \in PlanGroups
    BY <2>4
  <2>5. groups \in Seq(PlanGroups) /\ Range(groups) = {groups[i] : i \in 1 .. n}
    BY <2>2, <2>3, <2>7, Mapped
  <2>6. UNION {PathsOf(group) : group \in Range(groups)} = {items[i].path : i \in 1 .. n}
    <3>1. UNION {PathsOf(group) : group \in Range(groups)} = UNION {PathsOf(groups[i]) : i \in 1 .. n}
      BY <2>5
    <3>2. UNION {PathsOf(groups[i]) : i \in 1 .. n} = UNION {{items[i].path} : i \in 1 .. n}
      BY <2>4
    <3> QED
      BY <3>1, <3>2
  <2> QED
    BY <2>2, <2>5, <2>6 DEF groups
<1>3. /\ m.inputs \in Seq(DeclarationEvents) /\ m.outputs \in Seq(DeclarationEvents)
      /\ m.commands \in Seq(Commands) /\ m.edits \in Seq(FileActions)
  BY ModelFields
<1>4. /\ inputs \in Seq(PlanGroups) /\ outputs \in Seq(PlanGroups)
      /\ UNION {PathsOf(group) : group \in Range(inputs)} = {m.inputs[i].path : i \in DOMAIN m.inputs}
      /\ UNION {PathsOf(group) : group \in Range(outputs)} = {m.outputs[i].path : i \in DOMAIN m.outputs}
  <2> HIDE DEF declared
  <2>1. "input" \in Roles /\ "output" \in Roles
    BY DEF Roles
  <2> QED
    BY <1>2, <1>3, <2>1
<1>5. /\ produced \in Seq(PlanGroups)
      /\ UNION {PathsOf(group) : group \in Range(produced)} = OutputsOf(m)
      /\ Range(produced) = {Inferred(m.commands[k].outputs, "output") : k \in DOMAIN m.commands}
  <2> DEFINE n == Len(m.commands)
  <2>1. n \in Nat /\ DOMAIN m.commands = 1 .. n
    BY <1>3
  <2>2. ASSUME NEW i \in 1 .. n
        PROVE  produced[i] \in PlanGroups /\ PathsOf(produced[i]) = m.commands[i].outputs
    <3>1. m.commands[i] \in Commands
      BY <1>3, <2>1
    <3>2. m.commands[i].outputs \in SUBSET Plannable /\ "output" \in Roles
      BY <3>1 DEF Commands, Plannable, Roles
    <3>3. produced[i] = Inferred(m.commands[i].outputs, "output")
      BY <2>1
    <3> QED
      BY <3>2, <3>3, InferredGroup
  <2>3. produced = [i \in 1 .. n |-> produced[i]]
    BY <2>1
  <2>4. {produced[i] : i \in 1 .. n} = {Inferred(m.commands[i].outputs, "output") : i \in 1 .. n}
    BY <2>1
  <2> HIDE DEF produced, n
  <2>5. \A i \in 1 .. n : produced[i] \in PlanGroups
    BY <2>2
  <2>6. produced \in Seq(PlanGroups) /\ Range(produced) = {produced[i] : i \in 1 .. n}
    BY <2>1, <2>3, <2>5, Mapped
  <2>7. UNION {PathsOf(group) : group \in Range(produced)} = UNION {m.commands[i].outputs : i \in 1 .. n}
    BY <2>2, <2>6
  <2> QED
    BY <2>1, <2>4, <2>6, <2>7 DEF OutputsOf
<1>6. /\ edited \in Seq(PlanGroups)
      /\ UNION {PathsOf(group) : group \in Range(edited)} = {m.edits[i].path : i \in DOMAIN m.edits}
  <2> DEFINE n == Len(m.edits)
  <2>1. n \in Nat /\ DOMAIN m.edits = 1 .. n
    BY <1>3
  <2>2. ASSUME NEW i \in 1 .. n
        PROVE  edited[i] \in PlanGroups /\ PathsOf(edited[i]) = {m.edits[i].path}
    <3>1. m.edits[i] \in FileActions
      BY <1>3, <2>1
    <3>2. {m.edits[i].path} \in SUBSET Plannable /\ "output" \in Roles
      BY <3>1 DEF FileActions, Plannable, Roles
    <3>3. edited[i] = Inferred({m.edits[i].path}, "output")
      BY <2>1
    <3> QED
      BY <3>2, <3>3, InferredGroup
  <2>3. edited = [i \in 1 .. n |-> edited[i]]
    BY <2>1
  <2>4. {edited[i] : i \in 1 .. n} = {Inferred({m.edits[i].path}, "output") : i \in 1 .. n}
    BY <2>1
  <2> HIDE DEF edited, n
  <2>5. \A i \in 1 .. n : edited[i] \in PlanGroups
    BY <2>2
  <2>6. edited \in Seq(PlanGroups) /\ Range(edited) = {edited[i] : i \in 1 .. n}
    BY <2>1, <2>3, <2>5, Mapped
  <2>7. UNION {PathsOf(group) : group \in Range(edited)} = {m.edits[i].path : i \in 1 .. n}
    <3>1. UNION {PathsOf(group) : group \in Range(edited)} = UNION {PathsOf(edited[i]) : i \in 1 .. n}
      BY <2>6
    <3>2. UNION {PathsOf(edited[i]) : i \in 1 .. n} = UNION {{m.edits[i].path} : i \in 1 .. n}
      BY <2>2
    <3> QED
      BY <3>1, <3>2
  <2> QED
    BY <2>1, <2>4, <2>6, <2>7
<1>7. /\ workflow \in Seq(PlanGroups)
      /\ UNION {PathsOf(group) : group \in Range(workflow)} = {p \in {m.workflow.path} : HasWorkflow(m)}
  <2>1. CASE HasWorkflow(m)
    <3>1. {m.workflow.path} \in SUBSET Plannable
      BY <2>1, WorkflowPath
    <3> DEFINE group == Inferred({m.workflow.path}, "source")
    <3>2. group \in PlanGroups /\ PathsOf(group) = {m.workflow.path}
      <4>1. "source" \in Roles
        BY DEF Roles
      <4> QED
        BY <3>1, <4>1, InferredGroup
    <3> HIDE DEF group
    <3>3. workflow = <<group>>
      BY <2>1 DEF group
    <3>4. Range(workflow) = {group}
      BY <3>3 DEF Range
    <3> QED
      BY <2>1, <3>2, <3>3, <3>4
  <2>2. CASE ~HasWorkflow(m)
    <3>1. workflow = <<>> /\ Range(workflow) = {}
      BY <2>2 DEF Range
    <3> QED
      BY <2>2, <3>1
  <2> QED
    BY <2>1, <2>2
<1> HIDE DEF inputs, outputs, produced, edited, workflow
<1> DEFINE two == inputs \o outputs
           three == two \o produced
           four == three \o edited
           five == four \o workflow
<1>8. two \in Seq(PlanGroups) /\ Range(two) = Range(inputs) \cup Range(outputs)
  BY <1>4, JoinedRange
<1>9. three \in Seq(PlanGroups) /\ Range(three) = Range(two) \cup Range(produced)
  <2> HIDE DEF two
  <2> QED
    BY <1>5, <1>8, JoinedRange
<1>10. four \in Seq(PlanGroups) /\ Range(four) = Range(three) \cup Range(edited)
  <2> HIDE DEF three
  <2> QED
    BY <1>6, <1>9, JoinedRange
<1>11. five \in Seq(PlanGroups) /\ Range(five) = Range(four) \cup Range(workflow)
  <2> HIDE DEF four
  <2> QED
    BY <1>7, <1>10, JoinedRange
<1>12. Considered(m) = five
  BY <1>1
<1> HIDE DEF two, three, four, five
<1>13. Range(five) = Range(inputs) \cup Range(outputs) \cup Range(produced)
                        \cup Range(edited) \cup Range(workflow)
  BY <1>8, <1>9, <1>10, <1>11
<1> DEFINE of(groups) == UNION {PathsOf(group) : group \in Range(groups)}
<1>14. of(five) = of(inputs) \cup of(outputs) \cup of(produced) \cup of(edited) \cup of(workflow)
  BY <1>13
<1>15. of(five) = ConsideredPaths(m)
  <2>1. of(inputs) = {m.inputs[i].path : i \in DOMAIN m.inputs}
        /\ of(outputs) = {m.outputs[i].path : i \in DOMAIN m.outputs} /\ of(produced) = OutputsOf(m)
        /\ of(edited) = {m.edits[i].path : i \in DOMAIN m.edits}
        /\ of(workflow) = {p \in {m.workflow.path} : HasWorkflow(m)}
    BY <1>4, <1>5, <1>6, <1>7
  <2> HIDE DEF of
  <2> QED
    BY <1>14, <2>1 DEF ConsideredPaths
<1> QED
  BY <1>5, <1>11, <1>12, <1>13, <1>15

\* The plans are made group by group.
LEMMA PlansSteps ==
    ASSUME NEW m \in Models
    PROVE  \E made \in [0 .. Len(Considered(m)) -> PlanMaps] :
               /\ made[0] = <<>>
               /\ \A n \in 1 .. Len(Considered(m)) : made[n] = Consider(made[n - 1], Considered(m)[n])
               /\ PlanFileInclusion(m) = made[Len(Considered(m))]
<1> DEFINE groups == Considered(m)
           last == Len(groups)
           Making(f) == [n \in 0 .. last |-> IF n = 0 THEN <<>> ELSE Consider(f[n - 1], groups[n])]
           plans == CHOOSE f : f = Making(f)
           step == [i \in 1 .. last |-> [made \in PlanMaps |-> Consider(made, groups[i])]]
<1>1. groups \in Seq(PlanGroups)
  BY ConsideredGroups
<1>2. PlanFileInclusion(m) = plans[last]
  BY DEF PlanFileInclusion
<1> HIDE DEF groups
<1>3. last \in Nat /\ \A i \in 1 .. last : groups[i] \in PlanGroups
  BY <1>1
<1> HIDE DEF last
<1>4. step \in [1 .. last -> [PlanMaps -> PlanMaps]]
  <2>1. ASSUME NEW i \in 1 .. last, NEW made \in PlanMaps PROVE Consider(made, groups[i]) \in PlanMaps
    BY <1>3, ConsiderTyped
  <2> QED
    BY <2>1
<1>5. <<>> \in PlanMaps
  <2>1. <<>> \in [{} -> Plans] /\ DOMAIN <<>> = {}
    OBVIOUS
  <2> QED
    BY <2>1 DEF PlanMaps
<1> HIDE DEF step
<1>6. PICK g \in [0 .. last -> PlanMaps] : Recursive(g, last, <<>>, step)
  BY <1>3, <1>4, <1>5, Recursion
<1>7. ASSUME NEW n \in 1 .. last PROVE g[n] = Consider(g[n - 1], groups[n])
  <2>1. g[n - 1] \in PlanMaps
    BY <1>3
  <2>2. g[n] = step[n][g[n - 1]]
    BY <1>6 DEF Recursive
  <2> QED
    BY <2>1, <2>2 DEF step
<1>8. g[0] = <<>>
  BY <1>6 DEF Recursive
<1>9. g = Making(g)
  BY <1>7, <1>8
<1>10. plans = Making(plans)
  <2> HIDE DEF Making
  <2> QED
    BY <1>9
<1> HIDE DEF plans
<1>11. plans[0] = <<>> /\ \A n \in 1 .. last : plans[n] = Consider(plans[n - 1], groups[n])
  BY <1>3, <1>10
<1> DEFINE T == {n \in 0 .. last : plans[n] = g[n]}
<1>12. 0 \in T
  BY <1>3, <1>8, <1>11
<1>13. ASSUME NEW n \in 0 .. last - 1, n \in T PROVE n + 1 \in T
  <2>1. n + 1 \in 1 .. last /\ n + 1 - 1 = n
    BY <1>3
  <2>2. plans[n + 1] = Consider(plans[n], groups[n + 1])
    BY <1>11, <2>1
  <2>3. g[n + 1] = Consider(g[n], groups[n + 1])
    BY <1>7, <2>1
  <2> QED
    BY <1>13, <2>1, <2>2, <2>3
<1> HIDE DEF T
<1>14. 0 .. last \subseteq T
  <2>1. last \in Nat
    BY <1>3
  <2>2. \A n \in 0 .. last - 1 : n \in T => n + 1 \in T
    BY <1>13
  <2> QED
    BY <1>12, <2>1, <2>2, BoundedInduction
<1>15. PlanFileInclusion(m) = g[last]
  BY <1>2, <1>3, <1>14 DEF T
<1>16. \A n \in 1 .. last : g[n] = Consider(g[n - 1], groups[n])
  BY <1>7
<1> QED
  BY <1>8, <1>15, <1>16 DEF groups, last

\* Every path a model speaks of has a plan, unless it is ignored, and what one group
\* captures stays captured.
LEMMA PlansFollow ==
    ASSUME NEW m \in Models
    PROVE  /\ PlanFileInclusion(m) \in PlanMaps
           /\ DOMAIN PlanFileInclusion(m) = ConsideredPaths(m) \ (Ignored \ Outside)
           /\ \A group \in Range(Considered(m)) : \A plan \in group :
                  plan.path \notin Ignored \ Outside =>
                      /\ plan.copy => PlanFileInclusion(m)[plan.path].copy
                      /\ plan.included => PlanFileInclusion(m)[plan.path].included
<1> DEFINE groups == Considered(m)
           last == Len(groups)
<1>1. PICK made \in [0 .. last -> PlanMaps] :
         /\ made[0] = <<>>
         /\ \A n \in 1 .. last : made[n] = Consider(made[n - 1], groups[n])
         /\ PlanFileInclusion(m) = made[last]
  BY PlansSteps
<1>2. groups \in Seq(PlanGroups) /\ UNION {PathsOf(group) : group \in Range(groups)} = ConsideredPaths(m)
  BY ConsideredGroups
<1> HIDE DEF groups
<1>3. last \in Nat /\ DOMAIN groups = 1 .. last /\ \A i \in 1 .. last : groups[i] \in PlanGroups
  BY <1>2
<1> HIDE DEF last
<1> DEFINE of(n) == UNION {PathsOf(groups[i]) : i \in 1 .. n}
           Follows(n) ==
              /\ DOMAIN made[n] = of(n) \ (Ignored \ Outside)
              /\ \A i \in 1 .. n : \A plan \in groups[i] :
                    plan.path \notin Ignored \ Outside =>
                        /\ plan.copy => made[n][plan.path].copy
                        /\ plan.included => made[n][plan.path].included
           T == {n \in 0 .. last : Follows(n)}
<1>4. 0 \in T
  <2>1. DOMAIN made[0] = {}
    BY <1>1
  <2> QED
    BY <1>3, <2>1
<1>5. ASSUME NEW n \in 0 .. last - 1, n \in T PROVE n + 1 \in T
  <2> DEFINE old == made[n]
             next == made[n + 1]
             group == groups[n + 1]
  <2>1. n + 1 \in 1 .. last /\ n + 1 - 1 = n /\ n \in 0 .. last
    BY <1>3
  <2>2. old \in PlanMaps /\ group \in PlanGroups /\ next = Consider(old, group)
    BY <1>1, <1>3, <2>1
  <2> HIDE DEF old, next, group
  <2>3. /\ DOMAIN next = DOMAIN old \cup (PathsOf(group) \ (Ignored \ Outside))
        /\ \A p \in DOMAIN old : old[p].copy => next[p].copy
        /\ \A p \in DOMAIN old : old[p].included => next[p].included
        /\ \A plan \in group : plan.path \notin Ignored \ Outside =>
              /\ plan.copy => next[plan.path].copy
              /\ plan.included => next[plan.path].included
    BY <2>2, ConsiderTyped
  <2>4. 1 .. n + 1 = (1 .. n) \cup {n + 1}
    BY <2>1
  <2>5. of(n + 1) = of(n) \cup PathsOf(group)
    BY <2>4 DEF group
  <2>6. Follows(n)
    BY <1>5
  <2>7. DOMAIN next = of(n + 1) \ (Ignored \ Outside)
    <3>1. DOMAIN old = of(n) \ (Ignored \ Outside)
      BY <2>6 DEF old
    <3> HIDE DEF of
    <3> QED
      BY <2>3, <2>5, <3>1
  <2>8. ASSUME NEW i \in 1 .. n + 1, NEW plan \in groups[i], plan.path \notin Ignored \ Outside
        PROVE  /\ plan.copy => next[plan.path].copy
               /\ plan.included => next[plan.path].included
    <3>1. CASE i = n + 1
      BY <2>3, <2>8, <3>1 DEF group
    <3>2. CASE i \in 1 .. n
      <4>1. plan.path \in PathsOf(groups[i])
        BY DEF PathsOf
      <4>2. plan.path \in DOMAIN old
        BY <2>6, <2>8, <3>2, <4>1 DEF old
      <4>3. (plan.copy => old[plan.path].copy) /\ (plan.included => old[plan.path].included)
        BY <2>6, <2>8, <3>2 DEF old
      <4> QED
        BY <2>3, <4>2, <4>3
    <3> QED
      BY <2>4, <3>1, <3>2
  <2>9. Follows(n + 1)
    BY <2>7, <2>8 DEF next
  <2> HIDE DEF Follows
  <2>10. n + 1 \in 0 .. last
    BY <2>1
  <2> QED
    BY <2>9, <2>10
<1> HIDE DEF T
<1>6. 0 .. last \subseteq T
  <2>1. last \in Nat
    BY <1>3
  <2>2. \A n \in 0 .. last - 1 : n \in T => n + 1 \in T
    BY <1>5
  <2> QED
    BY <1>4, <2>1, <2>2, BoundedInduction
<1>7. Follows(last)
  BY <1>3, <1>6 DEF T
<1>8. of(last) = ConsideredPaths(m)
  <2>1. Range(groups) = {groups[i] : i \in 1 .. last}
    BY <1>3 DEF Range
  <2> QED
    BY <1>2, <2>1
<1>9. made[last] \in PlanMaps
  BY <1>1, <1>3
<1>10. ASSUME NEW group \in Range(groups), NEW plan \in group, plan.path \notin Ignored \ Outside
       PROVE  /\ plan.copy => made[last][plan.path].copy
              /\ plan.included => made[last][plan.path].included
  <2>1. PICK i \in 1 .. last : group = groups[i]
    BY <1>3 DEF Range
  <2> QED
    BY <1>7, <1>10, <2>1
<1>11. DOMAIN made[last] = ConsideredPaths(m) \ (Ignored \ Outside)
  BY <1>7, <1>8
<1> QED
  BY <1>1, <1>9, <1>10, <1>11 DEF groups

-----------------------------------------------------------------------------
(* Assembly of the graph.                                                   *)

Entities(I, T, L) == [id : I, types : T, links : SUBSET L]
Ids(group) == {e.id : e \in group}
EntitySets(I, T, L) == SUBSET Entities(I, T, L)
Graphs(I, T, L) ==
    {graph \in UNION {[D -> Entities(I, T, L)] : D \in SUBSET I} : \A id \in DOMAIN graph : graph[id].id = id}

Has(links, property) == \E link \in links : link[1] = property

\* An action that failed carries an error.
Failing(links) == \E link \in links : link[1] = "actionStatus" /\ link[2] = <<"status", "failed">>
Explained(links) == Failing(links) => Has(links, "error")

\* The last section with an entity of an id, and an entity with the types and the links of one.
LastWith(sections, i, n, id) ==
    /\ \E e \in sections[i] : e.id = id
    /\ \A j \in i + 1 .. n : \A e \in sections[j] : e.id # id
Gives(group, id, entity) == \E e \in group : e.id = id /\ e.types = entity.types /\ e.links \subseteq entity.links

\* What the entity of the graph with an id owes to those emitted with it: the types and
\* the links of one in the last section, links that one of them has, the properties they
\* agree on; and it is the one emitted if there is one only.
Owes(entity, id, sections, n) ==
    LET emitted == {e \in UNION {sections[i] : i \in 1 .. n} : e.id = id}
    IN  /\ \A link \in entity.links : \E e \in emitted : link \in e.links
        /\ \E e \in emitted : e.types = entity.types /\ e.links \subseteq entity.links
        /\ \A e \in emitted : emitted = {e} => entity = e
        /\ (\A e \in emitted : Explained(e.links)) => Explained(entity.links)
        /\ \A property : (\E i \in 1 .. n :
                              /\ \E e \in sections[i] : e.id = id
                              /\ \A e \in sections[i] : e.id = id => Has(e.links, property))
                         => Has(entity.links, property)
        /\ \A i \in 1 .. n : LastWith(sections, i, n, id) => Gives(sections[i], id, entity)

Follows(graph, sections, n) ==
    /\ DOMAIN graph = Ids(UNION {sections[i] : i \in 1 .. n})
    /\ \A id \in DOMAIN graph : Owes(graph[id], id, sections, n)

\* An entity emitted again.
LEMMA UpdatedTyped ==
    ASSUME NEW I, NEW T, NEW L, NEW old \in Entities(I, T, L), NEW new \in Entities(I, T, L)
    PROVE  /\ Updated(old, new) \in Entities(I, T, L)
           /\ Updated(old, new).id = new.id /\ Updated(old, new).types = new.types
           /\ new.links \subseteq Updated(old, new).links
           /\ Updated(old, new).links \subseteq old.links \cup new.links
           /\ \A link \in old.links : Has(new.links, link[1]) \/ link \in Updated(old, new).links
           /\ Updated(old, new).links \subseteq new.links \cup {link \in old.links : ~Has(new.links, link[1])}
           /\ new = old => Updated(old, new) = new
<1> DEFINE links == new.links \cup {link \in old.links : \A l \in new.links : l[1] # link[1]}
<1>1. Updated(old, new) = [new EXCEPT !.links = links]
  BY DEF Updated
<1>2. new.links \in SUBSET L /\ old.links \in SUBSET L
  BY DEF Entities
<1>3. links \in SUBSET L
  BY <1>2
<1>4. new = old => links = new.links
  OBVIOUS
<1>5. /\ new.links \subseteq links /\ links \subseteq old.links \cup new.links
      /\ \A link \in old.links : Has(new.links, link[1]) \/ link \in links
      /\ links \subseteq new.links \cup {link \in old.links : ~Has(new.links, link[1])}
  BY DEF Has
<1> HIDE DEF links
<1>6. /\ [new EXCEPT !.links = links] \in Entities(I, T, L)
      /\ [new EXCEPT !.links = links].id = new.id /\ [new EXCEPT !.links = links].types = new.types
      /\ [new EXCEPT !.links = links].links = links
      /\ links = new.links => [new EXCEPT !.links = links] = new
  BY <1>3 DEF Entities
<1> QED
  BY <1>1, <1>4, <1>5, <1>6

\* What a graph is after a group was merged into one.
Merges(next, graph, group) ==
    /\ DOMAIN next = DOMAIN graph \cup Ids(group)
    /\ \A id \in DOMAIN graph : id \notin Ids(group) => next[id] = graph[id]
    /\ \A id \in Ids(group) : \E e \in group :
           e.id = id /\ next[id] = IF id \in DOMAIN graph THEN Updated(graph[id], e) ELSE e

\* Merging keeps the types of graphs.
LEMMA MergeTyped ==
    ASSUME NEW I, NEW T, NEW L, NEW graph \in Graphs(I, T, L), NEW group \in EntitySets(I, T, L)
    PROVE  Merge(graph, group) \in Graphs(I, T, L) /\ Merges(Merge(graph, group), graph, group)
<1> DEFINE emitted == [id \in Ids(group) |-> CHOOSE e \in group : e.id = id]
           value(id) == IF id \notin DOMAIN emitted THEN graph[id]
                        ELSE IF id \notin DOMAIN graph THEN emitted[id]
                        ELSE Updated(graph[id], emitted[id])
           merged == [id \in DOMAIN graph \cup DOMAIN emitted |-> value(id)]
<1>1. Merge(graph, group) = merged
  BY DEF Merge, Ids
<1>2. DOMAIN emitted = Ids(group) /\ \A id \in DOMAIN emitted : emitted[id] \in group /\ emitted[id].id = id
  BY DEF Ids
<1> HIDE DEF emitted
<1>3. \A e \in group : e \in Entities(I, T, L) /\ e.id \in I
  BY DEF Entities, EntitySets
<1>4. DOMAIN graph \in SUBSET I /\ \A id \in DOMAIN graph : graph[id] \in Entities(I, T, L) /\ graph[id].id = id
  BY DEF Graphs
<1>5. ASSUME NEW id \in DOMAIN graph \cup DOMAIN emitted
      PROVE  value(id) \in Entities(I, T, L) /\ value(id).id = id
  <2>1. CASE id \in DOMAIN emitted /\ id \in DOMAIN graph
    <3> DEFINE a == graph[id]
               b == emitted[id]
    <3>1. a \in Entities(I, T, L) /\ b \in Entities(I, T, L) /\ b.id = id
      BY <1>2, <1>3, <1>4, <2>1
    <3>2. value(id) = Updated(a, b)
      BY <2>1
    <3> HIDE DEF a, b, value
    <3> QED
      BY <3>1, <3>2, UpdatedTyped
  <2>2. CASE id \notin DOMAIN emitted
    BY <1>4, <2>2
  <2>3. CASE id \in DOMAIN emitted /\ id \notin DOMAIN graph
    BY <1>2, <1>3, <2>3
  <2> QED
    BY <2>1, <2>2, <2>3
<1>6. \A id \in DOMAIN emitted : \E e \in group :
        e.id = id /\ value(id) = IF id \in DOMAIN graph THEN Updated(graph[id], e) ELSE e
  BY <1>2
<1>7. \A id \in DOMAIN graph : id \notin DOMAIN emitted => value(id) = graph[id]
  OBVIOUS
<1> HIDE DEF value
<1>8. /\ DOMAIN merged = DOMAIN graph \cup DOMAIN emitted
      /\ \A id \in DOMAIN graph \cup DOMAIN emitted : merged[id] = value(id)
  OBVIOUS
<1>9. merged \in [DOMAIN graph \cup DOMAIN emitted -> Entities(I, T, L)]
  BY <1>5
<1>10. DOMAIN graph \cup DOMAIN emitted \in SUBSET I
  BY <1>2, <1>3, <1>4 DEF Ids
<1> HIDE DEF merged
<1>11. merged \in Graphs(I, T, L)
  BY <1>5, <1>8, <1>9, <1>10 DEF Graphs
<1> QED
  BY <1>1, <1>2, <1>6, <1>7, <1>8, <1>11 DEF Merges

\* An entity that is emitted again owes to both emissions.
LEMMA OwesUpdated ==
    ASSUME NEW I, NEW T, NEW L, NEW sections, NEW n \in Nat,
           \A i \in 1 .. n + 1 : sections[i] \in SUBSET Entities(I, T, L),
           NEW old \in Entities(I, T, L), NEW id, Owes(old, id, sections, n),
           NEW new \in sections[n + 1], new.id = id
    PROVE  Owes(Updated(old, new), id, sections, n + 1)
<1> DEFINE all(k) == UNION {sections[i] : i \in 1 .. k}
           emitted == {e \in all(n) : e.id = id}
           later == {e \in all(n + 1) : e.id = id}
           entity == Updated(old, new)
<1>1. new \in Entities(I, T, L)
  OBVIOUS
<1>2. /\ entity.types = new.types
      /\ new.links \subseteq entity.links
      /\ entity.links \subseteq old.links \cup new.links
      /\ \A link \in old.links : Has(new.links, link[1]) \/ link \in entity.links
      /\ entity.links \subseteq new.links \cup {link \in old.links : ~Has(new.links, link[1])}
      /\ new = old => entity = new
  BY <1>1, UpdatedTyped
<1> HIDE DEF entity
<1>3. 1 .. n + 1 = (1 .. n) \cup {n + 1}
  OBVIOUS
<1>4. emitted \subseteq later /\ new \in later
  BY <1>3
<1>5. /\ \A link \in old.links : \E e \in emitted : link \in e.links
      /\ \E e \in emitted : e.types = old.types /\ e.links \subseteq old.links
      /\ \A e \in emitted : emitted = {e} => old = e
      /\ (\A e \in emitted : Explained(e.links)) => Explained(old.links)
      /\ \A property : (\E i \in 1 .. n :
                            /\ \E e \in sections[i] : e.id = id
                            /\ \A e \in sections[i] : e.id = id => Has(e.links, property))
                       => Has(old.links, property)
  BY DEF Owes
<1>6. \A link \in entity.links : \E e \in later : link \in e.links
  BY <1>2, <1>4, <1>5
<1>7. \E e \in later : e.types = entity.types /\ e.links \subseteq entity.links
  BY <1>2, <1>4
<1>8. ASSUME NEW e \in later, later = {e} PROVE entity = e
  <2>1. new = e /\ emitted \subseteq {e} /\ emitted # {}
    BY <1>4, <1>5, <1>8
  <2>2. emitted = {e}
    BY <2>1
  <2>3. old = e
    BY <1>5, <2>1, <2>2
  <2> QED
    BY <1>2, <2>1, <2>3
<1>9. ASSUME \A e \in later : Explained(e.links), NEW failed \in entity.links,
             failed[1] = "actionStatus" /\ failed[2] = <<"status", "failed">>
      PROVE  Has(entity.links, "error")
  <2>1. CASE failed \in new.links
    <3>1. Failing(new.links)
      BY <1>9, <2>1 DEF Failing
    <3>2. Has(new.links, "error")
      BY <1>4, <1>9, <3>1 DEF Explained
    <3> QED
      BY <1>2, <3>2 DEF Has
  <2>2. CASE failed \in old.links
    <3>1. Explained(old.links)
      BY <1>4, <1>5, <1>9
    <3>2. Failing(old.links)
      BY <1>9, <2>2 DEF Failing
    <3>3. PICK link \in old.links : link[1] = "error"
      BY <3>1, <3>2 DEF Explained, Has
    <3>4. Has(new.links, "error") \/ link \in entity.links
      BY <1>2, <3>3
    <3> QED
      BY <1>2, <3>3, <3>4 DEF Has
  <2> QED
    BY <1>2, <1>9, <2>1, <2>2
<1>10. ASSUME NEW property, NEW i \in 1 .. n + 1, \E e \in sections[i] : e.id = id,
              \A e \in sections[i] : e.id = id => Has(e.links, property)
       PROVE  Has(entity.links, property)
  <2>1. CASE i = n + 1
    <3>1. Has(new.links, property)
      BY <1>10, <2>1
    <3> QED
      BY <1>2, <3>1 DEF Has
  <2>2. CASE i \in 1 .. n
    <3>1. Has(old.links, property)
      BY <1>5, <1>10, <2>2
    <3>2. PICK link \in old.links : link[1] = property
      BY <3>1 DEF Has
    <3>3. Has(new.links, property) \/ link \in entity.links
      BY <1>2, <3>2
    <3> QED
      BY <1>2, <3>2, <3>3 DEF Has
  <2> QED
    BY <1>3, <2>1, <2>2
<1>11. (\A e \in later : Explained(e.links)) => Explained(entity.links)
  BY <1>9 DEF Explained, Failing
<1>12. \A property : (\E i \in 1 .. n + 1 :
                          /\ \E e \in sections[i] : e.id = id
                          /\ \A e \in sections[i] : e.id = id => Has(e.links, property))
                     => Has(entity.links, property)
  BY <1>10
<1>13. \A e \in later : later = {e} => entity = e
  BY <1>8
<1>14. ASSUME NEW i \in 1 .. n + 1, LastWith(sections, i, n + 1, id) PROVE Gives(sections[i], id, entity)
  <2>1. i = n + 1
    <3>1. i \in Nat /\ i # n + 1 => n + 1 \in i + 1 .. n + 1
      OBVIOUS
    <3> QED
      BY <1>14, <3>1 DEF LastWith
  <2> QED
    BY <1>2, <2>1 DEF Gives
<1>15. Owes(entity, id, sections, n + 1)
  BY <1>6, <1>7, <1>11, <1>12, <1>13, <1>14 DEF Owes
<1> QED
  BY <1>15 DEF entity

\* Merging the next section keeps what the graph owes.
LEMMA MergeFollows ==
    ASSUME NEW I, NEW T, NEW L, NEW sections, NEW n \in Nat,
           \A i \in 1 .. n + 1 : sections[i] \in SUBSET Entities(I, T, L),
           NEW graph \in Graphs(I, T, L), Follows(graph, sections, n)
    PROVE  Follows(Merge(graph, sections[n + 1]), sections, n + 1)
<1> DEFINE group == sections[n + 1]
           next == Merge(graph, group)
           all(k) == UNION {sections[i] : i \in 1 .. k}
<1>1. n + 1 \in 1 .. n + 1 /\ group \in SUBSET Entities(I, T, L)
  OBVIOUS
<1>2. 1 .. n + 1 = (1 .. n) \cup {n + 1}
  OBVIOUS
<1>3. all(n + 1) = all(n) \cup group
  BY <1>2
<1> HIDE DEF group
<1>4. /\ DOMAIN next = DOMAIN graph \cup Ids(group)
      /\ \A id \in DOMAIN graph : id \notin Ids(group) => next[id] = graph[id]
      /\ \A id \in Ids(group) : \E e \in group :
            /\ e.id = id
            /\ next[id] = IF id \in DOMAIN graph THEN Updated(graph[id], e) ELSE e
  <2>1. group \in EntitySets(I, T, L) /\ graph \in Graphs(I, T, L)
    BY <1>1 DEF EntitySets
  <2>2. Merges(Merge(graph, group), graph, group)
    BY <2>1, MergeTyped
  <2> QED
    BY <2>2 DEF next, Merges
<1> HIDE DEF next
<1>5. DOMAIN graph = Ids(all(n)) /\ \A id \in DOMAIN graph : Owes(graph[id], id, sections, n)
  BY DEF Follows
<1>6. \A id \in DOMAIN graph : graph[id] \in Entities(I, T, L)
  BY DEF Graphs
<1>7. DOMAIN next = Ids(all(n + 1))
  BY <1>3, <1>4, <1>5 DEF Ids
<1>8. ASSUME NEW id \in DOMAIN next PROVE Owes(next[id], id, sections, n + 1)
  <2>1. CASE id \in DOMAIN graph /\ id \notin Ids(group)
    <3>1. next[id] = graph[id] /\ Owes(graph[id], id, sections, n)
      BY <1>4, <1>5, <2>1
    <3>2. {e \in all(n + 1) : e.id = id} = {e \in all(n) : e.id = id}
      BY <1>3, <2>1 DEF Ids
    <3>3. \A property : (\E i \in 1 .. n + 1 :
                            /\ \E e \in sections[i] : e.id = id
                            /\ \A e \in sections[i] : e.id = id => Has(e.links, property))
                        => \E i \in 1 .. n :
                            /\ \E e \in sections[i] : e.id = id
                            /\ \A e \in sections[i] : e.id = id => Has(e.links, property)
      BY <1>2, <2>1 DEF group, Ids
    <3>4. ASSUME NEW i \in 1 .. n + 1, LastWith(sections, i, n + 1, id) PROVE Gives(sections[i], id, next[id])
      <4>1. i \in 1 .. n
        BY <1>2, <2>1, <3>4 DEF LastWith, group, Ids
      <4>2. \A j \in i + 1 .. n : j \in i + 1 .. n + 1
        BY <4>1
      <4>3. LastWith(sections, i, n, id)
        BY <3>4, <4>2 DEF LastWith
      <4> QED
        BY <3>1, <4>1, <4>3 DEF Owes
    <3> QED
      BY <3>1, <3>2, <3>3, <3>4 DEF Owes
  <2>2. CASE id \in DOMAIN graph /\ id \in Ids(group)
    <3>1. PICK e \in group : e.id = id /\ next[id] = Updated(graph[id], e)
      BY <1>4, <2>2
    <3>2. graph[id] \in Entities(I, T, L) /\ Owes(graph[id], id, sections, n)
      BY <1>5, <1>6, <2>2
    <3>3. e \in sections[n + 1]
      BY DEF group
    <3> QED
      BY <3>1, <3>2, <3>3, OwesUpdated
  <2>3. CASE id \notin DOMAIN graph
    <3>1. PICK e \in group : e.id = id /\ next[id] = e
      BY <1>4, <2>3
    <3>2. e \in all(n + 1)
      BY <1>3
    <3>3. \A i \in 1 .. n : ~\E f \in sections[i] : f.id = id
      BY <1>5, <2>3 DEF Ids
    <3>4. \A property : \A i \in 1 .. n + 1 :
             (/\ \E f \in sections[i] : f.id = id
              /\ \A f \in sections[i] : f.id = id => Has(f.links, property))
             => Has(e.links, property)
      BY <1>2, <3>1, <3>3 DEF group
    <3>5. \A i \in 1 .. n + 1 : LastWith(sections, i, n + 1, id) => Gives(sections[i], id, e)
      BY <1>2, <3>1, <3>3 DEF LastWith, Gives, group
    <3> QED
      BY <3>1, <3>2, <3>4, <3>5 DEF Owes
  <2> QED
    BY <1>4, <2>1, <2>2, <2>3
<1>9. Follows(next, sections, n + 1)
  BY <1>7, <1>8 DEF Follows
<1> QED
  BY <1>9 DEF next, group

\* The assembled graph owes its entities to the sections.
LEMMA AssembledFollows ==
    ASSUME NEW I, NEW T, NEW L, NEW sections \in Seq(EntitySets(I, T, L))
    PROVE  /\ Assembled(sections) \in Graphs(I, T, L)
           /\ Follows(Assembled(sections), sections, Len(sections))
<1> DEFINE last == Len(sections)
           G == Graphs(I, T, L)
           Making(f) == [n \in 0 .. last |-> IF n = 0 THEN <<>> ELSE Merge(f[n - 1], sections[n])]
           graph == CHOOSE f : f = Making(f)
           step == [i \in 1 .. last |-> [g \in G |-> Merge(g, sections[i])]]
<1>1. last \in Nat /\ \A i \in 1 .. last : sections[i] \in EntitySets(I, T, L)
  OBVIOUS
<1>2. Assembled(sections) = graph[last]
  BY DEF Assembled
<1> HIDE DEF last
<1>3. ASSUME NEW i \in 1 .. last, NEW g \in G PROVE Merge(g, sections[i]) \in G
  BY <1>1, MergeTyped
<1>4. <<>> \in G /\ DOMAIN <<>> = {}
  <2>1. <<>> \in [{} -> Entities(I, T, L)] /\ DOMAIN <<>> = {}
    OBVIOUS
  <2> QED
    BY <2>1 DEF Graphs
<1> HIDE DEF G
<1>5. step \in [1 .. last -> [G -> G]]
  BY <1>3
<1> HIDE DEF step
<1>6. PICK g \in [0 .. last -> G] : Recursive(g, last, <<>>, step)
  BY <1>1, <1>4, <1>5, Recursion
<1>7. ASSUME NEW n \in 1 .. last PROVE g[n] = Merge(g[n - 1], sections[n])
  <2>1. g[n - 1] \in G
    BY <1>1
  <2>2. g[n] = step[n][g[n - 1]]
    BY <1>6 DEF Recursive
  <2> QED
    BY <2>1, <2>2 DEF step
<1>8. g[0] = <<>>
  BY <1>6 DEF Recursive
<1>9. g = Making(g)
  BY <1>7, <1>8
<1>10. graph = Making(graph)
  <2> HIDE DEF Making
  <2> QED
    BY <1>9
<1> HIDE DEF graph
<1>11. graph[0] = <<>> /\ \A n \in 1 .. last : graph[n] = Merge(graph[n - 1], sections[n])
  BY <1>1, <1>10
<1> DEFINE R == {n \in 0 .. last : graph[n] \in G /\ Follows(graph[n], sections, n)}
<1>12. 0 \in R
  <2>1. UNION {sections[i] : i \in 1 .. 0} = {}
    OBVIOUS
  <2>2. Follows(<<>>, sections, 0)
    BY <1>4, <2>1 DEF Follows, Ids
  <2> QED
    BY <1>1, <1>4, <1>11, <2>2
<1>13. ASSUME NEW n \in 0 .. last - 1, n \in R PROVE n + 1 \in R
  <2>1. n + 1 \in 1 .. last /\ n + 1 \in 0 .. last /\ n + 1 - 1 = n /\ n \in Nat
    BY <1>1
  <2>2. graph[n] \in Graphs(I, T, L) /\ Follows(graph[n], sections, n)
    BY <1>13 DEF G
  <2>3. graph[n + 1] = Merge(graph[n], sections[n + 1])
    BY <1>11, <2>1
  <2>4. \A i \in 1 .. n + 1 : sections[i] \in SUBSET Entities(I, T, L)
    BY <1>1, <2>1 DEF EntitySets
  <2>5. Follows(Merge(graph[n], sections[n + 1]), sections, n + 1)
    BY <2>1, <2>2, <2>4, MergeFollows
  <2>6. sections[n + 1] \in EntitySets(I, T, L)
    BY <1>1, <2>1
  <2>7. Merge(graph[n], sections[n + 1]) \in Graphs(I, T, L)
    BY <2>2, <2>6, MergeTyped
  <2> QED
    BY <2>1, <2>3, <2>5, <2>7 DEF G
<1> HIDE DEF R
<1>14. 0 .. last \subseteq R
  <2>1. last \in Nat
    BY <1>1
  <2>2. \A n \in 0 .. last - 1 : n \in R => n + 1 \in R
    BY <1>13
  <2> QED
    BY <1>12, <2>1, <2>2, BoundedInduction
<1>15. last \in R
  BY <1>1, <1>14
<1> QED
  BY <1>2, <1>15 DEF R, last, G

-----------------------------------------------------------------------------
(* The id map.                                                              *)

StepKeys == {<<"step", s>> : s \in Names.steps}
EventKeys == {<<"action", n>> : n \in Nat} \cup {<<"control", n>> : n \in Nat} \cup {<<"workflow-action">>}
IdKeys == StepKeys \cup EventKeys

\* The id maps with the first n uuids.
IdMaps(n) ==
    {ids \in UNION {[S -> StepKeys \cup ActionIds] : S \in SUBSET IdKeys} :
        /\ \A key \in DOMAIN ids \cap StepKeys : ids[key] = key
        /\ \A key \in DOMAIN ids \cap EventKeys : \E i \in 1 .. n : ids[key] = Uuid(i)}

\* Steps name themselves, events get uuids.
LEMMA KeyKinds ==
    /\ \A key \in StepKeys : key[1] = "step"
    /\ \A key \in EventKeys : key[1] # "step"
    /\ StepKeys \cap EventKeys = {}
<1>1. \A key \in StepKeys : key[1] = "step"
  BY DEF StepKeys
<1>2. \A key \in EventKeys : key[1] # "step"
  BY DEF EventKeys
<1> QED
  BY <1>1, <1>2

\* A uuid is one, and is no other.
LEMMA UuidFacts ==
    /\ \A i \in Nat, j \in Nat : Uuid(i) = Uuid(j) => i = j
    /\ \A i \in Nat : Uuid(i)[1] = "uuid" /\ Uuid(i) \in ActionIds /\ Uuid(i) \notin StepKeys
BY DEF Uuid, ActionIds, StepKeys

\* A finite set of keys is numbered without repetition.
LEMMA Numbered ==
    ASSUME NEW S, IsFiniteSet(S)
    PROVE  /\ SetToSeq(S) \in [1 .. Cardinality(S) -> S]
           /\ Cardinality(S) \in Nat
           /\ \A x \in S : \E i \in 1 .. Cardinality(S) : SetToSeq(S)[i] = x
           /\ \A i \in 1 .. Cardinality(S), j \in 1 .. Cardinality(S) :
                  SetToSeq(S)[i] = SetToSeq(S)[j] => i = j
<1> DEFINE n == Cardinality(S)
<1>1. n \in Nat /\ ExistsBijection(1 .. n, S)
  BY FS_CardinalityType
<1>2. \E f \in [1 .. n -> S] : IsInjective(f)
  <2>1. PICK f \in Bijection(1 .. n, S) : TRUE
    BY <1>1 DEF ExistsBijection
  <2>2. f \in [1 .. n -> S] /\ \A a \in 1 .. n, b \in 1 .. n : f[a] = f[b] => a = b
    BY <2>1 DEF Bijection, Injection, IsInjective
  <2> QED
    BY <2>2 DEF IsInjective
<1> DEFINE f == SetToSeq(S)
<1>3. f \in [1 .. n -> S] /\ IsInjective(f)
  BY <1>2 DEF SetToSeq
<1> HIDE DEF f, n
<1>4. \A i \in 1 .. n, j \in 1 .. n : f[i] = f[j] => i = j
  BY <1>3 DEF IsInjective
<1>5. IsFiniteSet(1 .. n) /\ Cardinality(1 .. n) = n
  BY <1>1, FS_Interval
<1>6. f \in Injection(1 .. n, S)
  BY <1>3 DEF Injection
<1>7. f \in Surjection(1 .. n, S)
  BY <1>5, <1>6, FS_Injection DEF n
<1>8. \A x \in S : \E i \in 1 .. n : f[i] = x
  BY <1>7 DEF Surjection
<1> QED
  BY <1>1, <1>3, <1>4, <1>8 DEF f, n

\* More uuids, more maps.
LEMMA IdMapsGrow ==
    ASSUME NEW n \in Nat, NEW k \in Nat, n <= k PROVE IdMaps(n) \subseteq IdMaps(k)
BY DEF IdMaps

\* What the keys the map lacks get.
Allocated(new, ids, fresh, count) ==
    /\ DOMAIN new = DOMAIN ids \cup fresh
    /\ \A key \in DOMAIN ids : new[key] = ids[key]
    /\ \A key \in fresh \cap StepKeys : new[key] = key
    /\ \A key \in fresh \cap EventKeys : \E i \in 1 .. count : new[key] = Uuid(minted + i)
    /\ \A k \in fresh \cap EventKeys, l \in fresh \cap EventKeys : new[k] = new[l] => k = l

\* Each a uuid of its own.
LEMMA AllocateFacts ==
    ASSUME minted \in Nat, NEW ids \in IdMaps(minted), NEW keys \in SUBSET IdKeys,
           IsFiniteSet(keys \ DOMAIN ids)
    PROVE  /\ Cardinality(keys \ DOMAIN ids) \in Nat
           /\ Allocated(Allocate(ids, keys), ids, keys \ DOMAIN ids, Cardinality(keys \ DOMAIN ids))
           /\ Allocate(ids, keys) \in IdMaps(minted + Cardinality(keys \ DOMAIN ids))
<1> DEFINE fresh == keys \ DOMAIN ids
           count == Cardinality(fresh)
           order == SetToSeq(fresh)
           place(key) == CHOOSE i \in DOMAIN order : order[i] = key
           value(key) == IF key \in DOMAIN ids THEN ids[key]
                         ELSE IF key[1] = "step" THEN key ELSE Uuid(minted + place(key))
           new == [key \in DOMAIN ids \cup keys |-> value(key)]
<1>1. Allocate(ids, keys) = new
  BY DEF Allocate
<1>2. /\ order \in [1 .. count -> fresh] /\ count \in Nat
      /\ \A x \in fresh : \E i \in 1 .. count : order[i] = x
  BY Numbered
<1> HIDE DEF order, count, fresh
<1>3. \A key \in fresh : place(key) \in 1 .. count /\ order[place(key)] = key
  BY <1>2
<1> HIDE DEF place
<1>4. ids \in UNION {[S -> StepKeys \cup ActionIds] : S \in SUBSET IdKeys}
  BY DEF IdMaps
<1>5. DOMAIN ids \in SUBSET IdKeys /\ \A key \in DOMAIN ids : ids[key] \in StepKeys \cup ActionIds
  BY <1>4
<1>6. /\ \A key \in DOMAIN ids \cap StepKeys : ids[key] = key
      /\ \A key \in DOMAIN ids \cap EventKeys : \E i \in 1 .. minted : ids[key] = Uuid(i)
  BY DEF IdMaps
<1>7. \A key \in DOMAIN ids : value(key) = ids[key]
  OBVIOUS
<1>8. \A key \in fresh \cap StepKeys : value(key) = key
  BY KeyKinds DEF fresh
<1>9. \A key \in fresh \cap EventKeys : value(key) = Uuid(minted + place(key))
  BY KeyKinds DEF fresh
<1> HIDE DEF value
<1>10. \A key \in fresh \cap EventKeys : \E i \in 1 .. count : value(key) = Uuid(minted + i)
  BY <1>3, <1>9
<1>11. ASSUME NEW k \in fresh \cap EventKeys, NEW l \in fresh \cap EventKeys, value(k) = value(l)
       PROVE  k = l
  <2>1. minted + place(k) \in Nat /\ minted + place(l) \in Nat
    BY <1>2, <1>3
  <2>2. minted + place(k) = minted + place(l)
    BY <1>9, <1>11, <2>1, UuidFacts
  <2>3. place(k) = place(l)
    BY <1>2, <1>3, <2>2
  <2> QED
    BY <1>3, <2>3
<1>12. DOMAIN new = DOMAIN ids \cup keys /\ \A key \in DOMAIN ids \cup keys : new[key] = value(key)
  OBVIOUS
<1>13. DOMAIN ids \cup keys = DOMAIN ids \cup fresh /\ fresh \subseteq IdKeys
  BY DEF fresh
<1>14. \A key \in DOMAIN ids \cup keys : value(key) \in StepKeys \cup ActionIds
  <2>1. ASSUME NEW key \in fresh \cap EventKeys PROVE value(key) \in ActionIds
    <3>1. PICK i \in 1 .. count : value(key) = Uuid(minted + i)
      BY <1>10
    <3>2. minted + i \in Nat
      BY <1>2
    <3> QED
      BY <3>1, <3>2, UuidFacts
  <2> QED
    BY <1>5, <1>7, <1>8, <1>13, <2>1 DEF IdKeys
<1>15. new \in [DOMAIN ids \cup keys -> StepKeys \cup ActionIds] /\ DOMAIN ids \cup keys \in SUBSET IdKeys
  BY <1>5, <1>13, <1>14
<1>16. \A key \in (DOMAIN ids \cup keys) \cap StepKeys : value(key) = key
  BY <1>6, <1>7, <1>8, <1>13
<1>17. ASSUME NEW key \in (DOMAIN ids \cup keys) \cap EventKeys
       PROVE  \E i \in 1 .. minted + count : value(key) = Uuid(i)
  <2>1. CASE key \in DOMAIN ids
    <3>1. PICK i \in 1 .. minted : ids[key] = Uuid(i)
      BY <1>6, <2>1
    <3>2. i \in 1 .. minted + count
      BY <1>2
    <3> QED
      BY <1>7, <2>1, <3>1, <3>2
  <2>2. CASE key \in fresh
    <3>1. PICK i \in 1 .. count : value(key) = Uuid(minted + i)
      BY <1>10, <2>2
    <3>2. minted + i \in 1 .. minted + count
      BY <1>2
    <3> QED
      BY <3>1, <3>2
  <2> QED
    BY <1>13, <2>1, <2>2
<1> HIDE DEF new
<1>18. new \in IdMaps(minted + count)
  BY <1>12, <1>15, <1>16, <1>17 DEF IdMaps
<1>19. \A key \in DOMAIN ids \cup fresh : new[key] = value(key)
  BY <1>12, <1>13
<1>20. Allocated(new, ids, fresh, count)
  BY <1>7, <1>8, <1>10, <1>11, <1>12, <1>13, <1>19 DEF Allocated
<1> QED
  BY <1>1, <1>2, <1>18, <1>20 DEF fresh, count

\* A set of numbers has a least one.
LEMMA Least ==
    ASSUME NEW S \in SUBSET Nat, S # {} PROVE \E x \in S : \A y \in S : x <= y
<1> DEFINE T == {n \in Nat : \A k \in 0 .. n : k \notin S}
<1>1. SUFFICES ASSUME \A x \in S : \E y \in S : ~(x <= y) PROVE FALSE
  OBVIOUS
<1>2. 0 \in T
  <2>1. 0 \notin S
    BY <1>1
  <2> QED
    BY <2>1
<1>3. ASSUME NEW n \in Nat, n \in T PROVE n + 1 \in T
  <2>1. n + 1 \notin S
    <3>1. ASSUME n + 1 \in S PROVE FALSE
      <4>1. PICK y \in S : ~(n + 1 <= y)
        BY <1>1, <3>1
      <4>2. y \in 0 .. n
        BY <4>1
      <4> QED
        BY <1>3, <4>2
    <3> QED
      BY <3>1
  <2>2. 0 .. n + 1 = (0 .. n) \cup {n + 1}
    OBVIOUS
  <2> QED
    BY <1>3, <2>1, <2>2
<1> HIDE DEF T
<1>4. Nat \subseteq T
  BY <1>2, <1>3, Induction
<1>5. PICK x \in S : TRUE
  OBVIOUS
<1>6. x \in Nat /\ x \in 0 .. x
  OBVIOUS
<1> QED
  BY <1>4, <1>5, <1>6 DEF T

\* A step that is controlled has a first command.
LEMMA FirstCommandTyped ==
    ASSUME NEW m \in Models, NEW s, CommandsOf(m, s) # {}
    PROVE  /\ FirstCommand(m, s) \in CommandsOf(m, s) /\ FirstCommand(m, s) \in DOMAIN m.commands
           /\ \A k \in CommandsOf(m, s) : FirstCommand(m, s) <= k
<1>1. m.commands \in Seq(Commands)
  BY ModelFields
<1>2. DOMAIN m.commands \in SUBSET Nat
  BY <1>1
<1>3. CommandsOf(m, s) \in SUBSET Nat /\ CommandsOf(m, s) \subseteq DOMAIN m.commands
  BY <1>2 DEF CommandsOf
<1>4. \E k \in CommandsOf(m, s) : \A j \in CommandsOf(m, s) : k <= j
  BY <1>3, Least
<1> QED
  BY <1>3, <1>4 DEF FirstCommand

\* The image of a finite set is finite.
LEMMA Imaged ==
    ASSUME NEW S, IsFiniteSet(S), NEW f, f = [x \in S |-> f[x]] PROVE IsFiniteSet({f[x] : x \in S})
<1> DEFINE T == {f[x] : x \in S}
<1>1. f \in [S -> T] /\ \A t \in T : \E s \in S : f[s] = t
  OBVIOUS
<1>2. f \in Surjection(S, T)
  BY <1>1 DEF Surjection
<1> HIDE DEF T
<1>3. IsFiniteSet(T)
  BY <1>2, FS_Surjection
<1> QED
  BY <1>3 DEF T

\* The keys a build asks for.
LEMMA KeysTyped ==
    ASSUME NEW m \in Models
    PROVE  Keys(m) \in SUBSET IdKeys /\ IsFiniteSet(Keys(m)) /\ \A n : <<"action", n>> \notin Keys(m)
<1> DEFINE D == DOMAIN m.steps
           steps == [s \in D |-> <<"step", s>>]
           controls == [s \in Controlled(m) |-> <<"control", m.commands[FirstCommand(m, s)].command>>]
           whole == {key \in {<<"workflow-action">>} : Executes(m)}
<1>1. Keys(m) = {steps[s] : s \in D} \cup {controls[s] : s \in Controlled(m)} \cup whole
  BY DEF Keys
<1>2. D \subseteq Names.steps
  <2>1. m.steps \in StepMaps
    BY ModelFields
  <2> QED
    BY <2>1 DEF StepMaps
<1>3. IsFiniteSet(D)
  BY <1>2, FS_Subset, ConstantsAssumption
<1>4. Controlled(m) \subseteq D
  BY DEF Controlled
<1>5. IsFiniteSet(Controlled(m))
  <2> HIDE DEF D
  <2> QED
    BY <1>3, <1>4, FS_Subset
<1>6. ASSUME NEW s \in Controlled(m) PROVE m.commands[FirstCommand(m, s)].command \in Nat
  <2>1. FirstCommand(m, s) \in DOMAIN m.commands /\ m.commands \in Seq(Commands)
    BY FirstCommandTyped, ModelFields DEF Controlled
  <2>2. m.commands[FirstCommand(m, s)] \in Commands
    BY <2>1
  <2> QED
    BY <2>2 DEF Commands
<1>7. {steps[s] : s \in D} \subseteq StepKeys
  BY <1>2 DEF StepKeys
<1>8. {controls[s] : s \in Controlled(m)} \subseteq EventKeys
  BY <1>6 DEF EventKeys
<1>9. whole \subseteq EventKeys
  BY DEF EventKeys
<1>10. steps = [s \in D |-> steps[s]] /\ controls = [s \in Controlled(m) |-> controls[s]]
  OBVIOUS
<1>11. \A n : <<"action", n>> \notin {steps[s] : s \in D} /\ <<"action", n>> \notin {controls[s] : s \in Controlled(m)}
              /\ <<"action", n>> \notin whole
  OBVIOUS
<1> HIDE DEF D, steps, controls
<1>12. IsFiniteSet({steps[s] : s \in D})
  BY <1>3, <1>10, Imaged
<1>13. IsFiniteSet({controls[s] : s \in Controlled(m)})
  BY <1>5, <1>10, Imaged
<1>14. IsFiniteSet(whole)
  <2>1. IsFiniteSet({<<"workflow-action">>})
    BY FS_Singleton
  <2> QED
    BY <2>1, FS_Subset
<1> HIDE DEF whole
<1>15. IsFiniteSet({steps[s] : s \in D} \cup {controls[s] : s \in Controlled(m)})
  BY <1>12, <1>13, FS_Union
<1>16. IsFiniteSet(Keys(m))
  BY <1>1, <1>14, <1>15, FS_Union
<1> QED
  BY <1>1, <1>7, <1>8, <1>9, <1>11, <1>16 DEF IdKeys

-----------------------------------------------------------------------------
(* Types of the state.                                                      *)

Runners(n) == [command : Nat, ids : IdMaps(n)]
Builders(n) == [open : Flags, through : Nat, ids : IdMaps(n), built : Builds]

TypeInv ==
    /\ journal \in Seq(Events)
    /\ disk \in SUBSET Paths
    /\ minted \in Nat
    /\ idMap \in IdMaps(minted)
    /\ runner \in Runners(minted)
    /\ requested \in Requests
    /\ builder \in Builders(minted) /\ builder.through <= Len(journal)
    /\ crate.through \in 0 .. Len(journal) /\ crate.profile \in Profiles

\* An event that starts no command.
OtherEvents == {e \in Events : e.type # "execution.command.started"}

\* The events of commands that end are of commands that started.
Ending(e) == e.type = "execution.command.terminal" => \E i \in Started : journal[i].command = e.command

Recording ==
    /\ \E e \in OtherEvents : journal' = Append(journal, e) /\ Ending(e)
    /\ disk' \in SUBSET Paths
    /\ UNCHANGED <<idMap, minted, runner, requested, builder, copied, crate>>

\* A declaration is an event.
LEMMA DeclarationTyped ==
    ASSUME NEW d \in Calls, NEW existing PROVE Declaration(d, existing) \in DeclarationEvents
BY DEF Calls, Declaration, DeclarationEvents

\* So is everything else that is recorded.
LEMMA OtherTyped ==
    /\ DeclarationEvents \subseteq OtherEvents
    /\ PhaseEvents \subseteq OtherEvents
    /\ StepStartEvents \subseteq OtherEvents
    /\ StepEndEvents \subseteq OtherEvents
    /\ EndEvents \subseteq OtherEvents
    /\ FileEvents \subseteq OtherEvents
    /\ ToolEvents \subseteq OtherEvents
    /\ TaskEvents \subseteq OtherEvents
    /\ ResultEvents \subseteq OtherEvents
    /\ AbortEvents \subseteq OtherEvents
<1>1. \A e \in DeclarationEvents : e.type \in {"workflow.input.declared", "workflow.output.declared"}
  BY DEF DeclarationEvents
<1>2. \A e \in PhaseEvents : e.type \in {"workflow.phase.started", "workflow.phase.completed"}
  BY DEF PhaseEvents
<1>3. \A e \in StepStartEvents \cup StepEndEvents : e.type \in {"workflow.step.started", "workflow.step.terminal"}
  BY DEF StepStartEvents, StepEndEvents
<1>4. \A e \in EndEvents \cup FileEvents \cup ToolEvents :
        e.type \in {"execution.command.terminal", "file", "tool.completed"}
  BY DEF EndEvents, FileEvents, ToolEvents
<1>5. \A e \in TaskEvents \cup ResultEvents \cup AbortEvents :
        e.type \in {"agent.task", "human.result", "run.aborted"}
  BY DEF TaskEvents, ResultEvents, AbortEvents
<1> QED
  BY <1>1, <1>2, <1>3, <1>4, <1>5 DEF OtherEvents, Events

\* An event that is not of a command that ends.
LEMMA NotEnding ==
    ASSUME NEW e, e.type # "execution.command.terminal" PROVE Ending(e)
BY DEF Ending

\* The names of the agent are strings.
LEMMA NamesTyped ==
    /\ Names.phases \subseteq STRING /\ Names.steps \subseteq STRING /\ Names.tools \subseteq STRING
    /\ Names.tasks \subseteq STRING /\ Names.results \subseteq BOOLEAN
BY ConstantsAssumption

\* A started command's event.
LEMMA StartedTyped ==
    ASSUME journal \in Seq(Events), NEW i \in Started PROVE journal[i] \in StartEvents /\ i \in 1 .. Len(journal)
<1>1. i \in DOMAIN journal /\ journal[i].type = "execution.command.started"
  BY DEF Started
<1>2. journal[i] \in Events /\ i \in 1 .. Len(journal)
  BY <1>1
<1> QED
  BY <1>1, <1>2, EventFields

\* An event recorded without more.
LEMMA RecordedOnly ==
    ASSUME NEW e \in OtherEvents, Ending(e), RecordOnly(e), disk \in SUBSET Paths
    PROVE  Recording
<1>1. journal' = Append(journal, e) /\ disk' \in SUBSET Paths
      /\ UNCHANGED <<idMap, minted, runner, requested, builder, copied, crate>>
  BY DEF RecordOnly, Record
<1> QED
  BY <1>1 DEF Recording

\* Most steps record an event.
LEMMA NextCases ==
    ASSUME TypeInv, [Next]_vars
    PROVE  \/ UNCHANGED vars
           \/ Recording
           \/ CommandLoad
           \/ \E line \in CommandLines, step \in Names.steps \cup {NoStep} : CommandStart(line, step)
           \/ \E request \in Requests : Open(request)
           \/ Write
<1> USE DEF TypeInv
<1>1. CASE UNCHANGED vars
  BY <1>1
<1>2. ASSUME NEW d \in Declarations, Declare(d) PROVE Recording
  <2>1. d \in Calls
    BY ConstantsAssumption
  <2> DEFINE e == Declaration(d, disk)
  <2>2. e \in DeclarationEvents
    BY <2>1, DeclarationTyped
  <2>3. RecordOnly(e)
    BY <1>2 DEF Declare
  <2> HIDE DEF e
  <2>4. e.type # "execution.command.terminal" /\ e \in OtherEvents
    BY <2>2, OtherTyped DEF DeclarationEvents
  <2> QED
    BY <2>3, <2>4, NotEnding, RecordedOnly
<1>3. ASSUME NEW name \in Names.phases, PhaseStart(name) \/ PhaseComplete(name) PROVE Recording
  <2>1. PICK e \in PhaseEvents : RecordOnly(e)
    <3>1. name \in STRING
      BY NamesTyped
    <3>2. /\ [type |-> "workflow.phase.started", name |-> name] \in PhaseEvents
          /\ [type |-> "workflow.phase.completed", name |-> name] \in PhaseEvents
      BY <3>1 DEF PhaseEvents
    <3> QED
      BY <1>3, <3>2 DEF PhaseStart, PhaseComplete
  <2>2. e.type # "execution.command.terminal" /\ e \in OtherEvents
    BY OtherTyped DEF PhaseEvents
  <2> QED
    BY <2>1, <2>2, NotEnding, RecordedOnly
<1>4. ASSUME NEW step \in Names.steps, StepStart(step) PROVE Recording
  <2> DEFINE e == [type |-> "workflow.step.started", step |-> step]
  <2>1. e \in StepStartEvents /\ e.type # "execution.command.terminal"
    BY DEF StepStartEvents
  <2>2. RecordOnly(e)
    BY <1>4 DEF StepStart
  <2> HIDE DEF e
  <2> QED
    BY <2>1, <2>2, OtherTyped, NotEnding, RecordedOnly
<1>5. ASSUME NEW step \in Names.steps, NEW status \in StepTerminals, StepEnd(step, status) PROVE Recording
  <2> DEFINE e == [type |-> "workflow.step.terminal", step |-> step, status |-> status]
  <2>1. e \in StepEndEvents /\ e.type # "execution.command.terminal"
    BY DEF StepEndEvents
  <2>2. RecordOnly(e)
    BY <1>5 DEF StepEnd
  <2> HIDE DEF e
  <2> QED
    BY <2>1, <2>2, OtherTyped, NotEnding, RecordedOnly
<1>6. ASSUME NEW i \in Started, CommandBlocked(i) PROVE Recording
  <2> DEFINE e == Terminal(journal[i].command, "blocked")
  <2>1. journal[i] \in StartEvents
    BY StartedTyped
  <2>2. e \in EndEvents /\ Ending(e)
    BY <2>1 DEF EndEvents, StartEvents, Terminal, Ending
  <2>3. RecordOnly(e)
    BY <1>6 DEF CommandBlocked
  <2> HIDE DEF e
  <2> QED
    BY <2>2, <2>3, OtherTyped, RecordedOnly
<1>7. ASSUME NEW i \in Started, NEW status \in {"completed", "failed"}, NEW done \in SUBSET Paths,
             CommandEnd(i, status, done)
      PROVE  Recording
  <2> DEFINE e == Terminal(journal[i].command, status)
  <2>1. journal[i] \in StartEvents
    BY StartedTyped
  <2>2. e \in EndEvents /\ Ending(e)
    BY <2>1 DEF EndEvents, StartEvents, Terminal, Ending
  <2>3. /\ journal' = Append(journal, e) /\ disk' \in SUBSET Paths
        /\ UNCHANGED <<idMap, minted, runner, requested, builder, copied, crate>>
    BY <1>7 DEF CommandEnd, Record
  <2> HIDE DEF e
  <2> QED
    BY <2>2, <2>3, OtherTyped DEF Recording
<1>8. ASSUME NEW edit \in Edits, Edit(edit) PROVE Recording
  <2> DEFINE e == [type |-> "file", path |-> edit.path, op |-> edit.op]
  <2>1. edit \in [path : Paths, op : STRING]
    BY ConstantsAssumption
  <2>2. e \in FileEvents /\ e.type # "execution.command.terminal"
    BY <2>1 DEF FileEvents
  <2>3. /\ journal' = Append(journal, e) /\ disk' \in SUBSET Paths
        /\ UNCHANGED <<idMap, minted, runner, requested, builder, copied, crate>>
    BY <1>8, <2>1 DEF Edit, Record
  <2> HIDE DEF e
  <2> QED
    BY <2>2, <2>3, OtherTyped, NotEnding DEF Recording
<1>9. ASSUME NEW tool \in Names.tools, ToolCompleted(tool) PROVE Recording
  <2> DEFINE e == [type |-> "tool.completed", tool |-> tool]
  <2>1. e \in ToolEvents /\ e.type # "execution.command.terminal"
    BY NamesTyped DEF ToolEvents
  <2>2. RecordOnly(e)
    BY <1>9 DEF ToolCompleted
  <2> HIDE DEF e
  <2> QED
    BY <2>1, <2>2, OtherTyped, NotEnding, RecordedOnly
<1>10. ASSUME NEW task \in Names.tasks, Subagent(task) PROVE Recording
  <2> DEFINE e == [type |-> "agent.task", task |-> task]
  <2>1. e \in TaskEvents /\ e.type # "execution.command.terminal"
    BY NamesTyped DEF TaskEvents
  <2>2. RecordOnly(e)
    BY <1>10 DEF Subagent
  <2> HIDE DEF e
  <2> QED
    BY <2>1, <2>2, OtherTyped, NotEnding, RecordedOnly
<1>11. ASSUME NEW accepted \in Names.results, RecordResult(accepted) PROVE Recording
  <2> DEFINE e == [type |-> "human.result", accepted |-> accepted]
  <2>1. e \in ResultEvents /\ e.type # "execution.command.terminal"
    BY NamesTyped DEF ResultEvents
  <2>2. RecordOnly(e)
    BY <1>11 DEF RecordResult
  <2> HIDE DEF e
  <2> QED
    BY <2>1, <2>2, OtherTyped, NotEnding, RecordedOnly
<1>12. ASSUME Abort PROVE Recording
  <2> DEFINE e == [type |-> "run.aborted"]
  <2>1. e \in AbortEvents /\ e.type # "execution.command.terminal"
    BY DEF AbortEvents
  <2>2. RecordOnly(e)
    BY <1>12 DEF Abort
  <2> HIDE DEF e
  <2> QED
    BY <2>1, <2>2, OtherTyped, NotEnding, RecordedOnly
<1> QED
  BY <1>1, <1>2, <1>3, <1>4, <1>5, <1>6, <1>7, <1>8, <1>9, <1>10, <1>11, <1>12 DEF Next

\* The empty map, a runner that is none and an idle builder have their types.
LEMMA IdleTyped ==
    ASSUME NEW n \in Nat
    PROVE  <<>> \in IdMaps(n) /\ NoRunner \in Runners(n) /\ Idle \in Builders(n) /\ Idle.through = 0
           /\ Idle.open = FALSE /\ Idle.ids = <<>> /\ NoRunner.command = 0 /\ NoRunner.ids = <<>>
<1>1. <<>> \in IdMaps(n)
  <2>1. <<>> \in [{} -> StepKeys \cup ActionIds] /\ DOMAIN <<>> = {}
    OBVIOUS
  <2> QED
    BY <2>1 DEF IdMaps
<1>2. BuildModel(<<>>, 0, "auto", {}) \in Builds
  <2>1. <<>> \in Seq(Events) /\ 0 \in 0 .. Len(<<>>)
    OBVIOUS
  <2> QED
    BY <2>1, BuildTyped
<1> QED
  BY <1>1, <1>2 DEF NoRunner, Runners, Idle, Builders, Flags

\* Growing the number of uuids keeps the types.
LEMMA HoldersGrow ==
    ASSUME NEW n \in Nat, NEW k \in Nat, n <= k
    PROVE  Runners(n) \subseteq Runners(k) /\ Builders(n) \subseteq Builders(k)
BY IdMapsGrow DEF Runners, Builders

\* What the id map of a starting command becomes.
LEMMA StartAllocates ==
    ASSUME minted \in Nat, runner \in Runners(minted)
    PROVE  LET key == <<"action", runner.command>>
               ids == Allocate(runner.ids, {key})
           IN  /\ ids \in IdMaps(minted + 1)
               /\ ids[key] \in ActionIds
               /\ DOMAIN ids = DOMAIN runner.ids \cup {key}
               /\ \A k \in DOMAIN runner.ids : ids[k] = runner.ids[k]
               /\ key \notin DOMAIN runner.ids => ids[key] = Uuid(minted + 1)
<1> DEFINE key == <<"action", runner.command>>
           fresh == {key} \ DOMAIN runner.ids
           count == Cardinality(fresh)
           ids == Allocate(runner.ids, {key})
<1>1. runner.command \in Nat /\ runner.ids \in IdMaps(minted)
  BY DEF Runners
<1>2. key \in EventKeys
  BY <1>1 DEF EventKeys
<1>3. {key} \in SUBSET IdKeys
  BY <1>2 DEF IdKeys
<1> HIDE DEF key
<1>4. IsFiniteSet({key}) /\ Cardinality({key}) = 1
  BY FS_Singleton
<1>5. IsFiniteSet(fresh) /\ count <= 1
  BY <1>4, FS_Subset
<1>6. /\ count \in Nat
      /\ Allocated(ids, runner.ids, fresh, count)
      /\ ids \in IdMaps(minted + count)
  BY <1>1, <1>3, <1>5, AllocateFacts
<1>7. ids \in IdMaps(minted + 1)
  BY <1>5, <1>6, IdMapsGrow
<1> HIDE DEF ids, count
<1>8. /\ DOMAIN ids = DOMAIN runner.ids \cup fresh
      /\ \A k \in DOMAIN runner.ids : ids[k] = runner.ids[k]
      /\ \A k \in fresh \cap EventKeys : \E i \in 1 .. count : ids[k] = Uuid(minted + i)
  BY <1>6 DEF Allocated
<1>9. DOMAIN ids = DOMAIN runner.ids \cup {key}
  BY <1>8
<1>10. key \notin DOMAIN runner.ids => ids[key] = Uuid(minted + 1)
  <2>1. ASSUME key \notin DOMAIN runner.ids PROVE ids[key] = Uuid(minted + 1)
    <3>1. PICK i \in 1 .. count : ids[key] = Uuid(minted + i)
      BY <1>2, <1>8, <2>1
    <3>2. i = 1
      BY <1>5, <1>6
    <3> QED
      BY <3>1, <3>2
  <2> QED
    BY <2>1
<1>11. ids[key] \in ActionIds
  <2>1. PICK i \in 1 .. minted + 1 : ids[key] = Uuid(i)
    BY <1>2, <1>7, <1>9 DEF IdMaps
  <2>2. i \in Nat
    OBVIOUS
  <2> QED
    BY <2>1, <2>2, UuidFacts
<1> QED
  BY <1>7, <1>8, <1>9, <1>10, <1>11 DEF ids, key

\* What the id map of a build becomes.
LEMMA BuildAllocates ==
    ASSUME minted \in Nat, builder \in Builders(minted)
    PROVE  LET keys == Keys(builder.built.model)
               fresh == keys \ DOMAIN builder.ids
               ids == Allocate(builder.ids, keys)
           IN  /\ builder.built.model \in Models
               /\ Cardinality(fresh) \in Nat
               /\ ids \in IdMaps(minted + Cardinality(fresh))
               /\ Allocated(ids, builder.ids, fresh, Cardinality(fresh))
<1>1. builder.ids \in IdMaps(minted) /\ builder.built.model \in Models
  BY DEF Builders, Builds
<1> DEFINE keys == Keys(builder.built.model)
<1>2. keys \in SUBSET IdKeys /\ IsFiniteSet(keys)
  BY <1>1, KeysTyped
<1> HIDE DEF keys
<1>3. IsFiniteSet(keys \ DOMAIN builder.ids)
  BY <1>2, FS_Subset
<1>4. /\ Cardinality(keys \ DOMAIN builder.ids) \in Nat
      /\ Allocated(Allocate(builder.ids, keys), builder.ids, keys \ DOMAIN builder.ids,
                   Cardinality(keys \ DOMAIN builder.ids))
      /\ Allocate(builder.ids, keys) \in IdMaps(minted + Cardinality(keys \ DOMAIN builder.ids))
  BY <1>1, <1>2, <1>3, AllocateFacts
<1> QED
  BY <1>1, <1>4 DEF keys

\* The started event of a command.
StartEvent(line, step, action) ==
    [type |-> "execution.command.started", command |-> runner.command, action |-> action,
     tool |-> line.tool, step |-> step, inputs |-> line.inputs, outputs |-> line.outputs]

\* It is one.
LEMMA StartTyped ==
    ASSUME minted \in Nat, runner \in Runners(minted), NEW line \in CommandLines,
           NEW step \in Names.steps \cup {NoStep}, NEW action \in ActionIds
    PROVE  StartEvent(line, step, action) \in StartEvents /\ StartEvent(line, step, action) \in Events
<1>1. line \in [tool : STRING, inputs : SUBSET Paths, outputs : SUBSET Paths]
  BY ConstantsAssumption
<1>2. runner.command \in Nat
  BY DEF Runners
<1>3. StartEvent(line, step, action) \in StartEvents
  BY <1>1, <1>2 DEF StartEvent, StartEvents
<1> QED
  BY <1>3 DEF Events

\* The run begins in a typed state.
LEMMA TypeInit == ASSUME Init PROVE TypeInv
<1>1. PICK calls \in Prologues : journal = [i \in DOMAIN calls |-> Declaration(calls[i], Initially)]
  BY DEF Init
<1>2. calls \in Seq(Calls)
  BY ConstantsAssumption
<1>3. \A i \in DOMAIN calls : journal[i] \in DeclarationEvents
  BY <1>1, <1>2, DeclarationTyped
<1>4. journal \in Seq(DeclarationEvents)
  BY <1>1, <1>2, <1>3
<1>5. journal \in Seq(Events)
  BY <1>4 DEF Events
<1>6. /\ disk \in SUBSET Paths /\ minted = 0 /\ idMap = <<>> /\ runner = NoRunner
      /\ requested \in Requests /\ builder = Idle
  BY ConstantsAssumption DEF Init
<1>7. crate = NoCrate /\ NoCrate.through = 0 /\ NoCrate.profile \in Profiles
  BY DEF Init, NoCrate, Profiles
<1>8. Len(journal) \in Nat
  BY <1>5
<1>9. <<>> \in IdMaps(0) /\ NoRunner \in Runners(0) /\ Idle \in Builders(0) /\ Idle.through = 0
  BY IdleTyped
<1> QED
  BY <1>5, <1>6, <1>7, <1>8, <1>9 DEF TypeInv

\* Every step keeps it.
LEMMA TypeNext == ASSUME TypeInv, [Next]_vars PROVE TypeInv'
<1> USE DEF TypeInv
<1>1. CASE UNCHANGED vars
  BY <1>1 DEF vars
<1>2. CASE Recording
  <2>1. PICK e \in OtherEvents : journal' = Append(journal, e)
    BY <1>2 DEF Recording
  <2>2. e \in Events
    BY DEF OtherEvents
  <2>3. journal' \in Seq(Events) /\ Len(journal') = Len(journal) + 1
    BY <2>1, <2>2
  <2>4. builder.through \in Nat
    BY DEF Builders
  <2> QED
    BY <1>2, <2>3, <2>4 DEF Recording
<1>3. CASE CommandLoad
  <2>1. runner' = [command |-> Len(journal) + 1, ids |-> idMap]
        /\ UNCHANGED <<journal, disk, idMap, minted, requested, builder, copied, crate>>
    BY <1>3 DEF CommandLoad
  <2>2. runner' \in Runners(minted)
    BY <2>1 DEF Runners
  <2> QED
    BY <2>1, <2>2
<1>4. ASSUME NEW line \in CommandLines, NEW step \in Names.steps \cup {NoStep}, CommandStart(line, step)
      PROVE  TypeInv'
  <2> DEFINE key == <<"action", runner.command>>
             ids == Allocate(runner.ids, {key})
             e == StartEvent(line, step, ids[key])
  <2>1. ids \in IdMaps(minted + 1) /\ ids[key] \in ActionIds
    BY StartAllocates
  <2>2. /\ journal' = Append(journal, e) /\ idMap' = ids /\ minted' = minted + 1 /\ runner' = NoRunner
        /\ UNCHANGED <<disk, requested, builder, copied, crate>>
    BY <1>4 DEF CommandStart, StartEvent
  <2> HIDE DEF ids
  <2>3. e \in Events
    BY <2>1, StartTyped
  <2> HIDE DEF e
  <2>4. journal' \in Seq(Events) /\ Len(journal') = Len(journal) + 1
    BY <2>2, <2>3
  <2>5. minted + 1 \in Nat /\ builder \in Builders(minted + 1) /\ NoRunner \in Runners(minted + 1)
    <3>1. minted + 1 \in Nat /\ minted <= minted + 1
      OBVIOUS
    <3>2. Builders(minted) \subseteq Builders(minted + 1)
      BY <3>1, HoldersGrow
    <3>3. NoRunner \in Runners(minted + 1)
      BY <3>1, IdleTyped
    <3> QED
      BY <3>1, <3>2, <3>3
  <2>6. builder.through \in Nat
    BY DEF Builders
  <2> QED
    BY <2>1, <2>2, <2>4, <2>5, <2>6
<1>5. ASSUME NEW request \in Requests, Open(request) PROVE TypeInv'
  <2>1. /\ requested' \in Requests
        /\ builder' = [open |-> TRUE, through |-> Len(journal), ids |-> idMap,
                       built |-> BuildModel(journal, Len(journal), requested', disk)]
        /\ UNCHANGED <<journal, disk, idMap, minted, runner, copied, crate>>
    BY <1>5 DEF Open
  <2>2. BuildModel(journal, Len(journal), requested', disk) \in Builds
    <3>1. Len(journal) \in 0 .. Len(journal)
      OBVIOUS
    <3> QED
      BY <3>1, BuildTyped
  <2>3. builder' \in Builders(minted) /\ builder'.through <= Len(journal)
    BY <2>1, <2>2 DEF Builders, Flags
  <2> QED
    BY <2>1, <2>3
<1>6. CASE Write
  <2> DEFINE keys == Keys(builder.built.model)
             ids == Allocate(builder.ids, keys)
             more == minted + Cardinality(keys \ DOMAIN builder.ids)
  <2>1. ids \in IdMaps(more) /\ more \in Nat /\ minted <= more
    <3>1. Cardinality(keys \ DOMAIN builder.ids) \in Nat /\ ids \in IdMaps(more)
      BY BuildAllocates
    <3> QED
      BY <3>1
  <2>2. /\ idMap' \in {idMap, ids} /\ minted' = more /\ builder' = Idle
        /\ crate'.through = builder.through /\ crate'.profile = builder.built.profile
        /\ UNCHANGED <<journal, disk, runner, requested>>
    BY <1>6 DEF Write
  <2> HIDE DEF ids, more
  <2>3. idMap \in IdMaps(more) /\ runner \in Runners(more) /\ Idle \in Builders(more) /\ Idle.through = 0
    BY <2>1, IdMapsGrow, HoldersGrow, IdleTyped
  <2>4. builder.through \in 0 .. Len(journal) /\ builder.built.profile \in Profiles
    BY DEF Builders, Builds
  <2> QED
    BY <2>1, <2>2, <2>3, <2>4
<1> QED
  BY <1>1, <1>2, <1>3, <1>4, <1>5, <1>6, NextCases

\* The state of the crate's run has its types, whatever was declared, run and built.
THEOREM CrateTypes == Spec => []TypeInv
BY TypeInit, TypeNext, PTL DEF Spec

-----------------------------------------------------------------------------
(* What is copied.                                                          *)

\* A build copies no sensitive file and none from outside the project.
LEMMA PlansSafe ==
    ASSUME NEW m \in Models, NEW p \in DOMAIN PlanFileInclusion(m), PlanFileInclusion(m)[p].copy
    PROVE  p \notin Sensitive \cup Outside
<1> DEFINE plans == PlanFileInclusion(m)
<1>1. plans \in PlanMaps
  BY PlansFollow
<1> HIDE DEF plans
<1>2. \A q \in DOMAIN plans : plans[q] \in Plans /\ plans[q].path = q
  BY <1>1 DEF PlanMaps
<1>3. \A plan \in Plans : plan.copy => plan.path \notin Sensitive \cup Outside
  BY DEF Plans
<1> QED
  BY <1>2, <1>3 DEF plans

\* No sensitive file and no file outside the project is ever copied into the crate: each
\* plan for a path knows what the path is, and merging plans captures nothing that is
\* sensitive.
THEOREM SensitiveFilesStayOut == Spec => []SensitiveNeverCopied
<1>1. Init => SensitiveNeverCopied
  BY DEF Init, SensitiveNeverCopied
<1>2. TypeInv /\ SensitiveNeverCopied /\ [Next]_vars => SensitiveNeverCopied'
  <2> SUFFICES ASSUME TypeInv, SensitiveNeverCopied, [Next]_vars PROVE SensitiveNeverCopied'
    OBVIOUS
  <2>1. CASE Write
    <3> DEFINE m == builder.built.model
               plans == PlanFileInclusion(m)
    <3>1. m \in Models
      BY DEF TypeInv, Builders, Builds
    <3>2. copied' = copied \cup {p \in DOMAIN plans : plans[p].copy}
      BY <2>1 DEF Write
    <3>3. {p \in DOMAIN plans : plans[p].copy} \cap (Sensitive \cup Outside) = {}
      BY <3>1, PlansSafe
    <3> HIDE DEF plans
    <3> QED
      BY <3>2, <3>3 DEF SensitiveNeverCopied
  <2>2. CASE copied' = copied
    BY <2>2 DEF SensitiveNeverCopied
  <2>3. Write \/ copied' = copied
    BY NextCases DEF vars, Recording, CommandLoad, CommandStart, Open
  <2> QED
    BY <2>1, <2>2, <2>3
<1> QED
  BY <1>1, <1>2, CrateTypes, PTL DEF Spec

-----------------------------------------------------------------------------
(* References resolve.                                                      *)

\* Links that lead into a set of ids, or to no entity.
Lead(links, ids) == \A link \in links : link[1] \in Valued \/ link[2] \in ids

\* An entity whose links do, and a group of them.
Leads(e, ids) == e = Entity(e.id, e.types, e.links) /\ Lead(e.links, ids)
Leading(group, ids) == \A e \in group : Leads(e, ids)

\* Links one by one.
LEMMA LinksLead ==
    ASSUME NEW D
    PROVE  /\ Lead({}, D)
           /\ \A A, B : Lead(A, D) /\ Lead(B, D) => Lead(A \cup B, D)
           /\ \A property, S : (\A x \in S : x \in D) => Lead(Refs(property, S), D)
           /\ \A property, x : x \in D => Lead(Ref(property, x), D)
           /\ \A status : Lead(Status(status), D)
           /\ \A ok : Lead(Finished(ok), D)
<1>1. ASSUME NEW property, NEW S, \A x \in S : x \in D PROVE Lead(Refs(property, S), D)
  BY <1>1 DEF Lead, Refs
<1>2. ASSUME NEW property, NEW x \in D PROVE Lead(Ref(property, x), D)
  BY <1>2 DEF Lead, Ref
<1>3. ASSUME NEW status PROVE Lead(Status(status), D)
  BY DEF Lead, Status, Valued
<1>4. ASSUME NEW ok PROVE Lead(Finished(ok), D)
  BY DEF Lead, Finished, Status, Valued
<1> QED
  BY <1>1, <1>2, <1>3, <1>4 DEF Lead

\* Entities one by one.
LEMMA EntitiesLead ==
    ASSUME NEW D
    PROVE  /\ Leading({}, D)
           /\ \A A, B : Leading(A, D) /\ Leading(B, D) => Leading(A \cup B, D)
           /\ \A id, types, links : Lead(links, D) => Leads(Entity(id, types, links), D)
           /\ \A id, types, links : Lead(links, D) => Leading({Entity(id, types, links)}, D)
           /\ \A id, types : Leads(Entity(id, types, {}), D)
<1>1. ASSUME NEW id, NEW types, NEW links, Lead(links, D)
      PROVE  Leads(Entity(id, types, links), D)
  BY <1>1 DEF Leads, Entity
<1>2. Lead({}, D)
  BY DEF Lead
<1> QED
  BY <1>1, <1>2 DEF Leading

\* The declared paths of a model, and the ids that need no entity: those outside the
\* project, and those declared but ignored.
DeclaredOf(m) ==
    {m.inputs[i].path : i \in DOMAIN m.inputs} \cup {m.outputs[i].path : i \in DOMAIN m.outputs}
Exempt(m) == FilesOf(Outside \cup (Ignored \cap DeclaredOf(m)))

\* What D, the ids a build emits and those that need no entity, has to hold for each
\* section to lead into it.
Holds(m, profile, plans, D) ==
    /\ Root \in D /\ Conformance(profile) \subseteq D
    /\ Actor("human") \in D /\ Actor("rcr") \in D /\ Actor("claude-code") \in D
    /\ m.workflow.engine => Engine \in D
    /\ \A k \in DOMAIN m.commands : Software(m.commands[k].tool) \in D /\ m.commands[k].action \in D
    /\ \A f \in FormalParameters(m, profile).all : f \in D
    /\ \A p \in DOMAIN plans : FileId(p) \in D
    /\ HasWorkflow(m) => WorkflowId(m) \in D
    /\ \A s \in DOMAIN m.steps : <<"step", s>> \in D
    /\ \A p \in UnplannedFiles(m, plans) : FileId(p) \in D
    /\ EmittedEdits(m, plans) # {} => Software("editor") \in D
    /\ \A i \in DOMAIN m.shells : Software(m.shells[i].tool) \in D
    /\ \A a \in Timeline(m, plans) : <<"wfstep", Place(a, Timeline(m, plans))>> \in D /\ a[2] \in D
    /\ Exempt(m) \subseteq D

\* The files a model names.
LEMMA FilesLead ==
    ASSUME NEW m \in Models, NEW profile, NEW D,
           Holds(m, profile, PlanFileInclusion(m), D)
    PROVE  /\ \A p \in DeclaredOf(m) : FileId(p) \in D
           /\ \A k \in DOMAIN m.commands : \A p \in m.commands[k].outputs \cup m.commands[k].inputs :
                  FileId(p) \in D
           /\ \A i \in EmittedEdits(m, PlanFileInclusion(m)) : FileId(m.edits[i].path) \in D
<1> DEFINE plans == PlanFileInclusion(m)
<1>1. /\ \A p \in DOMAIN plans : FileId(p) \in D
      /\ \A p \in UnplannedFiles(m, plans) : FileId(p) \in D
  BY DEF Holds
<1>2. \A p \in Outside \cup (Ignored \cap DeclaredOf(m)) : FileId(p) \in D
  BY DEF Holds, Exempt, FilesOf
<1>3. DOMAIN plans = ConsideredPaths(m) \ (Ignored \ Outside)
  BY PlansFollow
<1>4. DeclaredOf(m) \subseteq ConsideredPaths(m)
  BY DEF DeclaredOf, ConsideredPaths
<1> HIDE DEF plans
<1>5. \A p \in DeclaredOf(m) : FileId(p) \in D
  BY <1>1, <1>2, <1>3, <1>4
<1>6. ASSUME NEW k \in DOMAIN m.commands, NEW p \in m.commands[k].outputs \cup m.commands[k].inputs
      PROVE  FileId(p) \in D
  <2>1. p \in DOMAIN plans \/ p \in Outside \/ p \in UnplannedFiles(m, plans)
    <3> DEFINE files == m.commands[k].outputs \cup (m.commands[k].inputs \ Outside)
    <3>1. files \subseteq UnplannedFiles(m, plans) \cup DOMAIN plans
      <4> DEFINE all == {m.commands[j].outputs \cup (m.commands[j].inputs \ Outside) : j \in DOMAIN m.commands}
      <4>1. files \in all
        OBVIOUS
      <4>2. UnplannedFiles(m, plans) = (UNION all) \ DOMAIN plans
        BY DEF UnplannedFiles
      <4> HIDE DEF all, files
      <4> QED
        BY <4>1, <4>2
    <3>2. p \in files \/ p \in Outside
      OBVIOUS
    <3> QED
      BY <3>1, <3>2
  <2> QED
    BY <1>1, <1>2, <2>1
<1>7. ASSUME NEW i \in EmittedEdits(m, plans) PROVE FileId(m.edits[i].path) \in D
  BY <1>1, <1>6 DEF EmittedEdits, FileIds
<1> QED
  BY <1>5, <1>6, <1>7 DEF plans

\* What the scaffold, the actors, the tools, the parameters and the files refer to.
LEMMA BaseLeads ==
    ASSUME NEW m \in Models, NEW profile, NEW plans, NEW D, Holds(m, profile, plans, D)
    PROVE  /\ Leading(Scaffold(profile), D)
           /\ Leading(Actors(m) \cup Tools(m), D)
           /\ Leading(Formals(FormalParameters(m, profile)), D)
           /\ Leading({Entity(FileId(p), {"File"}, {}) : p \in UnplannedFiles(m, plans)}, D)
<1>1. Leading(Scaffold(profile), D)
  <2>1. Root \in D
    BY DEF Holds
  <2>2. Leading({Entity(<<"descriptor">>, {"CreativeWork"}, Ref("about", Root))}, D)
    BY <2>1, LinksLead, EntitiesLead
  <2>3. Leading({Entity(id, {"Profile"}, {}) : id \in Conformance(profile)}, D)
    BY EntitiesLead DEF Leading
  <2> QED
    BY <2>2, <2>3, EntitiesLead DEF Scaffold
<1>2. Leading(Actors(m) \cup Tools(m), D)
  <2>1. Leading(Tools(m), D)
    BY EntitiesLead DEF Leading, Tools
  <2>2. Leading(Actors(m), D)
    BY EntitiesLead DEF Leading, Actors
  <2> QED
    BY <2>1, <2>2, EntitiesLead
<1>3. Leading(Formals(FormalParameters(m, profile)), D)
  BY EntitiesLead DEF Leading, Formals
<1>4. Leading({Entity(FileId(p), {"File"}, {}) : p \in UnplannedFiles(m, plans)}, D)
  BY EntitiesLead DEF Leading
<1> QED
  BY <1>1, <1>2, <1>3, <1>4

\* The parameter a path stands for is one of the workflow's.
LEMMA FormalsOf ==
    ASSUME NEW m, NEW profile, NEW pair \in FormalParameters(m, profile).of
    PROVE  pair[2] \in FormalParameters(m, profile).all
BY DEF FormalParameters

\* What the planned files and the workflow refer to.
LEMMA WorkflowLeads ==
    ASSUME NEW m \in Models, NEW profile, NEW plans, NEW D, Holds(m, profile, plans, D)
    PROVE  /\ Leading(PlannedFiles(plans, FormalParameters(m, profile)), D)
           /\ Leading(BuildWorkflow(m, FormalParameters(m, profile)), D)
<1> DEFINE formals == FormalParameters(m, profile)
<1>1. \A pair \in formals.of : pair[2] \in D
  BY FormalsOf DEF Holds
<1> HIDE DEF formals
<1>2. ASSUME NEW p \in DOMAIN plans
      PROVE  Leads(FileEntity(plans[p], formals), D)
  <2> DEFINE examples == {<<"exampleOfWork", pair[2]>> : pair \in {q \in formals.of : q[1] = plans[p].path}}
             existence == IF plans[p].sensitive \/ plans[p].existence = "" THEN {}
                          ELSE {<<"existence", <<plans[p].existence>>>>}
  <2>1. Lead(examples, D)
    BY <1>1 DEF Lead
  <2>2. Lead(existence, D)
    <3> DEFINE link == <<"existence", <<plans[p].existence>>>>
    <3>1. link[1] = "existence" /\ existence \subseteq {link}
      OBVIOUS
    <3> HIDE DEF link, existence
    <3> QED
      BY <3>1 DEF Lead, Valued
  <2>3. FileEntity(plans[p], formals) = Entity(FileId(plans[p].path), {"File"}, examples \cup existence)
    BY DEF FileEntity
  <2> HIDE DEF examples, existence
  <2>4. Lead(examples \cup existence, D)
    BY <2>1, <2>2, LinksLead
  <2> QED
    BY <2>3, <2>4, EntitiesLead
<1>3. Leading(PlannedFiles(plans, formals), D)
  BY <1>2 DEF PlannedFiles, Leading
<1>4. Leading(BuildWorkflow(m, formals), D)
  <2>1. CASE ~HasWorkflow(m)
    BY <2>1, EntitiesLead DEF BuildWorkflow
  <2>2. CASE HasWorkflow(m)
    <3> DEFINE formalsOf(items) ==
                   {pair[2] : pair \in {q \in formals.of : \E i \in DOMAIN items : items[i].path = q[1]}}
               types == {"ComputationalWorkflow"} \cup (IF m.workflow.synthetic THEN {} ELSE {"File"})
                            \cup (IF DOMAIN m.steps = {} THEN {} ELSE {"HowTo"})
               tools == Refs("hasPart", {Software(t) : t \in ToolsOf(m)})
               engine == IF m.workflow.engine
                         THEN Ref("programmingLanguage", Engine) \cup Ref("hasPart", Engine) ELSE {}
               inputs == Refs("input", formalsOf(m.inputs))
               outputs == Refs("output", formalsOf(m.outputs))
               steps == Refs("step", {<<"step", s>> : s \in DOMAIN m.steps})
    <3>1. Lead(tools, D)
      <4>1. \A x \in {Software(t) : t \in ToolsOf(m)} : x \in D
        BY DEF Holds, ToolsOf
      <4> QED
        BY <4>1, LinksLead
    <3>2. Lead(engine, D)
      <4>1. CASE m.workflow.engine
        <5>1. Engine \in D
          BY <4>1 DEF Holds
        <5> QED
          BY <4>1, <5>1, LinksLead
      <4>2. CASE ~m.workflow.engine
        BY <4>2, LinksLead
      <4> QED
        BY <4>1, <4>2
    <3>3. Lead(inputs, D) /\ Lead(outputs, D)
      <4>1. (\A x \in formalsOf(m.inputs) : x \in D) /\ (\A x \in formalsOf(m.outputs) : x \in D)
        BY <1>1
      <4> HIDE DEF formalsOf
      <4> QED
        BY <4>1, LinksLead
    <3>4. Lead(steps, D)
      <4>1. \A x \in {<<"step", s>> : s \in DOMAIN m.steps} : x \in D
        BY DEF Holds
      <4> QED
        BY <4>1, LinksLead
    <3>5. BuildWorkflow(m, formals)
             = {Entity(WorkflowId(m), types, tools \cup engine \cup inputs \cup outputs \cup steps)}
      BY <2>2 DEF BuildWorkflow
    <3> HIDE DEF types, tools, engine, inputs, outputs, steps
    <3> DEFINE links == tools \cup engine \cup inputs \cup outputs \cup steps
    <3>6. Lead(links, D)
      BY <3>1, <3>2, <3>3, <3>4, LinksLead
    <3> HIDE DEF links
    <3>7. Leading({Entity(WorkflowId(m), types, links)}, D)
      BY <3>6, EntitiesLead
    <3> QED
      BY <3>5, <3>7 DEF links
  <2> QED
    BY <2>1, <2>2
<1> QED
  BY <1>3, <1>4 DEF formals

\* What the workflow's action refers to.
LEMMA WorkflowActionLeads ==
    ASSUME NEW m \in Models, NEW profile, NEW ids, NEW D,
           Holds(m, profile, PlanFileInclusion(m), D)
    PROVE  Leading(BuildWorkflowAction(m, ids), D)
<1>1. CASE ~Executes(m)
  BY <1>1, EntitiesLead DEF BuildWorkflowAction
<1>2. CASE Executes(m)
  <2> DEFINE failed == \E k \in DOMAIN m.commands : m.commands[k].status = "failed"
             agent == Ref("agent", Actor(IF m.commands = <<>> THEN "claude-code" ELSE "rcr"))
             object == Refs("object", FilesOf({m.inputs[i].path : i \in DOMAIN m.inputs} \ {m.workflow.path}))
             result == Refs("result", FilesOf({m.outputs[i].path : i \in DOMAIN m.outputs}))
             links == Finished(~failed) \cup Ref("instrument", WorkflowId(m)) \cup agent \cup object \cup result
  <2>1. Lead(Ref("instrument", WorkflowId(m)), D)
    <3>1. WorkflowId(m) \in D
      BY <1>2 DEF Holds, Executes
    <3> QED
      BY <3>1, LinksLead
  <2>2. Lead(agent, D)
    <3>1. Actor("claude-code") \in D /\ Actor("rcr") \in D
      BY DEF Holds
    <3> QED
      BY <3>1, LinksLead
  <2>3. \A p \in DeclaredOf(m) : FileId(p) \in D
    BY FilesLead
  <2>4. Lead(object, D)
    <3>1. \A x \in FilesOf({m.inputs[i].path : i \in DOMAIN m.inputs} \ {m.workflow.path}) : x \in D
      BY <2>3 DEF DeclaredOf, FilesOf
    <3> QED
      BY <3>1, LinksLead
  <2>5. Lead(result, D)
    <3>1. \A x \in FilesOf({m.outputs[i].path : i \in DOMAIN m.outputs}) : x \in D
      BY <2>3 DEF DeclaredOf, FilesOf
    <3> QED
      BY <3>1, LinksLead
  <2>6. BuildWorkflowAction(m, ids) = {Entity(ids[<<"workflow-action">>], {"CreateAction"}, links)}
    BY <1>2 DEF BuildWorkflowAction
  <2>7. Lead(links, D)
    <3> HIDE DEF failed, agent, object, result
    <3>1. Lead(Finished(~failed), D)
      BY LinksLead
    <3> QED
      BY <2>1, <2>2, <2>4, <2>5, <3>1, LinksLead
  <2> HIDE DEF links
  <2> QED
    BY <2>6, <2>7, EntitiesLead
<1> QED
  BY <1>1, <1>2

\* What the steps refer to.
LEMMA StepsLead ==
    ASSUME NEW m \in Models, NEW profile, NEW plans, NEW ids, NEW D, Holds(m, profile, plans, D)
    PROVE  Leading(BuildSteps(m, ids), D)
<1> DEFINE example(s) == IF CommandsOf(m, s) # {} THEN {Software(m.commands[FirstCommand(m, s)].tool)}
                         ELSE IF m.workflow.engine THEN {Engine}
                         ELSE IF HasWorkflow(m) THEN {WorkflowId(m)} ELSE {}
           howTo(s) == Entity(<<"step", s>>, {"HowToStep"}, Refs("workExample", example(s)))
           first(s) == m.commands[FirstCommand(m, s)]
           control(s) == Entity(ids[<<"control", first(s).command>>], {"ControlAction"},
                                Status(StepStatus(m.steps[s])) \cup Ref("instrument", <<"step", s>>)
                                \cup Ref("object", first(s).action))
<1>1. ASSUME NEW s, CommandsOf(m, s) # {}
      PROVE  Software(first(s).tool) \in D /\ first(s).action \in D
  <2>1. FirstCommand(m, s) \in DOMAIN m.commands
    BY <1>1, FirstCommandTyped
  <2> QED
    BY <2>1 DEF Holds
<1>2. ASSUME NEW s PROVE \A x \in example(s) : x \in D
  <2>1. (m.workflow.engine => Engine \in D) /\ (HasWorkflow(m) => WorkflowId(m) \in D)
    BY DEF Holds
  <2> QED
    BY <1>1, <2>1
<1>3. ASSUME NEW s PROVE Leads(howTo(s), D)
  <2> HIDE DEF example
  <2>1. Lead(Refs("workExample", example(s)), D)
    BY <1>2, LinksLead
  <2> QED
    BY <2>1, EntitiesLead
<1>4. ASSUME NEW s \in Controlled(m) PROVE Leads(control(s), D)
  <2>1. s \in DOMAIN m.steps /\ CommandsOf(m, s) # {}
    BY DEF Controlled
  <2>2. <<"step", s>> \in D /\ first(s).action \in D
    BY <1>1, <2>1 DEF Holds
  <2> DEFINE links == Status(StepStatus(m.steps[s])) \cup Ref("instrument", <<"step", s>>)
                      \cup Ref("object", first(s).action)
  <2>3. Lead(links, D)
    <3> HIDE DEF first
    <3> QED
      BY <2>2, LinksLead
  <2> HIDE DEF links
  <2>4. Leads(Entity(ids[<<"control", first(s).command>>], {"ControlAction"}, links), D)
    BY <2>3, EntitiesLead
  <2> QED
    BY <2>4 DEF links
<1>5. BuildSteps(m, ids) = {howTo(s) : s \in DOMAIN m.steps} \cup {control(s) : s \in Controlled(m)}
  BY DEF BuildSteps
<1> HIDE DEF howTo, control
<1> QED
  BY <1>3, <1>4, <1>5 DEF Leading

\* What the command actions refer to.
LEMMA CommandsLead ==
    ASSUME NEW m \in Models, NEW profile, NEW D,
           Holds(m, profile, PlanFileInclusion(m), D)
    PROVE  Leading(UNION {BuildCommandAction(m.commands[k]) : k \in DOMAIN m.commands}, D)
<1>1. ASSUME NEW k \in DOMAIN m.commands PROVE Leading(BuildCommandAction(m.commands[k]), D)
  <2> DEFINE c == m.commands[k]
             object == Refs("object", FilesOf(c.inputs))
             result == Refs("result", FilesOf(c.outputs))
             links == Finished(c.status = "completed") \cup Ref("agent", Actor("human"))
                      \cup Ref("instrument", Software(c.tool)) \cup object \cup result
             action == Entity(c.action, {CommandActionType(c)}, links)
             log == Entity(<<"log", c.command>>, {"File"}, Ref("about", c.action))
  <2>1. Actor("human") \in D /\ Software(c.tool) \in D /\ c.action \in D
    BY DEF Holds
  <2>2. \A p \in c.outputs \cup c.inputs : FileId(p) \in D
    BY FilesLead
  <2>3. Lead(object, D) /\ Lead(result, D)
    <3>1. (\A x \in FilesOf(c.inputs) : x \in D) /\ (\A x \in FilesOf(c.outputs) : x \in D)
      BY <2>2 DEF FilesOf
    <3> HIDE DEF c
    <3> QED
      BY <3>1, LinksLead
  <2>4. BuildCommandAction(c) = {action, log}
    BY DEF BuildCommandAction
  <2> HIDE DEF c
  <2>5. Lead(Ref("about", c.action), D)
    BY <2>1, LinksLead
  <2>6. Leads(log, D)
    BY <2>5, EntitiesLead
  <2>7. Lead(links, D)
    <3>1. Lead(Finished(c.status = "completed"), D)
      BY LinksLead
    <3>2. Lead(Ref("agent", Actor("human")), D) /\ Lead(Ref("instrument", Software(c.tool)), D)
      BY <2>1, LinksLead
    <3> HIDE DEF object, result
    <3> QED
      BY <2>3, <3>1, <3>2, LinksLead
  <2> HIDE DEF links
  <2>8. Leads(action, D)
    BY <2>7, EntitiesLead
  <2> HIDE DEF action, log
  <2>9. Leading(BuildCommandAction(c), D)
    BY <2>4, <2>6, <2>8 DEF Leading
  <2> QED
    BY <2>9 DEF c
<1> QED
  BY <1>1 DEF Leading

\* What the agent's actions refer to.
LEMMA AgentLeads ==
    ASSUME NEW m \in Models, NEW profile, NEW D,
           Holds(m, profile, PlanFileInclusion(m), D)
    PROVE  Leading(BuildAgentActions(m, PlanFileInclusion(m)), D)
<1> DEFINE plans == PlanFileInclusion(m)
           edits == EmittedEdits(m, plans)
           tools == (IF edits = {} THEN {} ELSE {"editor"}) \cup {m.shells[i].tool : i \in DOMAIN m.shells}
           act(id, type, status, agent) == Entity(id, {type}, status \cup Ref("agent", Actor(agent)))
           raw(i) == Entity(<<"raw-command", m.shells[i].at>>, {"CreateAction"},
                            Finished(TRUE) \cup Ref("agent", Actor("claude-code")) \cup Ref("object", Root)
                            \cup Ref("instrument", Software(m.shells[i].tool)))
           task(i) == act(<<"subagent", m.tasks[i].at>>, "Action", Finished(TRUE), "claude-code")
           assessed(i) == act(<<"result", i>>, "AssessAction", Finished(m.results[i]), "human")
           phase(i) == act(<<"phase", i>>, "Action",
                           Status(IF m.phases[i].status = "completed" THEN "completed" ELSE "active"), "human")
<1>1. Root \in D /\ Actor("human") \in D /\ Actor("claude-code") \in D
  BY DEF Holds
<1>2. \A i \in edits : FileId(m.edits[i].path) \in D /\ Software("editor") \in D
  BY FilesLead DEF Holds
<1>3. \A i \in DOMAIN m.shells : Software(m.shells[i].tool) \in D
  BY DEF Holds
<1> HIDE DEF plans
<1>4. Lead(Ref("agent", Actor("claude-code")), D) /\ Lead(Ref("agent", Actor("human")), D)
      /\ Lead(Ref("object", Root), D)
  BY <1>1, LinksLead
<1>5. ASSUME NEW i \in edits PROVE Leads(EditAction(m.edits[i]), D)
  <2> DEFINE edit == m.edits[i]
             touched == Ref(IF edit.op = "deleted" THEN "object" ELSE "result", FileId(edit.path))
             links == Finished(TRUE) \cup Ref("agent", Actor("claude-code"))
                      \cup Ref("instrument", Software("editor")) \cup touched
             type == CASE edit.op = "created" -> "CreateAction" [] edit.op = "deleted" -> "DeleteAction"
                       [] OTHER -> "UpdateAction"
  <2>1. Lead(Ref("instrument", Software("editor")), D) /\ Lead(touched, D) /\ Lead(Finished(TRUE), D)
    BY <1>2, LinksLead
  <2>2. EditAction(edit) = Entity(<<"file-action", edit.at>>, {type}, links)
    BY DEF EditAction
  <2> HIDE DEF touched, edit, type
  <2>3. Lead(links, D)
    BY <1>4, <2>1, LinksLead
  <2> HIDE DEF links
  <2>4. Leads(EditAction(edit), D)
    BY <2>2, <2>3, EntitiesLead
  <2> QED
    BY <2>4 DEF edit
<1>6. ASSUME NEW i \in DOMAIN m.shells PROVE Leads(raw(i), D)
  <2> DEFINE links == Finished(TRUE) \cup Ref("agent", Actor("claude-code")) \cup Ref("object", Root)
                      \cup Ref("instrument", Software(m.shells[i].tool))
  <2>1. Lead(Ref("instrument", Software(m.shells[i].tool)), D) /\ Lead(Finished(TRUE), D)
    BY <1>3, LinksLead
  <2>2. Lead(links, D)
    BY <1>4, <2>1, LinksLead
  <2> HIDE DEF links
  <2>3. Leads(Entity(<<"raw-command", m.shells[i].at>>, {"CreateAction"}, links), D)
    BY <2>2, EntitiesLead
  <2> QED
    BY <2>3 DEF links
<1>7. ASSUME NEW id, NEW type, NEW status, Lead(status, D), NEW agent \in {"claude-code", "human"}
      PROVE  Leads(act(id, type, status, agent), D)
  <2>1. Lead(Ref("agent", Actor(agent)), D)
    BY <1>4
  <2>2. Lead(status \cup Ref("agent", Actor(agent)), D)
    BY <1>7, <2>1, LinksLead
  <2> QED
    BY <2>2, EntitiesLead
<1> HIDE DEF act
<1>8. ASSUME NEW i PROVE Leads(task(i), D) /\ Leads(assessed(i), D) /\ Leads(phase(i), D)
  <2>1. /\ Lead(Finished(TRUE), D) /\ Lead(Finished(m.results[i]), D)
        /\ Lead(Status(IF m.phases[i].status = "completed" THEN "completed" ELSE "active"), D)
    BY LinksLead
  <2> QED
    BY <1>7, <2>1
<1>9. BuildAgentActions(m, plans) =
         {EditAction(m.edits[i]) : i \in edits}
         \cup {Entity(Software(t), {"SoftwareApplication"}, {}) : t \in tools}
         \cup {raw(i) : i \in DOMAIN m.shells}
         \cup {task(i) : i \in DOMAIN m.tasks}
         \cup {assessed(i) : i \in DOMAIN m.results}
         \cup {phase(i) : i \in DOMAIN m.phases}
  BY DEF BuildAgentActions, act
<1> HIDE DEF edits, tools, raw, task, assessed, phase
<1>10. Leading({Entity(Software(t), {"SoftwareApplication"}, {}) : t \in tools}, D)
  BY EntitiesLead DEF Leading
<1>11. Leading({EditAction(m.edits[i]) : i \in edits}, D) /\ Leading({raw(i) : i \in DOMAIN m.shells}, D)
  BY <1>5, <1>6 DEF Leading
<1>12. /\ Leading({task(i) : i \in DOMAIN m.tasks}, D)
       /\ Leading({assessed(i) : i \in DOMAIN m.results}, D)
       /\ Leading({phase(i) : i \in DOMAIN m.phases}, D)
  BY <1>8 DEF Leading
<1>13. Leading(BuildAgentActions(m, plans), D)
  <2> DEFINE software == {Entity(Software(t), {"SoftwareApplication"}, {}) : t \in tools}
             edited == {EditAction(m.edits[i]) : i \in edits}
             raws == {raw(i) : i \in DOMAIN m.shells}
             tasks == {task(i) : i \in DOMAIN m.tasks}
             assessments == {assessed(i) : i \in DOMAIN m.results}
             phases == {phase(i) : i \in DOMAIN m.phases}
  <2> HIDE DEF software, edited, raws, tasks, assessments, phases
  <2>1. Leading(software, D) /\ Leading(edited, D) /\ Leading(raws, D) /\ Leading(tasks, D)
        /\ Leading(assessments, D) /\ Leading(phases, D)
    BY <1>10, <1>11, <1>12 DEF software, edited, raws, tasks, assessments, phases
  <2>2. BuildAgentActions(m, plans) = edited \cup software \cup raws \cup tasks \cup assessments \cup phases
    BY <1>9 DEF software, edited, raws, tasks, assessments, phases
  <2> QED
    BY <2>1, <2>2 DEF Leading
<1> QED
  BY <1>13 DEF plans

\* What the steps of a synthesized workflow refer to.
LEMMA TimelineLeads ==
    ASSUME NEW m \in Models, NEW profile, NEW plans, NEW D, Holds(m, profile, plans, D)
    PROVE  /\ Leading(BuildTimeline(Timeline(m, plans)), D)
           /\ Leading(Woven(m, Timeline(m, plans)), D)
<1> DEFINE timeline == Timeline(m, plans)
           step(a) == <<"wfstep", Place(a, timeline)>>
           pair(a) == {Entity(step(a), {"HowToStep"}, {}),
                       Entity(<<"wfcontrol", Place(a, timeline)>>, {"ControlAction"},
                              Ref("instrument", step(a)) \cup Ref("object", a[2]))}
<1>1. \A a \in timeline : step(a) \in D /\ a[2] \in D
  BY DEF Holds
<1> HIDE DEF timeline
<1>2. ASSUME NEW a \in timeline PROVE Leading(pair(a), D)
  <2>1. Lead(Ref("instrument", step(a)), D) /\ Lead(Ref("object", a[2]), D)
    BY <1>1, LinksLead
  <2>2. Lead(Ref("instrument", step(a)) \cup Ref("object", a[2]), D)
    BY <2>1, LinksLead
  <2>3. Leads(Entity(<<"wfcontrol", Place(a, timeline)>>, {"ControlAction"},
                     Ref("instrument", step(a)) \cup Ref("object", a[2])), D)
    BY <2>2, EntitiesLead
  <2>4. Leads(Entity(step(a), {"HowToStep"}, {}), D)
    BY EntitiesLead
  <2> QED
    BY <2>3, <2>4 DEF Leading
<1>3. BuildTimeline(timeline) = UNION {pair(a) : a \in timeline}
  BY DEF BuildTimeline
<1>4. Leading(BuildTimeline(timeline), D)
  <2> HIDE DEF pair
  <2> QED
    BY <1>2, <1>3 DEF Leading
<1>5. Leading(Woven(m, timeline), D)
  <2>1. \A x \in {step(a) : a \in timeline} : x \in D
    BY <1>1
  <2>2. Lead(Refs("step", {step(a) : a \in timeline}), D)
    <3> DEFINE steps == {step(a) : a \in timeline}
    <3> HIDE DEF steps
    <3>1. Lead(Refs("step", steps), D)
      BY <2>1, LinksLead DEF steps
    <3> QED
      BY <3>1 DEF steps
  <2>3. Leading({Entity(WorkflowId(m), {"ComputationalWorkflow"}, Refs("step", {step(a) : a \in timeline}))}, D)
    BY <2>2, EntitiesLead
  <2> QED
    BY <2>3, EntitiesLead DEF Woven
<1> QED
  BY <1>4, <1>5 DEF timeline

\* What a build emits.
Emitted(m, profile, plans, ids) == UNION {Sections(m, profile, plans, ids)[i] : i \in 1 .. 12}

\* The sections.
LEMMA SectionsAre ==
    ASSUME NEW m, NEW profile, NEW plans, NEW ids, NEW sections, sections = Sections(m, profile, plans, ids)
    PROVE  /\ DOMAIN sections = 1 .. 12 /\ Len(sections) = 12
           /\ sections[1] = Scaffold(profile)
           /\ sections[2] = Actors(m) \cup Tools(m)
           /\ sections[3] = Formals(FormalParameters(m, profile))
           /\ sections[4] = PlannedFiles(plans, FormalParameters(m, profile))
           /\ sections[5] = BuildWorkflow(m, FormalParameters(m, profile))
           /\ sections[6] = BuildWorkflowAction(m, ids)
           /\ sections[7] = BuildSteps(m, ids)
           /\ sections[8] = UNION {BuildCommandAction(m.commands[k]) : k \in DOMAIN m.commands}
           /\ sections[9] = {Entity(FileId(p), {"File"}, {}) : p \in UnplannedFiles(m, plans)}
           /\ sections[10] = BuildAgentActions(m, plans)
           /\ sections[11] = BuildTimeline(Timeline(m, plans))
           /\ sections[12] = Woven(m, Timeline(m, plans))
BY DEF Sections

\* The ids of a group are in a set.
Named(group, ids) == \A e \in group : e.id \in ids

\* Everything in a section is emitted.
LEMMA SectionsEmit ==
    ASSUME NEW m, NEW profile, NEW plans, NEW ids, NEW D, Named(Emitted(m, profile, plans, ids), D)
    PROVE  /\ Named(Scaffold(profile), D)
           /\ Named(Actors(m) \cup Tools(m), D)
           /\ Named(Formals(FormalParameters(m, profile)), D)
           /\ Named(PlannedFiles(plans, FormalParameters(m, profile)), D)
           /\ Named(BuildWorkflow(m, FormalParameters(m, profile)), D)
           /\ Named(BuildWorkflowAction(m, ids), D)
           /\ Named(BuildSteps(m, ids), D)
           /\ Named(UNION {BuildCommandAction(m.commands[k]) : k \in DOMAIN m.commands}, D)
           /\ Named({Entity(FileId(p), {"File"}, {}) : p \in UnplannedFiles(m, plans)}, D)
           /\ Named(BuildAgentActions(m, plans), D)
           /\ Named(BuildTimeline(Timeline(m, plans)), D)
           /\ Named(Woven(m, Timeline(m, plans)), D)
<1> DEFINE sections == Sections(m, profile, plans, ids)
<1>1. \A i \in 1 .. 12 : Named(sections[i], D)
  BY DEF Emitted, Named
<1> HIDE DEF sections
<1>2. /\ Named(sections[1], D) /\ Named(sections[2], D) /\ Named(sections[3], D) /\ Named(sections[4], D)
      /\ Named(sections[5], D) /\ Named(sections[6], D) /\ Named(sections[7], D) /\ Named(sections[8], D)
      /\ Named(sections[9], D) /\ Named(sections[10], D) /\ Named(sections[11], D) /\ Named(sections[12], D)
  BY <1>1
<1>3. /\ sections[1] = Scaffold(profile)
      /\ sections[2] = Actors(m) \cup Tools(m)
      /\ sections[3] = Formals(FormalParameters(m, profile))
      /\ sections[4] = PlannedFiles(plans, FormalParameters(m, profile))
      /\ sections[5] = BuildWorkflow(m, FormalParameters(m, profile))
      /\ sections[6] = BuildWorkflowAction(m, ids)
      /\ sections[7] = BuildSteps(m, ids)
      /\ sections[8] = UNION {BuildCommandAction(m.commands[k]) : k \in DOMAIN m.commands}
      /\ sections[9] = {Entity(FileId(p), {"File"}, {}) : p \in UnplannedFiles(m, plans)}
      /\ sections[10] = BuildAgentActions(m, plans)
      /\ sections[11] = BuildTimeline(Timeline(m, plans))
      /\ sections[12] = Woven(m, Timeline(m, plans))
  BY SectionsAre DEF sections
<1> QED
  BY <1>2, <1>3

\* The ids a build emits, with those that need no entity, are what its references need.
LEMMA EmittedHolds ==
    ASSUME NEW m \in Models, NEW profile, NEW ids, NEW D, Root \in D, Exempt(m) \subseteq D,
           Named(Emitted(m, profile, PlanFileInclusion(m), ids), D)
    PROVE  Holds(m, profile, PlanFileInclusion(m), D)
<1> DEFINE plans == PlanFileInclusion(m)
<1>1. plans \in PlanMaps
  BY PlansFollow
<1> HIDE DEF plans
<1>2. /\ Named(Scaffold(profile), D)
      /\ Named(Actors(m) \cup Tools(m), D)
      /\ Named(Formals(FormalParameters(m, profile)), D)
      /\ Named(PlannedFiles(plans, FormalParameters(m, profile)), D)
      /\ Named(BuildWorkflow(m, FormalParameters(m, profile)), D)
      /\ Named(BuildSteps(m, ids), D)
      /\ Named(UNION {BuildCommandAction(m.commands[k]) : k \in DOMAIN m.commands}, D)
      /\ Named({Entity(FileId(p), {"File"}, {}) : p \in UnplannedFiles(m, plans)}, D)
      /\ Named(BuildAgentActions(m, plans), D)
      /\ Named(BuildTimeline(Timeline(m, plans)), D)
  BY SectionsEmit DEF plans
<1>3. \A id, types, links : Entity(id, types, links).id = id
  BY DEF Entity
<1>4. Conformance(profile) \subseteq D
  BY <1>2, <1>3 DEF Scaffold, Named
<1>5. /\ Actor("human") \in D /\ Actor("rcr") \in D /\ Actor("claude-code") \in D
      /\ m.workflow.engine => Engine \in D
  BY <1>2, <1>3 DEF Actors, Named
<1>6. ASSUME NEW k \in DOMAIN m.commands
      PROVE  Software(m.commands[k].tool) \in D /\ m.commands[k].action \in D
  <2>1. Entity(Software(m.commands[k].tool), {"SoftwareApplication"}, {}) \in Tools(m)
    BY DEF Tools, ToolsOf
  <2>2. \E e \in BuildCommandAction(m.commands[k]) : e.id = m.commands[k].action
    BY <1>3 DEF BuildCommandAction
  <2> QED
    BY <1>2, <1>3, <2>1, <2>2 DEF Named
<1>7. \A f \in FormalParameters(m, profile).all : f \in D
  BY <1>2, <1>3 DEF Formals, Named
<1>8. ASSUME NEW p \in DOMAIN plans PROVE FileId(p) \in D
  <2>1. plans[p].path = p
    BY <1>1 DEF PlanMaps
  <2>2. \E types, links : FileEntity(plans[p], FormalParameters(m, profile)) = Entity(FileId(p), types, links)
    BY <2>1 DEF FileEntity
  <2>3. FileEntity(plans[p], FormalParameters(m, profile)).id = FileId(p)
    BY <1>3, <2>2
  <2> QED
    BY <1>2, <2>3 DEF PlannedFiles, Named
<1>9. HasWorkflow(m) => WorkflowId(m) \in D
  <2>1. HasWorkflow(m) => \E e \in BuildWorkflow(m, FormalParameters(m, profile)) : e.id = WorkflowId(m)
    BY <1>3 DEF BuildWorkflow
  <2> QED
    BY <1>2, <2>1 DEF Named
<1>10. ASSUME NEW s \in DOMAIN m.steps PROVE <<"step", s>> \in D
  <2>1. \E links : Entity(<<"step", s>>, {"HowToStep"}, links) \in BuildSteps(m, ids)
    BY DEF BuildSteps
  <2> QED
    BY <1>2, <1>3, <2>1 DEF Named
<1>11. \A p \in UnplannedFiles(m, plans) : FileId(p) \in D
  BY <1>2, <1>3 DEF Named
<1>12. EmittedEdits(m, plans) # {} => Software("editor") \in D
  <2>1. EmittedEdits(m, plans) # {} =>
           Entity(Software("editor"), {"SoftwareApplication"}, {}) \in BuildAgentActions(m, plans)
    BY DEF BuildAgentActions
  <2> QED
    BY <1>2, <1>3, <2>1 DEF Named
<1>13. ASSUME NEW i \in DOMAIN m.shells
       PROVE  Software(m.shells[i].tool) \in D /\ <<"raw-command", m.shells[i].at>> \in D
  <2>1. Entity(Software(m.shells[i].tool), {"SoftwareApplication"}, {}) \in BuildAgentActions(m, plans)
    BY DEF BuildAgentActions
  <2>2. \E links : Entity(<<"raw-command", m.shells[i].at>>, {"CreateAction"}, links)
                       \in BuildAgentActions(m, plans)
    BY DEF BuildAgentActions
  <2> QED
    BY <1>2, <1>3, <2>1, <2>2 DEF Named
<1>14. ASSUME NEW a \in Timeline(m, plans)
       PROVE  <<"wfstep", Place(a, Timeline(m, plans))>> \in D /\ a[2] \in D
  <2>1. <<"wfstep", Place(a, Timeline(m, plans))>> \in D
    <3> DEFINE timeline == Timeline(m, plans)
    <3>1. Entity(<<"wfstep", Place(a, timeline)>>, {"HowToStep"}, {}) \in BuildTimeline(timeline)
      <4>1. a \in timeline
        OBVIOUS
      <4> HIDE DEF timeline
      <4> DEFINE pair(b) == {Entity(<<"wfstep", Place(b, timeline)>>, {"HowToStep"}, {}),
                             Entity(<<"wfcontrol", Place(b, timeline)>>, {"ControlAction"},
                                    Ref("instrument", <<"wfstep", Place(b, timeline)>>) \cup Ref("object", b[2]))}
      <4>2. BuildTimeline(timeline) = UNION {pair(b) : b \in timeline}
        BY DEF BuildTimeline
      <4>3. Entity(<<"wfstep", Place(a, timeline)>>, {"HowToStep"}, {}) \in pair(a)
        OBVIOUS
      <4> HIDE DEF pair
      <4> QED
        BY <4>1, <4>2, <4>3
    <3> QED
      BY <1>2, <1>3, <3>1 DEF Named
  <2>2. ASSUME NEW i \in EmittedEdits(m, plans) PROVE <<"file-action", m.edits[i].at>> \in D
    <3>1. EditAction(m.edits[i]) \in BuildAgentActions(m, plans)
      BY DEF BuildAgentActions
    <3>2. EditAction(m.edits[i]).id = <<"file-action", m.edits[i].at>>
      BY <1>3 DEF EditAction
    <3> QED
      BY <1>2, <3>1, <3>2 DEF Named
  <2>3. ASSUME NEW i \in DOMAIN m.tasks PROVE <<"subagent", m.tasks[i].at>> \in D
    <3>1. \E links : Entity(<<"subagent", m.tasks[i].at>>, {"Action"}, links) \in BuildAgentActions(m, plans)
      BY DEF BuildAgentActions
    <3> QED
      BY <1>2, <1>3, <3>1 DEF Named
  <2>4. a \in TimedActions(m, plans)
    BY DEF Timeline
  <2>5. a[2] \in D
    BY <1>6, <1>13, <2>2, <2>3, <2>4 DEF TimedActions
  <2> QED
    BY <2>1, <2>5
<1> QED
  BY <1>4, <1>5, <1>6, <1>7, <1>8, <1>9, <1>10, <1>11, <1>12, <1>13, <1>14 DEF Holds, plans

\* What the root refers to.
LEMMA RootLeads ==
    ASSUME NEW m \in Models, NEW profile, NEW ids, NEW D,
           Holds(m, profile, PlanFileInclusion(m), D),
           Named(Emitted(m, profile, PlanFileInclusion(m), ids), D),
           NEW graph, DOMAIN graph \subseteq D
    PROVE  Leads(RootEntity(m, profile, PlanFileInclusion(m), ids, graph), D)
<1> DEFINE plans == PlanFileInclusion(m)
           workflow == IF HasWorkflow(m) THEN Ref("mainEntity", WorkflowId(m)) ELSE {}
           part == IF HasWorkflow(m) /\ ~m.workflow.synthetic THEN Ref("hasPart", WorkflowId(m)) ELSE {}
           planned == FilesOf({p \in DOMAIN plans : plans[p].included})
           produced == FilesOf((UNION {m.commands[k].outputs : k \in DOMAIN m.commands}) \ DOMAIN plans)
           aborted == IF m.aborted THEN {<<"run-status", <<"aborted">>>>} ELSE {}
           links == Refs("conformsTo", Conformance(profile)) \cup workflow \cup part
                    \cup Refs("hasPart", planned) \cup Refs("hasPart", produced)
                    \cup Refs("hasPart", LocalData(graph)) \cup Refs("mentions", Mentions(m, plans, ids))
                    \cup aborted
<1>1. /\ Conformance(profile) \subseteq D
      /\ HasWorkflow(m) => WorkflowId(m) \in D
      /\ \A p \in DOMAIN plans : FileId(p) \in D
  BY DEF Holds
<1>2. \A k \in DOMAIN m.commands : \A p \in m.commands[k].outputs \cup m.commands[k].inputs : FileId(p) \in D
  BY FilesLead
<1>3. /\ Named(BuildWorkflowAction(m, ids), D)
      /\ Named(UNION {BuildCommandAction(m.commands[k]) : k \in DOMAIN m.commands}, D)
      /\ Named(BuildAgentActions(m, plans), D)
  BY SectionsEmit
<1> HIDE DEF plans
<1>4. Lead(Refs("conformsTo", Conformance(profile)), D)
  BY <1>1, LinksLead
<1>5. Lead(workflow, D) /\ Lead(part, D)
  <2>1. HasWorkflow(m) => Lead(Ref("mainEntity", WorkflowId(m)), D) /\ Lead(Ref("hasPart", WorkflowId(m)), D)
    BY <1>1, LinksLead
  <2>2. Lead({}, D)
    BY LinksLead
  <2> QED
    BY <2>1, <2>2
<1>6. Lead(Refs("hasPart", planned), D)
  <2>1. \A x \in planned : x \in D
    BY <1>1 DEF FilesOf
  <2> QED
    BY <2>1, LinksLead
<1>7. Lead(Refs("hasPart", produced), D)
  <2>1. \A x \in produced : x \in D
    BY <1>2 DEF FilesOf
  <2> QED
    BY <2>1, LinksLead
<1>8. Lead(Refs("hasPart", LocalData(graph)), D)
  <2>1. \A x \in LocalData(graph) : x \in D
    BY DEF LocalData
  <2> QED
    BY <2>1, LinksLead
<1>9. Lead(Refs("mentions", Mentions(m, plans, ids)), D)
  <2>1. \A x \in Mentions(m, plans, ids) : x \in D
    BY <1>1, <1>3 DEF Mentions, Named
  <2> QED
    BY <2>1, LinksLead
<1>10. Lead(aborted, D)
  <2> DEFINE link == <<"run-status", <<"aborted">>>>
  <2>1. link[1] = "run-status" /\ aborted \subseteq {link}
    OBVIOUS
  <2> HIDE DEF link, aborted
  <2> QED
    BY <2>1 DEF Lead, Valued
<1>11. RootEntity(m, profile, plans, ids, graph) = Entity(Root, {"Dataset"}, links)
  BY DEF RootEntity
<1>12. Lead(links, D)
  <2> HIDE DEF workflow, part, planned, produced, aborted
  <2> DEFINE a == Refs("conformsTo", Conformance(profile))
             b == Refs("hasPart", planned)
             c == Refs("hasPart", produced)
             d == Refs("hasPart", LocalData(graph))
             f == Refs("mentions", Mentions(m, plans, ids))
  <2>1. links = a \cup workflow \cup part \cup b \cup c \cup d \cup f \cup aborted
    OBVIOUS
  <2>2. Lead(a, D) /\ Lead(b, D) /\ Lead(c, D) /\ Lead(d, D) /\ Lead(f, D)
    BY <1>4, <1>6, <1>7, <1>8, <1>9
  <2> HIDE DEF links, a, b, c, d, f
  <2> QED
    BY <1>5, <1>10, <2>1, <2>2 DEF Lead
<1> HIDE DEF links
<1>13. Leads(RootEntity(m, profile, plans, ids, graph), D)
  BY <1>11, <1>12, EntitiesLead
<1> QED
  BY <1>13 DEF plans

\* Every section leads into what is emitted.
LEMMA SectionsLead ==
    ASSUME NEW m \in Models, NEW profile, NEW ids, NEW D,
           Holds(m, profile, PlanFileInclusion(m), D),
           NEW i \in 1 .. 12
    PROVE  Leading(Sections(m, profile, PlanFileInclusion(m), ids)[i], D)
<1> DEFINE plans == PlanFileInclusion(m)
           sections == Sections(m, profile, plans, ids)
<1>1. /\ Leading(Scaffold(profile), D)
      /\ Leading(Actors(m) \cup Tools(m), D)
      /\ Leading(Formals(FormalParameters(m, profile)), D)
      /\ Leading({Entity(FileId(p), {"File"}, {}) : p \in UnplannedFiles(m, plans)}, D)
  BY BaseLeads
<1>2. /\ Leading(PlannedFiles(plans, FormalParameters(m, profile)), D)
      /\ Leading(BuildWorkflow(m, FormalParameters(m, profile)), D)
  BY WorkflowLeads
<1>3. /\ Leading(BuildTimeline(Timeline(m, plans)), D)
      /\ Leading(Woven(m, Timeline(m, plans)), D)
  BY TimelineLeads
<1>4. Leading(BuildWorkflowAction(m, ids), D)
  BY WorkflowActionLeads
<1>5. Leading(BuildSteps(m, ids), D)
  BY StepsLead
<1>6. Leading(UNION {BuildCommandAction(m.commands[k]) : k \in DOMAIN m.commands}, D)
  BY CommandsLead
<1>7. Leading(BuildAgentActions(m, plans), D)
  BY AgentLeads
<1> HIDE DEF plans
<1>8. /\ sections[1] = Scaffold(profile)
      /\ sections[2] = Actors(m) \cup Tools(m)
      /\ sections[3] = Formals(FormalParameters(m, profile))
      /\ sections[4] = PlannedFiles(plans, FormalParameters(m, profile))
      /\ sections[5] = BuildWorkflow(m, FormalParameters(m, profile))
      /\ sections[6] = BuildWorkflowAction(m, ids)
      /\ sections[7] = BuildSteps(m, ids)
      /\ sections[8] = UNION {BuildCommandAction(m.commands[k]) : k \in DOMAIN m.commands}
      /\ sections[9] = {Entity(FileId(p), {"File"}, {}) : p \in UnplannedFiles(m, plans)}
      /\ sections[10] = BuildAgentActions(m, plans)
      /\ sections[11] = BuildTimeline(Timeline(m, plans))
      /\ sections[12] = Woven(m, Timeline(m, plans))
  BY SectionsAre
<1> HIDE DEF sections
<1>9. /\ Leading(sections[1], D) /\ Leading(sections[2], D) /\ Leading(sections[3], D)
      /\ Leading(sections[4], D) /\ Leading(sections[5], D) /\ Leading(sections[6], D)
      /\ Leading(sections[7], D) /\ Leading(sections[8], D) /\ Leading(sections[9], D)
      /\ Leading(sections[10], D) /\ Leading(sections[11], D) /\ Leading(sections[12], D)
  BY <1>1, <1>2, <1>3, <1>4, <1>5, <1>6, <1>7, <1>8
<1>10. i \in {1, 2, 3, 4, 5, 6, 7, 8, 9, 10, 11, 12}
  OBVIOUS
<1>11. Leading(sections[i], D)
  BY <1>9, <1>10
<1> QED
  BY <1>11 DEF sections, plans

\* What a graph follows only depends on the sections it was made from.
LEMMA FollowsSame ==
    ASSUME NEW graph, NEW s, NEW t, NEW n \in Nat, \A i \in 1 .. n : s[i] = t[i], Follows(graph, s, n)
    PROVE  Follows(graph, t, n)
<1>1. UNION {s[i] : i \in 1 .. n} = UNION {t[i] : i \in 1 .. n}
  <2>1. {s[i] : i \in 1 .. n} = {t[i] : i \in 1 .. n}
    OBVIOUS
  <2> QED
    BY <2>1
<1>2. ASSUME NEW entity, NEW id, Owes(entity, id, s, n) PROVE Owes(entity, id, t, n)
  <2> DEFINE emitted == {e \in UNION {s[i] : i \in 1 .. n} : e.id = id}
  <2>1. emitted = {e \in UNION {t[i] : i \in 1 .. n} : e.id = id}
    BY <1>1
  <2>2. /\ \A link \in entity.links : \E e \in emitted : link \in e.links
        /\ \E e \in emitted : e.types = entity.types /\ e.links \subseteq entity.links
        /\ \A e \in emitted : emitted = {e} => entity = e
        /\ (\A e \in emitted : Explained(e.links)) => Explained(entity.links)
    BY <1>2 DEF Owes
  <2> HIDE DEF emitted
  <2>3. \A property : (\E i \in 1 .. n :
                               /\ \E e \in t[i] : e.id = id
                               /\ \A e \in t[i] : e.id = id => Has(e.links, property))
                           => Has(entity.links, property)
    BY <1>2 DEF Owes
  <2>4. \A i \in 1 .. n : LastWith(t, i, n, id) => Gives(t[i], id, entity)
    <3>1. ASSUME NEW i \in 1 .. n, LastWith(t, i, n, id) PROVE LastWith(s, i, n, id)
      <4>1. \A j \in i + 1 .. n : j \in 1 .. n
        OBVIOUS
      <4> QED
        BY <3>1, <4>1 DEF LastWith
    <3> QED
      BY <1>2, <3>1 DEF Owes
  <2> QED
    BY <2>1, <2>2, <2>3, <2>4 DEF Owes
<1> QED
  BY <1>1, <1>2 DEF Follows

\* What is emitted, the root last.
Final(m, profile, plans, ids) ==
    LET sections == Sections(m, profile, plans, ids)
    IN  Append(sections, {RootEntity(m, profile, plans, ids, Assembled(sections))})

\* The ids a build emits, and those that need no entity.
Known(m, profile, plans, ids) == Ids(Emitted(m, profile, plans, ids)) \cup {Root} \cup Exempt(m)

\* They are what the references need.
LEMMA KnownHolds ==
    ASSUME NEW m \in Models, NEW profile, NEW ids, NEW plans, plans = PlanFileInclusion(m)
    PROVE  /\ Holds(m, profile, plans, Known(m, profile, plans, ids))
           /\ Named(Emitted(m, profile, plans, ids), Known(m, profile, plans, ids))
<1> DEFINE D == Known(m, profile, plans, ids)
<1>1. Root \in D /\ Exempt(m) \subseteq D /\ Named(Emitted(m, profile, plans, ids), D)
  BY DEF Known, Named, Ids
<1> HIDE DEF D
<1>2. Holds(m, profile, plans, D)
  BY <1>1, EmittedHolds
<1> QED
  BY <1>1, <1>2 DEF D

\* The sets a group's entities are made from.
EntityTyped(group, I, T, L) ==
    \A e \in group : e = Entity(e.id, e.types, e.links) /\ e.id \in I /\ e.types \in T /\ e.links \subseteq L

\* Entities of these sets.
LEMMA EntitySetsTyped ==
    ASSUME NEW I, NEW T, NEW L, NEW group, EntityTyped(group, I, T, L)
    PROVE  group \in EntitySets(I, T, L)
<1>1. ASSUME NEW e \in group PROVE e \in Entities(I, T, L)
  <2>1. e = Entity(e.id, e.types, e.links) /\ e.id \in I /\ e.types \in T /\ e.links \subseteq L
    BY DEF EntityTyped
  <2> DEFINE id == e.id
             types == e.types
             links == e.links
  <2> HIDE DEF id, types, links
  <2>2. e = [id |-> id, types |-> types, links |-> links] /\ id \in I /\ types \in T /\ links \in SUBSET L
    BY <2>1 DEF Entity, id, types, links
  <2> QED
    BY <2>2 DEF Entities
<1> QED
  BY <1>1 DEF EntitySets

\* The crate's graph follows what was emitted, the root last.
LEMMA GraphFollows ==
    ASSUME NEW m \in Models, NEW profile, NEW ids, NEW plans, plans = PlanFileInclusion(m)
    PROVE  /\ \E I, T, L : Graph(m, profile, plans, ids) \in Graphs(I, T, L)
           /\ Follows(Graph(m, profile, plans, ids), Final(m, profile, plans, ids), 13)
           /\ DOMAIN Assembled(Sections(m, profile, plans, ids)) = Ids(Emitted(m, profile, plans, ids))
<1> DEFINE D == Known(m, profile, plans, ids)
           sections == Sections(m, profile, plans, ids)
           all == Emitted(m, profile, plans, ids)
           assembled == Assembled(sections)
           root == RootEntity(m, profile, plans, ids, assembled)
           I == Ids(all) \cup {Root}
           T == {e.types : e \in all} \cup {root.types}
           L == (UNION {e.links : e \in all}) \cup root.links
<1>1. Holds(m, profile, plans, D) /\ Named(all, D)
  BY KnownHolds
<1>2. DOMAIN sections = 1 .. 12 /\ Len(sections) = 12
  BY SectionsAre
<1>3. all = UNION {sections[i] : i \in 1 .. 12}
  BY DEF Emitted
<1>4. \A i \in 1 .. 12 : Leading(sections[i], D)
  <2> HIDE DEF D
  <2> QED
    BY <1>1, SectionsLead
<1>5. sections = [i \in 1 .. 12 |-> sections[i]]
  BY DEF Sections
<1>6. root = Entity(Root, {"Dataset"}, root.links) /\ root.id = Root
  BY DEF RootEntity, Entity
<1>7. Final(m, profile, plans, ids) = Append(sections, {root})
  BY DEF Final
<1>8. Graph(m, profile, plans, ids) = Merge(assembled, {root})
  BY DEF Graph
<1> HIDE DEF sections, all, assembled, root, D
<1>9. ASSUME NEW i \in 1 .. 12 PROVE EntityTyped(sections[i], I, T, L)
  <2>1. \A e \in sections[i] : e \in all
    BY <1>3
  <2>2. \A e \in sections[i] : e = Entity(e.id, e.types, e.links)
    BY <1>4 DEF Leading, Leads
  <2>3. \A e \in sections[i] : e.id \in I /\ e.types \in T
    BY <2>1 DEF Ids
  <2>4. \A e \in sections[i] : e.links \subseteq L
    BY <2>1
  <2> QED
    BY <2>2, <2>3, <2>4 DEF EntityTyped
<1>10. EntityTyped({root}, I, T, L)
  <2>1. root.types = {"Dataset"}
    BY <1>6 DEF Entity
  <2> QED
    BY <1>6, <2>1 DEF EntityTyped
<1> HIDE DEF I, T, L
<1>11. \A i \in 1 .. 12 : sections[i] \in EntitySets(I, T, L)
  BY <1>9, EntitySetsTyped
<1>12. sections \in Seq(EntitySets(I, T, L))
  <2>1. 12 \in Nat
    OBVIOUS
  <2> QED
    BY <1>5, <1>11, <2>1, Mapped
<1>13. assembled \in Graphs(I, T, L) /\ Follows(assembled, sections, 12)
  BY <1>2, <1>12, AssembledFollows DEF assembled
<1> DEFINE longer == Append(sections, {root})
<1>14. /\ \A i \in 1 .. 12 : longer[i] = sections[i]
       /\ longer[13] = {root}
  <2>1. /\ longer[Len(sections) + 1] = {root}
        /\ \A i \in DOMAIN sections : longer[i] = sections[i]
    <3> HIDE DEF longer
    <3> QED
      BY <1>12, Appended DEF longer
  <2>2. Len(sections) + 1 = 13
    BY <1>2
  <2> HIDE DEF longer
  <2> QED
    BY <1>2, <2>1, <2>2
<1> HIDE DEF longer
<1>15. {root} \in EntitySets(I, T, L)
  BY <1>10, EntitySetsTyped
<1>16. Follows(assembled, longer, 12)
  <2>1. 12 \in Nat /\ \A i \in 1 .. 12 : sections[i] = longer[i]
    BY <1>14
  <2> QED
    BY <1>13, <2>1, FollowsSame
<1>17. \A i \in 1 .. 12 + 1 : longer[i] \in SUBSET Entities(I, T, L)
  <2>1. \A i \in 1 .. 12 + 1 : i \in 1 .. 12 \/ i = 13
    OBVIOUS
  <2> QED
    BY <1>11, <1>14, <1>15, <2>1 DEF EntitySets
<1>18. Follows(Merge(assembled, {root}), longer, 13)
  <2>1. 12 \in Nat /\ 12 + 1 = 13
    OBVIOUS
  <2>2. Follows(Merge(assembled, longer[12 + 1]), longer, 12 + 1)
    BY <1>13, <1>16, <1>17, <2>1, MergeFollows
  <2> QED
    BY <1>14, <2>1, <2>2
<1>19. Merge(assembled, {root}) \in Graphs(I, T, L)
  BY <1>13, <1>15, MergeTyped
<1>20. DOMAIN assembled = Ids(all)
  BY <1>3, <1>13 DEF Follows
<1> QED
  BY <1>7, <1>8, <1>18, <1>19, <1>20 DEF longer, assembled, sections, all

\* Every link of a graph leads to an entity of it or needs none.
LEMMA GraphLeads ==
    ASSUME NEW m \in Models, NEW profile, NEW ids, NEW plans, plans = PlanFileInclusion(m),
           NEW graph, graph = Graph(m, profile, plans, ids)
    PROVE  \A id \in DOMAIN graph : Lead(graph[id].links, DOMAIN graph \cup Exempt(m))
<1> DEFINE D == Known(m, profile, plans, ids)
           sections == Sections(m, profile, plans, ids)
           assembled == Assembled(sections)
           root == RootEntity(m, profile, plans, ids, assembled)
           final == Final(m, profile, plans, ids)
<1>1. Holds(m, profile, plans, D) /\ Named(Emitted(m, profile, plans, ids), D)
  BY KnownHolds
<1>2. Follows(graph, final, 13) /\ DOMAIN assembled = Ids(Emitted(m, profile, plans, ids))
  BY GraphFollows
<1>3. final = Append(sections, {root}) /\ sections = [i \in 1 .. 12 |-> sections[i]]
  BY DEF Final, Sections
<1>4. root.id = Root
  BY DEF RootEntity, Entity
<1>5. DOMAIN assembled \subseteq D
  BY <1>2 DEF Known
<1>6. \A i \in 1 .. 12 : Leading(sections[i], D)
  <2> HIDE DEF D
  <2> QED
    BY <1>1, SectionsLead
<1>7. Leads(root, D)
  <2> HIDE DEF D, assembled
  <2> QED
    BY <1>1, <1>5, RootLeads
<1> HIDE DEF sections, assembled, root, final
<1>8. /\ \A i \in 1 .. 12 : final[i] = sections[i]
      /\ final[13] = {root}
  BY <1>3
<1>9. \A i \in 1 .. 13 : Leading(final[i], D)
  <2>1. \A i \in 1 .. 13 : i \in 1 .. 12 \/ i = 13
    OBVIOUS
  <2> HIDE DEF D
  <2>2. Leading({root}, D)
    BY <1>7 DEF Leading
  <2> QED
    BY <1>6, <1>8, <2>1, <2>2
<1>10. Ids(UNION {final[i] : i \in 1 .. 13}) = Ids(Emitted(m, profile, plans, ids)) \cup {Root}
  <2>1. Emitted(m, profile, plans, ids) = UNION {final[i] : i \in 1 .. 12}
    BY <1>8 DEF Emitted, sections
  <2>2. UNION {final[i] : i \in 1 .. 13} = (UNION {final[i] : i \in 1 .. 12}) \cup {root}
    <3>1. \A i \in 1 .. 13 : i \in 1 .. 12 \/ i = 13
      OBVIOUS
    <3>2. 13 \in 1 .. 13 /\ \A i \in 1 .. 12 : i \in 1 .. 13
      OBVIOUS
    <3> QED
      BY <1>8, <3>1, <3>2
  <2>3. Ids((UNION {final[i] : i \in 1 .. 12}) \cup {root}) = Ids(UNION {final[i] : i \in 1 .. 12}) \cup {root.id}
    BY DEF Ids
  <2> QED
    BY <1>4, <2>1, <2>2, <2>3
<1>11. D = DOMAIN graph \cup Exempt(m)
  BY <1>2, <1>10 DEF Follows, Known
<1> HIDE DEF D
<1>12. ASSUME NEW id \in DOMAIN graph, NEW link \in graph[id].links PROVE link[1] \in Valued \/ link[2] \in D
  <2>1. PICK e \in UNION {final[i] : i \in 1 .. 13} : link \in e.links
    BY <1>2 DEF Follows, Owes
  <2>2. PICK i \in 1 .. 13 : e \in final[i]
    OBVIOUS
  <2> QED
    BY <1>9, <2>1, <2>2 DEF Leading, Leads, Lead
<1> QED
  BY <1>11, <1>12 DEF Lead

\* What a build that is under way has read.
BuiltInv == builder.open =>
    \E request, files : builder.built = BuildModel(journal, builder.through, request, files)

\* Its model is one of the journal up to its mark.
LEMMA BuiltReads ==
    ASSUME TypeInv, BuiltInv, builder.open
    PROVE  /\ builder.built.model \in Models
           /\ DeclaredIn(builder.built.model, journal, builder.through)
<1>1. PICK request, files : builder.built = BuildModel(journal, builder.through, request, files)
  BY DEF BuiltInv
<1>2. journal \in Seq(Events) /\ builder.through \in 0 .. Len(journal)
  BY DEF TypeInv, Builders
<1>3. builder.built \in Builds
  BY <1>1, <1>2, BuildTyped
<1> QED
  BY <1>1, <1>2, <1>3, DeclarationsRead DEF Builds

\* A journal that grows keeps what it has.
LEMMA Grown ==
    ASSUME TypeInv, NEW e \in Events, journal' = Append(journal, e)
    PROVE  /\ Len(journal') = Len(journal) + 1 /\ Len(journal) \in Nat
           /\ \A i \in 1 .. Len(journal) : journal'[i] = journal[i]
           /\ DOMAIN journal' = 1 .. Len(journal) + 1 /\ DOMAIN journal = 1 .. Len(journal)
           /\ journal'[Len(journal) + 1] = e
BY DEF TypeInv

\* A step of the run: the journal may grow, builds and the crate stay.
Continuing ==
    /\ journal' = journal \/ \E e \in Events : journal' = Append(journal, e)
    /\ UNCHANGED <<builder, crate, copied>>

\* A step continues the run, opens a build or writes one.
LEMMA Phased ==
    ASSUME TypeInv, [Next]_vars
    PROVE  Continuing \/ (\E request \in Requests : Open(request)) \/ Write
<1>1. CASE UNCHANGED vars
  BY <1>1 DEF vars, Continuing
<1>2. CASE Recording
  <2>1. PICK e \in OtherEvents : journal' = Append(journal, e)
    BY <1>2 DEF Recording
  <2>2. e \in Events
    BY DEF OtherEvents
  <2> QED
    BY <1>2, <2>1, <2>2 DEF Recording, Continuing
<1>3. CASE CommandLoad
  BY <1>3 DEF CommandLoad, Continuing
<1>4. ASSUME NEW line \in CommandLines, NEW step \in Names.steps \cup {NoStep}, CommandStart(line, step)
      PROVE  Continuing
  <2> DEFINE key == <<"action", runner.command>>
             ids == Allocate(runner.ids, {key})
             e == StartEvent(line, step, ids[key])
  <2>1. ids[key] \in ActionIds
    BY StartAllocates DEF TypeInv
  <2>2. journal' = Append(journal, e) /\ UNCHANGED <<builder, crate, copied>>
    BY <1>4 DEF CommandStart, StartEvent
  <2> HIDE DEF ids
  <2>3. e \in Events
    BY <2>1, StartTyped DEF TypeInv
  <2> HIDE DEF e
  <2> QED
    BY <2>2, <2>3 DEF Continuing
<1> QED
  BY <1>1, <1>2, <1>3, <1>4, NextCases

\* Every step keeps what a build has read.
LEMMA BuiltNext == ASSUME TypeInv, BuiltInv, [Next]_vars PROVE BuiltInv'
<1>1. CASE Continuing
  <2> SUFFICES ASSUME builder.open
               PROVE  \E request, files : builder.built = BuildModel(journal', builder.through, request, files)
    BY <1>1 DEF BuiltInv, Continuing
  <2>1. PICK request, files : builder.built = BuildModel(journal, builder.through, request, files)
    BY DEF BuiltInv
  <2>2. journal \in Seq(Events) /\ builder.through \in 0 .. Len(journal)
    BY DEF TypeInv, Builders
  <2>3. BuildModel(journal', builder.through, request, files) = BuildModel(journal, builder.through, request, files)
    <3>1. CASE journal' = journal
      BY <3>1
    <3>2. ASSUME NEW e \in Events, journal' = Append(journal, e)
          PROVE  BuildModel(journal', builder.through, request, files)
                    = BuildModel(journal, builder.through, request, files)
      BY <2>2, <3>2, BuildPrefix
    <3> QED
      BY <1>1, <3>1, <3>2 DEF Continuing
  <2> QED
    BY <2>1, <2>3
<1>2. ASSUME NEW request \in Requests, Open(request) PROVE BuiltInv'
  <2>1. /\ journal' = journal
        /\ builder' = [open |-> TRUE, through |-> Len(journal), ids |-> idMap,
                       built |-> BuildModel(journal, Len(journal), requested', disk)]
    BY <1>2 DEF Open
  <2>2. builder'.built = BuildModel(journal', builder'.through, requested', disk)
    BY <2>1
  <2> QED
    BY <2>2 DEF BuiltInv
<1>3. CASE Write
  <2>1. builder' = Idle /\ Idle.open = FALSE
    BY <1>3 DEF Write, Idle
  <2> QED
    BY <2>1 DEF BuiltInv
<1> QED
  BY <1>1, <1>2, <1>3, Phased

\* What is declared does not change for a crate that stays.
LEMMA DeclaredStays ==
    ASSUME TypeInv, Continuing PROVE DeclaredPaths' = DeclaredPaths /\ Seen' = Seen
<1>1. crate' = crate /\ crate.through \in 0 .. Len(journal)
  BY DEF Continuing, TypeInv
<1>2. \A i \in 1 .. crate.through : journal'[i] = journal[i]
  <2>1. CASE journal' = journal
    BY <2>1
  <2>2. ASSUME NEW e \in Events, journal' = Append(journal, e)
        PROVE  \A i \in 1 .. crate.through : journal'[i] = journal[i]
    BY <1>1, <2>2, Grown
  <2> QED
    BY <2>1, <2>2 DEF Continuing
<1>3. Seen' = Seen
  BY <1>1 DEF Seen
<1>4. \A i \in Seen : journal'[i] = journal[i]
  BY <1>2 DEF Seen
<1>5. {j \in Seen : Declared(j)}' = {j \in Seen : Declared(j)}
  BY <1>3, <1>4 DEF Declared
<1> QED
  BY <1>3, <1>4, <1>5 DEF DeclaredPaths

\* The crate that is written resolves its references.
LEMMA WrittenResolves ==
    ASSUME TypeInv, BuiltInv, Write PROVE RefsResolve'
<1> DEFINE m == builder.built.model
           profile == builder.built.profile
           plans == PlanFileInclusion(m)
           ids == Allocate(builder.ids, Keys(m))
           graph == Graph(m, profile, plans, ids)
<1>1. builder.open /\ journal' = journal
      /\ crate' = [through |-> builder.through, profile |-> profile, graph |-> graph]
  BY DEF Write
<1>2. m \in Models /\ DeclaredIn(m, journal, builder.through)
  BY <1>1, BuiltReads
<1>3. \A id \in DOMAIN graph : Lead(graph[id].links, DOMAIN graph \cup Exempt(m))
  <2> HIDE DEF graph, ids, profile, plans, m
  <2> QED
    BY <1>2, GraphLeads DEF graph, plans
<1> HIDE DEF graph, m
<1>4. DeclaredOf(m) \subseteq DeclaredPaths'
  <2>1. Seen' = 1 .. builder.through /\ journal' = journal
    BY <1>1 DEF Seen
  <2>2. ASSUME NEW k \in DOMAIN m.inputs PROVE m.inputs[k].path \in DeclaredPaths'
    <3>1. PICK i \in 1 .. builder.through :
             journal[i] = m.inputs[k] /\ journal[i].type = "workflow.input.declared"
      BY <1>2 DEF DeclaredIn
    <3> QED
      BY <2>1, <3>1 DEF DeclaredPaths, Declared
  <2>3. ASSUME NEW k \in DOMAIN m.outputs PROVE m.outputs[k].path \in DeclaredPaths'
    <3>1. PICK i \in 1 .. builder.through :
             journal[i] = m.outputs[k] /\ journal[i].type = "workflow.output.declared"
      BY <1>2 DEF DeclaredIn
    <3> QED
      BY <2>1, <3>1 DEF DeclaredPaths, Declared
  <2> QED
    BY <2>2, <2>3 DEF DeclaredOf
<1>5. Exempt(m) \subseteq FilesOf(Outside \cup (Ignored \cap DeclaredPaths'))
  BY <1>4 DEF Exempt, FilesOf
<1>6. crate'.graph = graph
  BY <1>1
<1>7. \A id \in DOMAIN crate'.graph : \A link \in crate'.graph[id].links :
         link[1] \in Valued \/ link[2] \in DOMAIN crate'.graph \cup FilesOf(Outside \cup (Ignored \cap DeclaredPaths'))
  BY <1>3, <1>5, <1>6 DEF Lead
<1> QED
  BY <1>7 DEF RefsResolve, Graphed

\* The references of the crate resolve, and the build under way works from what the
\* journal said when it was opened.
ReferenceInv == TypeInv /\ BuiltInv /\ RefsResolve

\* They do at first.
LEMMA ReferenceInit == ASSUME Init PROVE ReferenceInv
<1>1. crate.graph = <<>> /\ ~builder.open
  BY DEF Init, NoCrate, Idle
<1> QED
  BY <1>1, TypeInit DEF ReferenceInv, BuiltInv, RefsResolve, Graphed

\* Every step keeps it.
LEMMA ReferenceNext == ASSUME ReferenceInv, [Next]_vars PROVE ReferenceInv'
<1>1. TypeInv /\ BuiltInv /\ RefsResolve
  BY DEF ReferenceInv
<1>2. TypeInv' /\ BuiltInv'
  BY <1>1, TypeNext, BuiltNext
<1>3. CASE Continuing
  <2>1. DeclaredPaths' = DeclaredPaths /\ crate' = crate
    BY <1>1, <1>3, DeclaredStays DEF Continuing
  <2> QED
    BY <1>1, <1>2, <2>1 DEF ReferenceInv, RefsResolve, Graphed
<1>4. ASSUME NEW request \in Requests, Open(request) PROVE ReferenceInv'
  <2>1. journal' = journal /\ crate' = crate
    BY <1>4 DEF Open
  <2>2. DeclaredPaths' = DeclaredPaths
    BY <2>1 DEF DeclaredPaths, Seen, Declared
  <2> QED
    BY <1>1, <1>2, <2>1, <2>2 DEF ReferenceInv, RefsResolve, Graphed
<1>5. CASE Write
  BY <1>1, <1>2, <1>5, WrittenResolves DEF ReferenceInv
<1> QED
  BY <1>1, <1>3, <1>4, <1>5, Phased

\* Every reference of the crate leads to one of its entities, whatever was declared,
\* edited and run, for any journal and any configuration: the emitters of builder.py and
\* mapping/ and the file plans agree on the ids.
THEOREM ReferencesResolve == Spec => []RefsResolve
<1>1. Init => ReferenceInv
  BY ReferenceInit
<1>2. ReferenceInv /\ [Next]_vars => ReferenceInv'
  BY ReferenceNext
<1>3. ReferenceInv => RefsResolve
  BY DEF ReferenceInv
<1> QED
  BY <1>1, <1>2, <1>3, PTL DEF Spec

-----------------------------------------------------------------------------
(* Ids: whom the uuids of the journal and of the id maps belong to.         *)

\* Commands are numbered by their place in the journal, and each action has a uuid of
\* its own, of the first n.
Numbers(log, n) ==
    /\ Orderly(log)
    /\ \A i \in DOMAIN log : Starts(log[i]) =>
           log[i].command <= i /\ \E k \in 1 .. n : log[i].action = Uuid(k)
    /\ \A i, j \in DOMAIN log : Starts(log[i]) /\ Starts(log[j]) /\ log[i].action = log[j].action => i = j

\* An id map knows the actions of started commands only, and gives an action's uuid to
\* nothing else.
MapsActions(ids, log) ==
    \A key \in DOMAIN ids :
        /\ key[1] = "action" => \E i \in DOMAIN log : Starts(log[i]) /\ key = <<"action", log[i].command>>
        /\ \A i \in DOMAIN log : Starts(log[i]) /\ ids[key] = log[i].action => key = <<"action", log[i].command>>

\* The command that is starting has a number no started one has.
NextNumber ==
    runner # NoRunner =>
        /\ runner.command <= Len(journal) + 1
        /\ \A i \in DOMAIN journal : Starts(journal[i]) => journal[i].command < runner.command

IdInv ==
    /\ Numbers(journal, minted) /\ NextNumber
    /\ MapsActions(idMap, journal) /\ MapsActions(builder.ids, journal) /\ MapsActions(runner.ids, journal)

\* The uuids of a map are the ones minted.
LEMMA MapValues ==
    ASSUME NEW n \in Nat, NEW ids \in IdMaps(n), NEW key \in DOMAIN ids, NEW k \in Nat \ {0}
    PROVE  ids[key] # Uuid(n + k)
<1>1. key \in StepKeys \/ key \in EventKeys
  BY DEF IdMaps, IdKeys
<1>2. CASE key \in StepKeys
  <2>1. ids[key] = key
    BY <1>2 DEF IdMaps
  <2>2. n + k \in Nat
    OBVIOUS
  <2> QED
    BY <1>2, <2>1, <2>2, UuidFacts
<1>3. CASE key \in EventKeys
  <2>1. PICK i \in 1 .. n : ids[key] = Uuid(i)
    BY <1>3 DEF IdMaps
  <2>2. i \in Nat /\ n + k \in Nat /\ i # n + k
    OBVIOUS
  <2> QED
    BY <2>1, <2>2, UuidFacts
<1> QED
  BY <1>1, <1>2, <1>3

\* An event that starts no command changes none of it.
LEMMA OtherAppended ==
    ASSUME TypeInv, NEW n, Numbers(journal, n), NEW e \in OtherEvents, Ending(e), journal' = Append(journal, e)
    PROVE  /\ Numbers(journal', n)
           /\ \A ids : MapsActions(ids, journal) => MapsActions(ids, journal')
           /\ \A i \in DOMAIN journal' : Starts(journal'[i]) => i \in DOMAIN journal /\ journal'[i] = journal[i]
<1>1. e \in Events /\ ~Starts(e)
  BY DEF OtherEvents, Starts
<1>2. /\ Len(journal') = Len(journal) + 1 /\ Len(journal) \in Nat
      /\ \A i \in 1 .. Len(journal) : journal'[i] = journal[i]
      /\ DOMAIN journal' = 1 .. Len(journal) + 1 /\ DOMAIN journal = 1 .. Len(journal)
      /\ journal'[Len(journal) + 1] = e
  BY <1>1, Grown
<1>3. \A i \in DOMAIN journal' : i \in DOMAIN journal \/ i = Len(journal) + 1
  BY <1>2
<1>4. \A i \in DOMAIN journal' : Starts(journal'[i]) => i \in DOMAIN journal /\ journal'[i] = journal[i]
  BY <1>1, <1>2, <1>3
<1>5. \A i \in DOMAIN journal : i \in DOMAIN journal' /\ journal'[i] = journal[i]
  BY <1>2
<1>6. Orderly(journal')
  <2>1. \A i, j \in DOMAIN journal' :
           Starts(journal'[i]) /\ Starts(journal'[j]) /\ journal'[i].command = journal'[j].command => i = j
    BY <1>4 DEF Numbers, Orderly
  <2>2. ASSUME NEW j \in DOMAIN journal', Ends(journal'[j])
        PROVE  \E i \in 1 .. j - 1 : Starts(journal'[i]) /\ journal'[i].command = journal'[j].command
    <3>1. CASE j \in DOMAIN journal
      <4>1. PICK i \in 1 .. j - 1 : Starts(journal[i]) /\ journal[i].command = journal[j].command
        BY <1>5, <2>2, <3>1 DEF Numbers, Orderly
      <4>2. i \in DOMAIN journal
        BY <1>2, <3>1
      <4> QED
        BY <1>5, <3>1, <4>1, <4>2
    <3>2. CASE j = Len(journal) + 1
      <4>1. PICK i \in Started : journal[i].command = e.command
        BY <1>2, <2>2, <3>2 DEF Ending, Ends
      <4>2. i \in DOMAIN journal /\ Starts(journal[i]) /\ i \in 1 .. j - 1
        BY <1>2, <3>2 DEF Started, Starts
      <4> QED
        BY <1>2, <1>5, <3>2, <4>1, <4>2
    <3> QED
      BY <1>3, <3>1, <3>2
  <2> QED
    BY <2>1, <2>2 DEF Orderly
<1>7. Numbers(journal', n)
  BY <1>4, <1>6 DEF Numbers
<1>8. ASSUME NEW ids, MapsActions(ids, journal) PROVE MapsActions(ids, journal')
  BY <1>4, <1>5, <1>8 DEF MapsActions
<1> QED
  BY <1>4, <1>7, <1>8

\* A command that starts takes the next number and a new uuid.
LEMMA StartAppended ==
    ASSUME TypeInv, IdInv, NEW e \in Events, Starts(e), journal' = Append(journal, e),
           runner # NoRunner, e.command = runner.command, e.action = Uuid(minted + 1)
    PROVE  /\ Numbers(journal', minted + 1)
           /\ \A ids \in IdMaps(minted) : MapsActions(ids, journal) => MapsActions(ids, journal')
           /\ \A ids \in IdMaps(minted) : \A new :
                  /\ MapsActions(ids, journal)
                  /\ DOMAIN new = DOMAIN ids \cup {<<"action", e.command>>}
                  /\ \A k \in DOMAIN ids : new[k] = ids[k]
                  /\ new[<<"action", e.command>>] = e.action
                  => MapsActions(new, journal')
<1>1. /\ Len(journal') = Len(journal) + 1 /\ Len(journal) \in Nat
      /\ \A i \in 1 .. Len(journal) : journal'[i] = journal[i]
      /\ DOMAIN journal' = 1 .. Len(journal) + 1 /\ DOMAIN journal = 1 .. Len(journal)
      /\ journal'[Len(journal) + 1] = e
  BY Grown
<1>2. \A i \in DOMAIN journal' : i \in DOMAIN journal \/ i = Len(journal) + 1
  BY <1>1
<1>3. \A i \in DOMAIN journal : i \in DOMAIN journal' /\ journal'[i] = journal[i]
  BY <1>1
<1>4. minted \in Nat /\ minted + 1 \in 1 .. minted + 1 /\ minted + 1 \in Nat
      /\ \A k \in 1 .. minted : k \in 1 .. minted + 1 /\ k \in Nat /\ k # minted + 1
  BY DEF TypeInv
<1>5. /\ runner.command <= Len(journal) + 1
      /\ \A i \in DOMAIN journal : Starts(journal[i]) => journal[i].command < runner.command
  BY DEF IdInv, NextNumber
<1>6. \A i \in DOMAIN journal : Starts(journal[i]) => journal[i].command # e.command /\ journal[i].command \in Nat
  <2> TAKE i \in DOMAIN journal
  <2> HAVE Starts(journal[i])
  <2>1. journal[i].command < e.command
    BY <1>5
  <2>2. journal[i] \in Events
    BY <1>1 DEF TypeInv
  <2>3. journal[i] \in StartEvents
    BY <2>2, EventFields DEF Starts
  <2>4. journal[i].command \in Nat
    BY <2>3 DEF StartEvents
  <2>5. e.command \in Nat
    BY DEF TypeInv, Runners
  <2> QED
    BY <2>1, <2>4, <2>5
<1>7. \A i \in DOMAIN journal : Starts(journal[i]) => journal[i].action # e.action
  <2> TAKE i \in DOMAIN journal
  <2> HAVE Starts(journal[i])
  <2>1. PICK k \in 1 .. minted : journal[i].action = Uuid(k)
    BY DEF IdInv, Numbers
  <2> QED
    BY <1>4, <2>1, UuidFacts
<1>8. Orderly(journal')
  <2>1. ASSUME NEW i \in DOMAIN journal', NEW j \in DOMAIN journal',
               Starts(journal'[i]), Starts(journal'[j]), journal'[i].command = journal'[j].command
        PROVE  i = j
    <3>1. CASE i \in DOMAIN journal /\ j \in DOMAIN journal
      BY <1>3, <2>1, <3>1 DEF IdInv, Numbers, Orderly
    <3>2. CASE i \in DOMAIN journal /\ j = Len(journal) + 1
      BY <1>1, <1>3, <1>6, <2>1, <3>2
    <3>3. CASE i = Len(journal) + 1 /\ j \in DOMAIN journal
      BY <1>1, <1>3, <1>6, <2>1, <3>3
    <3> QED
      BY <1>2, <3>1, <3>2, <3>3
  <2>2. ASSUME NEW j \in DOMAIN journal', Ends(journal'[j])
        PROVE  \E i \in 1 .. j - 1 : Starts(journal'[i]) /\ journal'[i].command = journal'[j].command
    <3>1. j \in DOMAIN journal
      BY <1>1, <1>2, <2>2 DEF Starts, Ends
    <3>2. PICK i \in 1 .. j - 1 : Starts(journal[i]) /\ journal[i].command = journal[j].command
      BY <1>3, <2>2, <3>1 DEF IdInv, Numbers, Orderly
    <3>3. i \in DOMAIN journal
      BY <1>1, <3>1
    <3> QED
      BY <1>3, <3>1, <3>2, <3>3
  <2> QED
    BY <2>1, <2>2 DEF Orderly
<1>9. ASSUME NEW i \in DOMAIN journal', Starts(journal'[i])
      PROVE  journal'[i].command <= i /\ \E k \in 1 .. minted + 1 : journal'[i].action = Uuid(k)
  <2>1. CASE i \in DOMAIN journal
    BY <1>3, <1>4, <1>9, <2>1 DEF IdInv, Numbers
  <2>2. CASE i = Len(journal) + 1
    BY <1>1, <1>4, <1>5, <2>2
  <2> QED
    BY <1>2, <2>1, <2>2
<1>10. ASSUME NEW i \in DOMAIN journal', NEW j \in DOMAIN journal',
              Starts(journal'[i]), Starts(journal'[j]), journal'[i].action = journal'[j].action
       PROVE  i = j
  <2>1. CASE i \in DOMAIN journal /\ j \in DOMAIN journal
    BY <1>3, <1>10, <2>1 DEF IdInv, Numbers
  <2>2. CASE i \in DOMAIN journal /\ j = Len(journal) + 1
    BY <1>1, <1>3, <1>7, <1>10, <2>2
  <2>3. CASE i = Len(journal) + 1 /\ j \in DOMAIN journal
    BY <1>1, <1>3, <1>7, <1>10, <2>3
  <2> QED
    BY <1>2, <2>1, <2>2, <2>3
<1>11. Numbers(journal', minted + 1)
  BY <1>8, <1>9, <1>10 DEF Numbers
<1>12. ASSUME NEW ids \in IdMaps(minted), MapsActions(ids, journal), NEW key \in DOMAIN ids
       PROVE  /\ key[1] = "action" =>
                     \E i \in DOMAIN journal' : Starts(journal'[i]) /\ key = <<"action", journal'[i].command>>
              /\ \A i \in DOMAIN journal' :
                     Starts(journal'[i]) /\ ids[key] = journal'[i].action => key = <<"action", journal'[i].command>>
  <2>1. ids[key] # e.action
    <3>1. 1 \in Nat \ {0}
      OBVIOUS
    <3> QED
      BY <1>4, <3>1, MapValues
  <2>2. key[1] = "action" =>
           \E i \in DOMAIN journal' : Starts(journal'[i]) /\ key = <<"action", journal'[i].command>>
    BY <1>3, <1>12 DEF MapsActions
  <2>3. \A i \in DOMAIN journal' :
           Starts(journal'[i]) /\ ids[key] = journal'[i].action => key = <<"action", journal'[i].command>>
    BY <1>1, <1>2, <1>3, <1>12, <2>1 DEF MapsActions
  <2> QED
    BY <2>2, <2>3
<1>13. \A ids \in IdMaps(minted) : MapsActions(ids, journal) => MapsActions(ids, journal')
  BY <1>12 DEF MapsActions
<1>14. ASSUME NEW ids \in IdMaps(minted), NEW new, MapsActions(ids, journal),
              DOMAIN new = DOMAIN ids \cup {<<"action", e.command>>},
              \A k \in DOMAIN ids : new[k] = ids[k], new[<<"action", e.command>>] = e.action
       PROVE  MapsActions(new, journal')
  <2> SUFFICES ASSUME NEW key \in DOMAIN new
               PROVE  /\ key[1] = "action" =>
                             \E i \in DOMAIN journal' : Starts(journal'[i]) /\ key = <<"action", journal'[i].command>>
                      /\ \A i \in DOMAIN journal' :
                             Starts(journal'[i]) /\ new[key] = journal'[i].action
                                => key = <<"action", journal'[i].command>>
    BY DEF MapsActions
  <2>1. CASE key \in DOMAIN ids
    BY <1>12, <1>14, <2>1
  <2>2. CASE key = <<"action", e.command>>
    <3>1. Len(journal) + 1 \in DOMAIN journal'
      BY <1>1
    <3> QED
      BY <1>1, <1>2, <1>3, <1>7, <1>14, <2>2, <3>1
  <2> QED
    BY <1>14, <2>1, <2>2
<1> QED
  BY <1>11, <1>13, <1>14

\* No id map knows more than another that has nothing.
LEMMA EmptyMaps == \A log : MapsActions(<<>>, log)
<1>1. DOMAIN <<>> = {}
  OBVIOUS
<1> QED
  BY <1>1 DEF MapsActions

\* No command has started at first.
LEMMA IdInit == ASSUME Init PROVE IdInv
<1>1. PICK calls \in Prologues : journal = [i \in DOMAIN calls |-> Declaration(calls[i], Initially)]
  BY DEF Init
<1>2. calls \in Seq(Calls)
  BY ConstantsAssumption
<1>3. \A i \in DOMAIN journal : journal[i] \in DeclarationEvents
  BY <1>1, <1>2, DeclarationTyped
<1>4. \A i \in DOMAIN journal : ~Starts(journal[i]) /\ ~Ends(journal[i])
  <2>1. \A e \in DeclarationEvents : ~Starts(e) /\ ~Ends(e)
    BY DEF DeclarationEvents, Starts, Ends
  <2> QED
    BY <1>3, <2>1
<1>5. Numbers(journal, minted)
  BY <1>4 DEF Numbers, Orderly
<1>6. runner = NoRunner /\ idMap = <<>> /\ builder.ids = <<>> /\ runner.ids = <<>>
  BY DEF Init, NoRunner, Idle
<1> QED
  BY <1>5, <1>6, EmptyMaps DEF IdInv, NextNumber

\* A number that is high enough for what has started is for what is there already.
LEMMA NumbersGrow ==
    ASSUME NEW log, NEW n \in Nat, NEW k \in Nat, n <= k, Numbers(log, n) PROVE Numbers(log, k)
<1>1. \A i \in 1 .. n : i \in 1 .. k
  OBVIOUS
<1> QED
  BY <1>1 DEF Numbers

\* The map a build leaves.
LEMMA BuildMaps ==
    ASSUME TypeInv, IdInv
    PROVE  MapsActions(Allocate(builder.ids, Keys(builder.built.model)), journal)
<1> DEFINE keys == Keys(builder.built.model)
           fresh == keys \ DOMAIN builder.ids
           count == Cardinality(fresh)
           ids == Allocate(builder.ids, keys)
<1>1. /\ builder.built.model \in Models /\ count \in Nat
      /\ Allocated(ids, builder.ids, fresh, count)
  BY BuildAllocates DEF TypeInv
<1>2. fresh \subseteq IdKeys /\ \A n : <<"action", n>> \notin fresh
  <2>1. keys \in SUBSET IdKeys /\ \A n : <<"action", n>> \notin keys
    BY <1>1, KeysTyped
  <2> HIDE DEF keys
  <2> QED
    BY <2>1
<1> HIDE DEF ids, fresh, count
<1>3. /\ DOMAIN ids = DOMAIN builder.ids \cup fresh
      /\ \A key \in DOMAIN builder.ids : ids[key] = builder.ids[key]
      /\ \A key \in fresh \cap StepKeys : ids[key] = key
      /\ \A key \in fresh \cap EventKeys : \E i \in 1 .. count : ids[key] = Uuid(minted + i)
  BY <1>1 DEF Allocated
<1>4. /\ MapsActions(builder.ids, journal) /\ minted \in Nat
      /\ \A i \in DOMAIN journal : Starts(journal[i]) => \E k \in 1 .. minted : journal[i].action = Uuid(k)
  BY DEF IdInv, Numbers, TypeInv
<1>5. ASSUME NEW key \in fresh
      PROVE  key[1] # "action" /\ \A i \in DOMAIN journal : Starts(journal[i]) => ids[key] # journal[i].action
  <2>1. CASE key \in StepKeys
    <3>1. key[1] # "action"
      BY <2>1, KeyKinds
    <3>2. ids[key] = key
      BY <1>3, <2>1
    <3>3. \A i \in DOMAIN journal : Starts(journal[i]) => ids[key] # journal[i].action
      <4> TAKE i \in DOMAIN journal
      <4> HAVE Starts(journal[i])
      <4>1. PICK k \in 1 .. minted : journal[i].action = Uuid(k)
        BY <1>4
      <4>2. k \in Nat
        BY <1>4
      <4> QED
        BY <2>1, <3>2, <4>1, <4>2, UuidFacts
    <3> QED
      BY <3>1, <3>3
  <2>2. CASE key \in EventKeys
    <3>1. key[1] # "action"
      BY <1>2, <2>2 DEF EventKeys
    <3>2. PICK j \in 1 .. count : ids[key] = Uuid(minted + j)
      BY <1>3, <2>2
    <3>3. \A i \in DOMAIN journal : Starts(journal[i]) => ids[key] # journal[i].action
      <4> TAKE i \in DOMAIN journal
      <4> HAVE Starts(journal[i])
      <4>1. PICK k \in 1 .. minted : journal[i].action = Uuid(k)
        BY <1>4
      <4>2. k \in Nat /\ minted + j \in Nat /\ k # minted + j
        BY <1>1, <1>4
      <4> QED
        BY <3>2, <4>1, <4>2, UuidFacts
    <3> QED
      BY <3>1, <3>3
  <2> QED
    BY <1>2, <2>1, <2>2 DEF IdKeys
<1>6. ASSUME NEW key \in DOMAIN ids
      PROVE  /\ key[1] = "action" => \E i \in DOMAIN journal : Starts(journal[i]) /\ key = <<"action", journal[i].command>>
             /\ \A i \in DOMAIN journal :
                    Starts(journal[i]) /\ ids[key] = journal[i].action => key = <<"action", journal[i].command>>
  <2>1. CASE key \in DOMAIN builder.ids
    BY <1>3, <1>4, <2>1 DEF MapsActions
  <2>2. CASE key \in fresh
    BY <1>5, <2>2
  <2> QED
    BY <1>3, <2>1, <2>2
<1>7. MapsActions(ids, journal)
  BY <1>6 DEF MapsActions
<1> QED
  BY <1>7 DEF ids, keys

\* Every step keeps the ids apart.
LEMMA IdNext == ASSUME TypeInv, IdInv, [Next]_vars PROVE IdInv'
<1>1. CASE UNCHANGED vars
  BY <1>1 DEF vars, IdInv, NextNumber
<1>2. CASE Recording
  <2>1. PICK e \in OtherEvents : journal' = Append(journal, e) /\ Ending(e)
    BY <1>2 DEF Recording
  <2>2. UNCHANGED <<idMap, minted, runner, builder>>
    BY <1>2 DEF Recording
  <2>3. /\ Numbers(journal', minted)
        /\ \A ids : MapsActions(ids, journal) => MapsActions(ids, journal')
        /\ \A i \in DOMAIN journal' : Starts(journal'[i]) => i \in DOMAIN journal /\ journal'[i] = journal[i]
    BY <2>1, OtherAppended DEF IdInv
  <2>4. Len(journal') = Len(journal) + 1 /\ Len(journal) \in Nat
    <3>1. e \in Events
      BY DEF OtherEvents
    <3> QED
      BY <2>1, <3>1, Grown
  <2>5. NextNumber'
    <3> SUFFICES ASSUME runner' # NoRunner
                 PROVE  /\ runner'.command <= Len(journal') + 1
                        /\ \A i \in DOMAIN journal' : Starts(journal'[i]) => journal'[i].command < runner'.command
      BY DEF NextNumber
    <3>1. /\ runner.command <= Len(journal) + 1
          /\ \A i \in DOMAIN journal : Starts(journal[i]) => journal[i].command < runner.command
      BY <2>2 DEF IdInv, NextNumber
    <3>2. runner.command \in Nat
      BY DEF TypeInv, Runners
    <3>3. runner'.command <= Len(journal') + 1
      BY <2>2, <2>4, <3>1, <3>2
    <3> QED
      BY <2>2, <2>3, <3>1, <3>3
  <2> QED
    BY <2>2, <2>3, <2>5 DEF IdInv
<1>3. CASE CommandLoad
  <2>1. runner' = [command |-> Len(journal) + 1, ids |-> idMap] /\ UNCHANGED <<journal, idMap, minted, builder>>
    BY <1>3 DEF CommandLoad
  <2>2. runner'.command = Len(journal) + 1 /\ runner'.ids = idMap
    BY <2>1
  <2>3. Len(journal) \in Nat /\ DOMAIN journal = 1 .. Len(journal)
    BY DEF TypeInv
  <2>4. \A i \in DOMAIN journal : Starts(journal[i]) => journal[i].command < Len(journal) + 1
    <3> TAKE i \in DOMAIN journal
    <3> HAVE Starts(journal[i])
    <3>1. journal[i].command <= i
      BY DEF IdInv, Numbers
    <3>2. journal[i] \in StartEvents
      <4>1. journal[i] \in Events
        BY DEF TypeInv
      <4> QED
        BY <4>1, EventFields DEF Starts
    <3>3. journal[i].command \in Nat
      BY <3>2 DEF StartEvents
    <3> QED
      BY <2>3, <3>1, <3>3
  <2>5. NextNumber'
    BY <2>1, <2>2, <2>3, <2>4 DEF NextNumber
  <2> QED
    BY <2>1, <2>2, <2>5 DEF IdInv
<1>4. ASSUME NEW line \in CommandLines, NEW step \in Names.steps \cup {NoStep}, CommandStart(line, step)
      PROVE  IdInv'
  <2> DEFINE key == <<"action", runner.command>>
             ids == Allocate(runner.ids, {key})
             e == StartEvent(line, step, ids[key])
  <2>1. minted \in Nat /\ runner \in Runners(minted)
    BY DEF TypeInv
  <2>2. /\ ids \in IdMaps(minted + 1) /\ ids[key] \in ActionIds
        /\ DOMAIN ids = DOMAIN runner.ids \cup {key}
        /\ \A k \in DOMAIN runner.ids : ids[k] = runner.ids[k]
        /\ key \notin DOMAIN runner.ids => ids[key] = Uuid(minted + 1)
    BY <2>1, StartAllocates
  <2>3. /\ journal' = Append(journal, e) /\ idMap' = ids /\ minted' = minted + 1 /\ runner' = NoRunner
        /\ runner # NoRunner /\ UNCHANGED builder
    BY <1>4 DEF CommandStart, StartEvent
  <2> HIDE DEF ids
  <2>4. e \in Events
    BY <2>1, <2>2, StartTyped
  <2>5. e.command = runner.command /\ e.action = ids[key] /\ Starts(e)
    BY DEF StartEvent, Starts
  <2>6. key \notin DOMAIN runner.ids
    <3> SUFFICES ASSUME key \in DOMAIN runner.ids PROVE FALSE
      OBVIOUS
    <3>1. key[1] = "action"
      OBVIOUS
    <3> HIDE DEF key
    <3>2. PICK i \in DOMAIN journal : Starts(journal[i]) /\ key = <<"action", journal[i].command>>
      BY <3>1 DEF IdInv, MapsActions
    <3>3. journal[i].command = runner.command
      BY <3>2 DEF key
    <3>4. journal[i].command < runner.command
      BY <2>3, <3>2 DEF IdInv, NextNumber
    <3>5. runner.command \in Nat
      BY <2>1 DEF Runners
    <3> QED
      BY <3>3, <3>4, <3>5
  <2>7. e.action = Uuid(minted + 1)
    BY <2>2, <2>5, <2>6
  <2> HIDE DEF e
  <2>8. runner.ids \in IdMaps(minted) /\ builder.ids \in IdMaps(minted)
    BY DEF TypeInv, Runners, Builders
  <2>9. /\ Numbers(journal', minted + 1)
        /\ MapsActions(builder.ids, journal')
        /\ MapsActions(ids, journal')
    <3>1. /\ Numbers(journal', minted + 1)
          /\ \A map \in IdMaps(minted) : MapsActions(map, journal) => MapsActions(map, journal')
          /\ \A map \in IdMaps(minted) : \A new :
                 /\ MapsActions(map, journal)
                 /\ DOMAIN new = DOMAIN map \cup {<<"action", e.command>>}
                 /\ \A k \in DOMAIN map : new[k] = map[k]
                 /\ new[<<"action", e.command>>] = e.action
                 => MapsActions(new, journal')
      BY <2>3, <2>4, <2>5, <2>7, StartAppended
    <3>2. <<"action", e.command>> = key
      BY <2>5
    <3>3. MapsActions(runner.ids, journal) /\ MapsActions(builder.ids, journal)
      BY DEF IdInv
    <3> HIDE DEF key
    <3> QED
      BY <2>2, <2>5, <2>8, <3>1, <3>2, <3>3
  <2>10. runner' = NoRunner /\ runner'.ids = <<>>
    BY <2>3 DEF NoRunner
  <2> QED
    BY <2>3, <2>9, <2>10, EmptyMaps DEF IdInv, NextNumber
<1>5. ASSUME NEW request \in Requests, Open(request) PROVE IdInv'
  <2>1. builder'.ids = idMap /\ UNCHANGED <<journal, idMap, minted, runner>>
    BY <1>5 DEF Open
  <2> QED
    BY <2>1 DEF IdInv, NextNumber
<1>6. CASE Write
  <2> DEFINE ids == Allocate(builder.ids, Keys(builder.built.model))
             count == Cardinality(Keys(builder.built.model) \ DOMAIN builder.ids)
  <2>1. /\ idMap' \in {idMap, ids} /\ minted' = minted + count /\ builder' = Idle /\ UNCHANGED <<journal, runner>>
    BY <1>6 DEF Write
  <2>2. MapsActions(ids, journal)
    BY BuildMaps
  <2>3. count \in Nat /\ minted \in Nat
    BY BuildAllocates DEF TypeInv
  <2> HIDE DEF ids, count
  <2>4. Numbers(journal, minted + count)
    <3>1. minted + count \in Nat /\ minted <= minted + count
      BY <2>3
    <3> QED
      BY <2>3, <3>1, NumbersGrow DEF IdInv
  <2>5. builder'.ids = <<>>
    BY <2>1, IdleTyped, <2>3
  <2> QED
    BY <2>1, <2>2, <2>4, <2>5, EmptyMaps DEF IdInv, NextNumber
<1> QED
  BY <1>1, <1>2, <1>3, <1>4, <1>5, <1>6, NextCases

-----------------------------------------------------------------------------
(* Each section has its own kinds of ids.                                   *)

Kinds(group, K) == \A e \in group : e.id[1] \in K

\* The ids of entities built with Entity.
LEMMA EntityKinds ==
    ASSUME NEW K
    PROVE  /\ \A id, types, links : id[1] \in K => Kinds({Entity(id, types, links)}, K)
           /\ \A id, types, links : Entity(id, types, links).id = id
           /\ \A a, b : Kinds(a, K) /\ Kinds(b, K) => Kinds(a \cup b, K)
           /\ Kinds({}, K)
<1>1. \A id, types, links : Entity(id, types, links).id = id
  BY DEF Entity
<1> QED
  BY <1>1 DEF Kinds

\* The kinds of the sections without the agent's actions.
LEMMA PlainKinds ==
    ASSUME NEW m, NEW profile, NEW plans, NEW formals, formals = FormalParameters(m, profile)
    PROVE  /\ Kinds(Scaffold(profile), {"descriptor", "profile"})
           /\ Kinds(Actors(m) \cup Tools(m), {"actor", "software"})
           /\ Kinds(Formals(formals), {"formal"})
           /\ Kinds(PlannedFiles(plans, formals), {"file"})
           /\ Kinds(BuildWorkflow(m, formals), {"file"})
           /\ Kinds({Entity(FileId(p), {"File"}, {}) : p \in UnplannedFiles(m, plans)}, {"file"})
           /\ Kinds(BuildTimeline(Timeline(m, plans)), {"wfstep", "wfcontrol"})
           /\ Kinds(Woven(m, Timeline(m, plans)), {"file"})
<1>1. \A id, types, links : Entity(id, types, links).id = id
  BY EntityKinds
<1>2. Kinds(Scaffold(profile), {"descriptor", "profile"})
  <2>1. \A id \in Conformance(profile) : id[1] = "profile"
    BY DEF Conformance
  <2>2. Kinds({Entity(id, {"Profile"}, {}) : id \in Conformance(profile)}, {"descriptor", "profile"})
    BY <1>1, <2>1 DEF Kinds
  <2>3. Kinds({Entity(<<"descriptor">>, {"CreativeWork"}, Ref("about", Root))}, {"descriptor", "profile"})
    BY <1>1 DEF Kinds
  <2> QED
    BY <2>2, <2>3, EntityKinds DEF Scaffold
<1>3. Kinds(Actors(m) \cup Tools(m), {"actor", "software"})
  <2>1. Kinds(Tools(m), {"actor", "software"})
    BY DEF Kinds, Tools, Software, Entity
  <2>2. \A e \in Actors(m) : e.id[1] = "actor"
    BY <1>1 DEF Actors, Actor, Engine
  <2> QED
    BY <2>1, <2>2 DEF Kinds
<1>4. Kinds(Formals(formals), {"formal"})
  <2>1. \A id \in formals.all : id[1] = "formal"
    BY DEF FormalParameters
  <2> QED
    BY <1>1, <2>1 DEF Kinds, Formals
<1>5. Kinds(PlannedFiles(plans, formals), {"file"})
  <2>1. \A plan : FileEntity(plan, formals).id = FileId(plan.path)
    BY <1>1 DEF FileEntity
  <2>2. \A p : FileId(p)[1] = "file"
    BY DEF FileId
  <2>3. \A plan : FileEntity(plan, formals).id[1] \in {"file"}
    BY <2>1, <2>2
  <2> QED
    BY <2>3 DEF Kinds, PlannedFiles
<1>6. Kinds(BuildWorkflow(m, formals), {"file"})
  <2>1. \A e \in BuildWorkflow(m, formals) : e.id = WorkflowId(m)
    BY <1>1 DEF BuildWorkflow
  <2> QED
    BY <2>1 DEF Kinds, WorkflowId, FileId
<1>7. Kinds({Entity(FileId(p), {"File"}, {}) : p \in UnplannedFiles(m, plans)}, {"file"})
  BY DEF Kinds, FileId, Entity
<1>8. Kinds(BuildTimeline(Timeline(m, plans)), {"wfstep", "wfcontrol"})
  <2> DEFINE timeline == Timeline(m, plans)
             pair(a) == {Entity(<<"wfstep", Place(a, timeline)>>, {"HowToStep"}, {}),
                         Entity(<<"wfcontrol", Place(a, timeline)>>, {"ControlAction"},
                                Ref("instrument", <<"wfstep", Place(a, timeline)>>) \cup Ref("object", a[2]))}
  <2>1. BuildTimeline(timeline) = UNION {pair(a) : a \in timeline}
    BY DEF BuildTimeline
  <2>2. ASSUME NEW a \in timeline PROVE Kinds(pair(a), {"wfstep", "wfcontrol"})
    <3> HIDE DEF timeline
    <3> QED
      BY <1>1 DEF Kinds
  <2> HIDE DEF pair
  <2>3. Kinds(BuildTimeline(timeline), {"wfstep", "wfcontrol"})
    BY <2>1, <2>2 DEF Kinds
  <2> QED
    BY <2>3
<1>9. Kinds(Woven(m, Timeline(m, plans)), {"file"})
  <2>1. \A e \in Woven(m, Timeline(m, plans)) : e.id = WorkflowId(m)
    BY <1>1 DEF Woven
  <2> QED
    BY <2>1 DEF Kinds, WorkflowId, FileId
<1> QED
  BY <1>2, <1>3, <1>4, <1>5, <1>6, <1>7, <1>8, <1>9

\* The kinds of the agent's actions.
LEMMA AgentKinds ==
    ASSUME NEW m, NEW plans
    PROVE  Kinds(BuildAgentActions(m, plans),
                 {"file-action", "software", "raw-command", "subagent", "result", "phase"})
<1>1. \A id, types, links : Entity(id, types, links).id = id
  BY EntityKinds
<1> DEFINE act(id, type, status, agent) == Entity(id, {type}, status \cup Ref("agent", Actor(agent)))
           done == Finished(TRUE)
           rawId(i) == <<"raw-command", m.shells[i].at>>
           rawLinks(i) == done \cup Ref("agent", Actor("claude-code")) \cup Ref("object", Root)
                          \cup Ref("instrument", Software(m.shells[i].tool))
           taskId(i) == <<"subagent", m.tasks[i].at>>
           edits == EmittedEdits(m, plans)
           tools == (IF edits = {} THEN {} ELSE {"editor"}) \cup {m.shells[i].tool : i \in DOMAIN m.shells}
           edited == {EditAction(m.edits[i]) : i \in edits}
           software == {Entity(Software(t), {"SoftwareApplication"}, {}) : t \in tools}
           raws == {Entity(rawId(i), {"CreateAction"}, rawLinks(i)) : i \in DOMAIN m.shells}
           tasks == {act(taskId(i), "Action", done, "claude-code")
                        : i \in DOMAIN m.tasks}
           results == {act(<<"result", i>>, "AssessAction", Finished(m.results[i]), "human")
                          : i \in DOMAIN m.results}
           phases == {act(<<"phase", i>>, "Action",
                  Status(IF m.phases[i].status = "completed" THEN "completed" ELSE "active"), "human")
                  : i \in DOMAIN m.phases}
           K == {"file-action", "software", "raw-command", "subagent", "result", "phase"}
<1>2. BuildAgentActions(m, plans) = edited \cup software \cup raws \cup tasks \cup results \cup phases
  BY DEF BuildAgentActions
<1>3. \A e \in edited : e.id[1] = "file-action"
  <2>1. \A edit : EditAction(edit).id = <<"file-action", edit.at>>
    BY <1>1 DEF EditAction
  <2>2. \A edit : EditAction(edit).id[1] = "file-action"
    BY <2>1
  <2> QED
    BY <2>2
<1>4. \A e \in software : e.id[1] = "software"
  BY DEF Software, Entity
<1>5. \A e \in raws : e.id[1] = "raw-command"
  <2>1. \A i : rawId(i)[1] = "raw-command"
    OBVIOUS
  <2> HIDE DEF rawId, rawLinks
  <2>2. \A e \in raws : \E i : e.id = rawId(i)
    BY <1>1
  <2> QED
    BY <2>1, <2>2
<1>6. \A e \in tasks : e.id[1] = "subagent"
  <2>1. \A i : taskId(i)[1] = "subagent"
    OBVIOUS
  <2> HIDE DEF taskId, done
  <2>2. \A e \in tasks : \E i : e.id = taskId(i)
    BY <1>1
  <2> QED
    BY <2>1, <2>2
<1>7. \A e \in results : e.id[1] = "result"
  BY DEF Entity
<1>8. \A e \in phases : e.id[1] = "phase"
  BY DEF Entity
<1> HIDE DEF edited, software, raws, tasks, results, phases
<1> QED
  BY <1>2, <1>3, <1>4, <1>5, <1>6, <1>7, <1>8 DEF Kinds

\* The sections and the root.
LEMMA FinalAre ==
    ASSUME NEW m, NEW profile, NEW plans, NEW ids, NEW final, final = Final(m, profile, plans, ids)
    PROVE  /\ \A i \in 1 .. 12 : final[i] = Sections(m, profile, plans, ids)[i]
           /\ \E root : final[13] = {root} /\ root.id = Root
           /\ \A i \in 1 .. 13 : i \in 1 .. 12 \/ i = 13
<1> DEFINE sections == Sections(m, profile, plans, ids)
           root == RootEntity(m, profile, plans, ids, Assembled(sections))
<1>1. final = Append(sections, {root}) /\ sections = [i \in 1 .. 12 |-> sections[i]]
  BY DEF Final, Sections
<1>2. root.id = Root
  BY DEF RootEntity, Entity
<1> HIDE DEF sections, root
<1>3. final[13] = {root} /\ \A i \in 1 .. 12 : final[i] = sections[i]
  BY <1>1
<1>4. \A i \in 1 .. 13 : i \in 1 .. 12 \/ i = 13
  OBVIOUS
<1> QED
  BY <1>2, <1>3, <1>4 DEF sections

\* The entity of a command's action.
CommandLinks(c) ==
    Finished(c.status = "completed") \cup Ref("agent", Actor("human")) \cup Ref("instrument", Software(c.tool))
    \cup Refs("object", FilesOf(c.inputs)) \cup Refs("result", FilesOf(c.outputs))
CommandEntity(c) == Entity(c.action, {CommandActionType(c)}, CommandLinks(c))

\* It is the only one of its id that is emitted, so the graph has it as it is.
LEMMA ActionWritten ==
    ASSUME NEW m \in Models, NEW profile, NEW ids, NEW plans, plans = PlanFileInclusion(m),
           NEW k \in DOMAIN m.commands, m.commands[k].action \in ActionIds,
           \A l \in DOMAIN m.commands : m.commands[l].action = m.commands[k].action => l = k,
           \A s \in Controlled(m) :
               ids[<<"control", m.commands[FirstCommand(m, s)].command>>] # m.commands[k].action,
           Executes(m) => ids[<<"workflow-action">>] # m.commands[k].action,
           NEW graph, graph = Graph(m, profile, plans, ids)
    PROVE  /\ m.commands[k].action \in DOMAIN graph
           /\ graph[m.commands[k].action] = CommandEntity(m.commands[k])
<1> DEFINE action == m.commands[k].action
           entity == CommandEntity(m.commands[k])
           sections == Sections(m, profile, plans, ids)
           final == Final(m, profile, plans, ids)
           formals == FormalParameters(m, profile)
           emitted == {e \in UNION {final[i] : i \in 1 .. 13} : e.id = action}
           Not(group) == \A e \in group : e.id # action
<1>1. Follows(graph, final, 13)
  BY GraphFollows
<1>2. action[1] = "uuid"
  <2>1. action \in ActionIds
    OBVIOUS
  <2>2. PICK n \in Nat : action = Uuid(n)
    BY <2>1 DEF ActionIds
  <2> HIDE DEF action
  <2> QED
    BY <2>2, UuidFacts
<1>3. \A id, types, links : Entity(id, types, links).id = id
  BY EntityKinds
<1>4. /\ \A i \in 1 .. 12 : final[i] = sections[i]
      /\ \E root : final[13] = {root} /\ root.id = Root
      /\ \A i \in 1 .. 13 : i \in 1 .. 12 \/ i = 13
  BY FinalAre
<1>5. /\ sections[1] = Scaffold(profile)
      /\ sections[2] = Actors(m) \cup Tools(m)
      /\ sections[3] = Formals(formals)
      /\ sections[4] = PlannedFiles(plans, formals)
      /\ sections[5] = BuildWorkflow(m, formals)
      /\ sections[6] = BuildWorkflowAction(m, ids)
      /\ sections[7] = BuildSteps(m, ids)
      /\ sections[8] = UNION {BuildCommandAction(m.commands[l]) : l \in DOMAIN m.commands}
      /\ sections[9] = {Entity(FileId(p), {"File"}, {}) : p \in UnplannedFiles(m, plans)}
      /\ sections[10] = BuildAgentActions(m, plans)
      /\ sections[11] = BuildTimeline(Timeline(m, plans))
      /\ sections[12] = Woven(m, Timeline(m, plans))
  BY SectionsAre
<1>6. /\ Kinds(sections[1], {"descriptor", "profile"})
      /\ Kinds(sections[2], {"actor", "software"})
      /\ Kinds(sections[3], {"formal"})
      /\ Kinds(sections[4], {"file"})
      /\ Kinds(sections[5], {"file"})
      /\ Kinds(sections[9], {"file"})
      /\ Kinds(sections[10], {"file-action", "software", "raw-command", "subagent", "result", "phase"})
      /\ Kinds(sections[11], {"wfstep", "wfcontrol"})
      /\ Kinds(sections[12], {"file"})
  <2>1. /\ Kinds(Scaffold(profile), {"descriptor", "profile"})
        /\ Kinds(Actors(m) \cup Tools(m), {"actor", "software"})
        /\ Kinds(Formals(formals), {"formal"})
        /\ Kinds(PlannedFiles(plans, formals), {"file"})
        /\ Kinds(BuildWorkflow(m, formals), {"file"})
        /\ Kinds({Entity(FileId(p), {"File"}, {}) : p \in UnplannedFiles(m, plans)}, {"file"})
        /\ Kinds(BuildTimeline(Timeline(m, plans)), {"wfstep", "wfcontrol"})
        /\ Kinds(Woven(m, Timeline(m, plans)), {"file"})
    BY PlainKinds
  <2> HIDE DEF formals, sections
  <2> QED
    BY <1>5, <2>1, AgentKinds
<1>7. Not(sections[6])
  <2>1. \A e \in BuildWorkflowAction(m, ids) : Executes(m) /\ e.id = ids[<<"workflow-action">>]
    BY <1>3 DEF BuildWorkflowAction
  <2> HIDE DEF sections
  <2> QED
    BY <1>5, <2>1
<1>8. Not(sections[7])
  <2> DEFINE example(s) == IF CommandsOf(m, s) # {} THEN {Software(m.commands[FirstCommand(m, s)].tool)}
                           ELSE IF m.workflow.engine THEN {Engine}
                           ELSE IF HasWorkflow(m) THEN {WorkflowId(m)} ELSE {}
             step(s) == <<"step", s>>
             howTo(s) == Entity(step(s), {"HowToStep"}, Refs("workExample", example(s)))
             first(s) == m.commands[FirstCommand(m, s)]
             id(s) == ids[<<"control", first(s).command>>]
             links(s) == Status(StepStatus(m.steps[s])) \cup Ref("instrument", step(s))
                         \cup Ref("object", first(s).action)
             control(s) == Entity(id(s), {"ControlAction"}, links(s))
  <2>1. BuildSteps(m, ids) = {howTo(s) : s \in DOMAIN m.steps} \cup {control(s) : s \in Controlled(m)}
    BY DEF BuildSteps
  <2>2. \A s : step(s)[1] = "step"
    OBVIOUS
  <2>3. \A s \in Controlled(m) : id(s) # action
    OBVIOUS
  <2> HIDE DEF step, id, links, example, sections, action
  <2>4. \A s : howTo(s).id = step(s) /\ control(s).id = id(s)
    BY <1>3
  <2> HIDE DEF howTo, control
  <2>5. Not(BuildSteps(m, ids))
    BY <1>2, <2>1, <2>2, <2>3, <2>4
  <2> QED
    BY <1>5, <2>5
<1>9. /\ \A e \in sections[8] : e.id = action => e = entity
      /\ entity \in sections[8] /\ entity.id = action
  <2> DEFINE log(c) == Entity(<<"log", c.command>>, {"File"}, Ref("about", c.action))
  <2>1. \A c : BuildCommandAction(c) = {CommandEntity(c), log(c)}
    BY DEF BuildCommandAction, CommandEntity, CommandLinks
  <2>2. \A c : CommandEntity(c).id = c.action
    BY <1>3 DEF CommandEntity
  <2>3. \A c : log(c).id[1] = "log"
    BY DEF Entity
  <2> HIDE DEF log, sections
  <2>4. \A l \in DOMAIN m.commands : m.commands[l].action = action => CommandEntity(m.commands[l]) = entity
    OBVIOUS
  <2> HIDE DEF entity, action
  <2>5. ASSUME NEW e \in sections[8], e.id = action PROVE e = entity
    <3>1. PICK l \in DOMAIN m.commands : e \in BuildCommandAction(m.commands[l])
      BY <1>5
    <3> QED
      BY <1>2, <2>1, <2>2, <2>3, <2>4, <2>5, <3>1
  <2>6. entity \in BuildCommandAction(m.commands[k]) /\ entity.id = action
    BY <2>1, <2>2 DEF entity, action
  <2>7. entity \in sections[8]
    BY <1>5, <2>6
  <2> QED
    BY <2>5, <2>6, <2>7
<1> HIDE DEF action, entity, sections, final, formals
<1>10. \A i \in 1 .. 12 : \A e \in sections[i] : e.id = action => e = entity
  <2>1. /\ Not(sections[1]) /\ Not(sections[2]) /\ Not(sections[3]) /\ Not(sections[4]) /\ Not(sections[5])
        /\ Not(sections[9]) /\ Not(sections[10]) /\ Not(sections[11]) /\ Not(sections[12])
    BY <1>2, <1>6 DEF Kinds
  <2>2. \A i \in 1 .. 12 : i \in {1, 2, 3, 4, 5, 6, 7, 8, 9, 10, 11, 12}
    OBVIOUS
  <2> QED
    BY <1>7, <1>8, <1>9, <2>1, <2>2
<1>11. \A e \in final[13] : e.id # action
  BY <1>2, <1>4 DEF Root
<1>12. emitted = {entity}
  <2>1. \A e \in emitted : e = entity
    <3> SUFFICES ASSUME NEW i \in 1 .. 13, NEW e \in final[i], e.id = action PROVE e = entity
      OBVIOUS
    <3> QED
      BY <1>4, <1>10, <1>11
  <2>2. entity \in final[8] /\ 8 \in 1 .. 13
    BY <1>4, <1>9
  <2>3. entity \in emitted
    BY <1>9, <2>2
  <2> QED
    BY <2>1, <2>3
<1>13. action \in DOMAIN graph
  <2>1. DOMAIN graph = Ids(UNION {final[i] : i \in 1 .. 13})
    BY <1>1 DEF Follows
  <2>2. entity \in UNION {final[i] : i \in 1 .. 13}
    BY <1>12
  <2> QED
    BY <1>9, <2>1, <2>2 DEF Ids
<1>14. graph[action] = entity
  <2>1. Owes(graph[action], action, final, 13)
    BY <1>1, <1>13 DEF Follows
  <2>2. \A e \in emitted : emitted = {e} => graph[action] = e
    BY <2>1 DEF Owes
  <2> HIDE DEF emitted
  <2> QED
    BY <1>12, <2>2
<1> QED
  BY <1>13, <1>14 DEF action, entity

\* What the action of a command says of how it ended.
LEMMA CommandStatus ==
    ASSUME NEW c
    PROVE  LET targets(property) == {link[2] : link \in {l \in CommandLinks(c) : l[1] = property}}
           IN  /\ targets("actionStatus") = {<<"status", IF c.status = "completed" THEN "completed" ELSE "failed">>}
               /\ (targets("error") = {}) = (c.status = "completed")
<1> DEFINE finished == Finished(c.status = "completed")
           agent == Ref("agent", Actor("human"))
           instrument == Ref("instrument", Software(c.tool))
           object == Refs("object", FilesOf(c.inputs))
           result == Refs("result", FilesOf(c.outputs))
           of(property) == {l \in CommandLinks(c) : l[1] = property}
           status == <<"actionStatus", <<"status", IF c.status = "completed" THEN "completed" ELSE "failed">>>>
           error == <<"error", <<"text">>>>
<1>1. CommandLinks(c) = finished \cup agent \cup instrument \cup object \cup result
  BY DEF CommandLinks
<1>2. finished = IF c.status = "completed" THEN {status} ELSE {status, error}
  BY DEF Finished, Status
<1>3. /\ status[1] = "actionStatus"
      /\ status[2] = <<"status", IF c.status = "completed" THEN "completed" ELSE "failed">>
      /\ error[1] = "error"
  OBVIOUS
<1>4. /\ \A l \in agent : l[1] = "agent"
      /\ \A l \in instrument : l[1] = "instrument"
      /\ \A l \in object : l[1] = "object"
      /\ \A l \in result : l[1] = "result"
  BY DEF Ref, Refs
<1> HIDE DEF finished, agent, instrument, object, result, status, error
<1>5. of("actionStatus") = {status}
  BY <1>1, <1>2, <1>3, <1>4
<1>6. of("error") = IF c.status = "completed" THEN {} ELSE {error}
  BY <1>1, <1>2, <1>3, <1>4
<1> HIDE DEF of
<1>7. {link[2] : link \in of("actionStatus")} = {status[2]}
  BY <1>5
<1>8. ({link[2] : link \in of("error")} = {}) = (c.status = "completed")
  <2>1. CASE c.status = "completed"
    BY <1>6, <2>1
  <2>2. CASE c.status # "completed"
    <3>1. error \in of("error")
      BY <1>6, <2>2
    <3>2. error[2] \in {link[2] : link \in of("error")}
      BY <3>1
    <3> QED
      BY <2>2, <3>2
  <2> QED
    BY <2>1, <2>2
<1> QED
  BY <1>3, <1>7, <1>8 DEF of

\* A graph has the action of the command started by an event, and its status.
Represented(graph, log, i, n) ==
    LET targets(property) == {link[2] : link \in {l \in graph[log[i].action].links : l[1] = property}}
        completed == Done(log, log[i].command, n)
    IN  /\ log[i].action \in DOMAIN graph
        /\ targets("actionStatus") = {<<"status", IF completed THEN "completed" ELSE "failed">>}
        /\ (targets("error") = {}) = completed

AllRepresented ==
    \A i \in DOMAIN journal :
        Starts(journal[i]) /\ i \in 1 .. crate.through => Represented(crate.graph, journal, i, crate.through)

\* That is what the property says.
LEMMA RepresentedIs == ASSUME TypeInv, AllRepresented PROVE CommandsRepresented
<1> DEFINE n == crate.through
           log == SubSeq(journal, 1, n)
<1>1. journal \in Seq(Events) /\ n \in 0 .. Len(journal)
  BY DEF TypeInv
<1> HIDE DEF n
<1>2. DOMAIN log = 1 .. n /\ \A i \in 1 .. n : log[i] = journal[i]
  BY <1>1
<1> HIDE DEF log
<1>3. \A command : TerminalsOf(command, log) = EndsOf(journal, command, n)
  BY <1>2 DEF TerminalsOf, EndsOf, Ends
<1>4. \A command : Completed(command) = Done(journal, command, n)
  BY <1>3 DEF Completed, Done, log, n
<1>5. ASSUME NEW i \in Started \cap Seen
      PROVE  LET action == journal[i].action
                 completed == Completed(journal[i].command)
             IN  /\ action \in Graphed
                 /\ Targets(action, "actionStatus") =
                        {<<"status", IF completed THEN "completed" ELSE "failed">>}
                 /\ (Targets(action, "error") = {}) = completed
  <2> DEFINE action == journal[i].action
  <2>1. i \in DOMAIN journal /\ Starts(journal[i]) /\ i \in 1 .. n
    BY DEF Started, Seen, Starts, n
  <2>2. Represented(crate.graph, journal, i, n)
    BY <2>1 DEF AllRepresented, n
  <2>3. action \in Graphed
    BY <2>2 DEF Represented, Graphed
  <2>4. \A property : Targets(action, property) =
                         {link[2] : link \in {l \in crate.graph[action].links : l[1] = property}}
    BY <2>3 DEF Targets, Links
  <2> QED
    BY <1>4, <2>2, <2>3, <2>4 DEF Represented
<1> QED
  BY <1>5 DEF CommandsRepresented

\* Every command a build has read is in the crate it writes.
LEMMA CommandsWritten ==
    ASSUME TypeInv, BuiltInv, IdInv, Write PROVE AllRepresented'
<1> DEFINE m == builder.built.model
           profile == builder.built.profile
           plans == PlanFileInclusion(m)
           ids == Allocate(builder.ids, Keys(m))
           graph == Graph(m, profile, plans, ids)
           n == builder.through
<1>1. builder.open /\ journal' = journal
      /\ crate' = [through |-> n, profile |-> profile, graph |-> graph]
  BY DEF Write
<1>2. crate'.through = n /\ crate'.graph = graph
  BY <1>1
<1>3. m \in Models /\ journal \in Seq(Events) /\ n \in 0 .. Len(journal)
  BY <1>1, BuiltReads DEF TypeInv, Builders
<1>4. Orderly(journal)
  BY DEF IdInv, Numbers
<1>5. Tracked(m.commands, journal, n)
  <2>1. PICK request, files : builder.built = BuildModel(journal, n, request, files)
    BY <1>1 DEF BuiltInv
  <2> QED
    BY <1>3, <1>4, <2>1, CommandsRead
<1>6. MapsActions(ids, journal)
  BY BuildMaps
<1>7. Keys(m) \subseteq DOMAIN ids
  BY DEF Allocate
<1>8. DOMAIN journal = 1 .. Len(journal) /\ 1 .. n \subseteq DOMAIN journal
  BY <1>3
<1> HIDE DEF m, profile, plans, ids, graph, n
<1>9. ASSUME NEW i \in DOMAIN journal, Starts(journal[i]), i \in 1 .. n
      PROVE  Represented(graph, journal, i, n)
  <2>1. PICK k \in DOMAIN m.commands : m.commands[k].at = i
    BY <1>5, <1>9 DEF Tracked
  <2>2. \A l \in DOMAIN m.commands : Reflects(m.commands[l], journal, n)
    BY <1>5 DEF Tracked
  <2> DEFINE c == m.commands[k]
  <2>3. /\ c.command = journal[i].command /\ c.action = journal[i].action
        /\ (c.status = "completed") = Done(journal, c.command, n)
    BY <2>1, <2>2 DEF Reflects
  <2>4. ASSUME NEW l \in DOMAIN m.commands, m.commands[l].action = c.action PROVE l = k
    <3>1. /\ m.commands[l].at \in 1 .. n /\ Starts(journal[m.commands[l].at])
          /\ m.commands[l].action = journal[m.commands[l].at].action
      BY <2>2 DEF Reflects
    <3>2. m.commands[l].at = i
      BY <1>8, <1>9, <2>3, <2>4, <3>1 DEF IdInv, Numbers
    <3>3. l \in Nat /\ k \in Nat
      <4>1. m.commands \in Seq(Commands)
        BY <1>3, ModelFields
      <4> QED
        BY <4>1
    <3>4. ~(l < k) /\ ~(k < l)
      <4>1. i \in Nat
        BY <1>8
      <4> QED
        BY <1>5, <2>1, <3>2, <4>1 DEF Tracked
    <3> QED
      BY <3>3, <3>4
  <2>5. \A key \in DOMAIN ids : ids[key] = c.action => key[1] = "action"
    <3>1. \A key \in DOMAIN ids : ids[key] = c.action => key = <<"action", journal[i].command>>
      BY <1>6, <1>9, <2>3 DEF MapsActions
    <3>2. <<"action", journal[i].command>>[1] = "action"
      OBVIOUS
    <3> QED
      BY <3>1, <3>2
  <2>6. ASSUME NEW s \in Controlled(m)
        PROVE  ids[<<"control", m.commands[FirstCommand(m, s)].command>>] # c.action
    <3> DEFINE key == <<"control", m.commands[FirstCommand(m, s)].command>>
    <3>1. key[1] = "control"
      OBVIOUS
    <3>2. key \in Keys(m)
      BY DEF Keys
    <3> HIDE DEF key
    <3>3. ids[key] # c.action
      BY <1>7, <2>5, <3>1, <3>2
    <3> QED
      BY <3>3 DEF key
  <2>7. ASSUME Executes(m) PROVE ids[<<"workflow-action">>] # c.action
    <3> DEFINE key == <<"workflow-action">>
    <3>1. key[1] = "workflow-action"
      OBVIOUS
    <3>2. key \in Keys(m)
      BY <2>7 DEF Keys
    <3> HIDE DEF key
    <3>3. ids[key] # c.action
      BY <1>7, <2>5, <3>1, <3>2
    <3> QED
      BY <3>3 DEF key
  <2>8. c.action \in ActionIds
    <3>1. PICK j \in 1 .. minted : journal[i].action = Uuid(j)
      BY <1>9 DEF IdInv, Numbers
    <3>2. j \in Nat
      BY DEF TypeInv
    <3> QED
      BY <2>3, <3>1, <3>2, UuidFacts
  <2>9. c.action \in DOMAIN graph /\ graph[c.action] = CommandEntity(c)
    BY <1>3, <2>4, <2>6, <2>7, <2>8, ActionWritten DEF graph, plans
  <2>10. graph[c.action].links = CommandLinks(c)
    BY <2>9 DEF CommandEntity, Entity
  <2> HIDE DEF c
  <2>11. /\ {link[2] : link \in {l \in CommandLinks(c) : l[1] = "actionStatus"}}
               = {<<"status", IF c.status = "completed" THEN "completed" ELSE "failed">>}
         /\ ({link[2] : link \in {l \in CommandLinks(c) : l[1] = "error"}} = {}) = (c.status = "completed")
    BY CommandStatus
  <2> QED
    BY <2>3, <2>9, <2>10, <2>11 DEF Represented
<1> QED
  BY <1>1, <1>2, <1>9 DEF AllRepresented

\* What the crate holds does not depend on what is recorded after its mark.
LEMMA RepresentedStays ==
    ASSUME TypeInv, AllRepresented, Continuing PROVE AllRepresented'
<1> DEFINE n == crate.through
<1>1. n \in 0 .. Len(journal) /\ journal \in Seq(Events) /\ crate' = crate
  BY DEF TypeInv, Continuing
<1> HIDE DEF n
<1>2. DOMAIN journal = 1 .. Len(journal) /\ \A i \in 1 .. n : i \in DOMAIN journal /\ journal'[i] = journal[i]
  <2>1. CASE journal' = journal
    BY <1>1, <2>1
  <2>2. ASSUME NEW e \in Events, journal' = Append(journal, e)
        PROVE  DOMAIN journal = 1 .. Len(journal) /\ \A i \in 1 .. n : i \in DOMAIN journal /\ journal'[i] = journal[i]
    BY <1>1, <2>2, Grown
  <2> QED
    BY <2>1, <2>2 DEF Continuing
<1>3. \A command : EndsOf(journal', command, n) = EndsOf(journal, command, n)
  BY <1>2 DEF EndsOf, Ends
<1>4. \A command : Done(journal', command, n) = Done(journal, command, n)
  <2> TAKE command
  <2>1. \A j \in EndsOf(journal, command, n) : journal'[j] = journal[j]
    BY <1>2 DEF EndsOf
  <2> QED
    BY <1>3, <2>1 DEF Done
<1>5. ASSUME NEW i \in 1 .. n, Starts(journal'[i]) PROVE Represented(crate.graph, journal', i, n)
  <2>1. journal'[i] = journal[i] /\ i \in DOMAIN journal
    BY <1>2
  <2>2. Represented(crate.graph, journal, i, n)
    BY <1>5, <2>1 DEF AllRepresented, n
  <2> QED
    BY <1>4, <2>1, <2>2 DEF Represented
<1> QED
  BY <1>1, <1>5 DEF AllRepresented, n

\* The commands of the crate, with what keeps their ids apart.
CommandInv == TypeInv /\ BuiltInv /\ IdInv /\ AllRepresented

LEMMA CommandInit == ASSUME Init PROVE CommandInv
<1>1. crate.through = 0 /\ ~builder.open
  BY DEF Init, NoCrate, Idle
<1>2. AllRepresented
  BY <1>1 DEF AllRepresented
<1> QED
  BY <1>1, <1>2, TypeInit, IdInit DEF CommandInv, BuiltInv

\* Every step keeps them.
LEMMA CommandNext == ASSUME CommandInv, [Next]_vars PROVE CommandInv'
<1>1. TypeInv /\ BuiltInv /\ IdInv /\ AllRepresented
  BY DEF CommandInv
<1>2. TypeInv' /\ BuiltInv' /\ IdInv'
  BY <1>1, TypeNext, BuiltNext, IdNext
<1>3. CASE Continuing
  BY <1>1, <1>2, <1>3, RepresentedStays DEF CommandInv
<1>4. ASSUME NEW request \in Requests, Open(request) PROVE CommandInv'
  <2>1. journal' = journal /\ crate' = crate
    BY <1>4 DEF Open
  <2> QED
    BY <1>1, <1>2, <2>1 DEF CommandInv, AllRepresented
<1>5. CASE Write
  BY <1>1, <1>2, <1>5, CommandsWritten DEF CommandInv
<1> QED
  BY <1>1, <1>3, <1>4, <1>5, Phased

\* Every command the crate was built from has its action in the crate, completed exactly
\* if the last the journal says of it is that it completed, and with an error otherwise:
\* the reducer has one record per command and lets the last terminal event count, and the
\* id maps of runs and checkpoints that overlap give no two of them one id.
THEOREM CommandsAreRepresented == Spec => []CommandsRepresented
<1>1. Init => CommandInv
  BY CommandInit
<1>2. CommandInv /\ [Next]_vars => CommandInv'
  BY CommandNext
<1>3. CommandInv => CommandsRepresented
  BY RepresentedIs DEF CommandInv
<1> QED
  BY <1>1, <1>2, <1>3, PTL DEF Spec

-----------------------------------------------------------------------------
(* What commands produced.                                                  *)

\* What a build infers of an output that is there, it copies.
LEMMA OutputCopied ==
    ASSUME NEW m \in Models, NEW k \in DOMAIN m.commands, NEW p \in m.commands[k].outputs,
           p \in disk \ (Outside \cup Ignored \cup Sensitive), Policy.outputs, Policy.copies
    PROVE  p \in DOMAIN PlanFileInclusion(m) /\ PlanFileInclusion(m)[p].copy
<1> DEFINE plan == PlanForPath(p, "output", "default", "", FALSE)
           group == Inferred(m.commands[k].outputs, "output")
           plans == PlanFileInclusion(m)
<1>1. plan.path = p /\ plan.copy
  <2>1. IncludedForRole("output")
    BY DEF IncludedForRole
  <2>2. ClassifyCopy(p, "default", p \notin Outside \cup Sensitive /\ IncludedForRole("output"))
    BY <2>1 DEF ClassifyCopy
  <2> QED
    BY <2>1, <2>2 DEF PlanForPath
<1>2. plan \in group /\ group \in Range(Considered(m))
  BY ConsideredGroups DEF Inferred
<1>3. p \in DOMAIN plans
  <2>1. p \in ConsideredPaths(m)
    BY DEF ConsideredPaths, OutputsOf
  <2> QED
    BY <2>1, PlansFollow
<1>4. plan.copy => plans[plan.path].copy
  <2>1. p \notin Ignored \ Outside
    OBVIOUS
  <2> HIDE DEF plan, group, plans
  <2> QED
    BY <1>1, <1>2, <2>1, PlansFollow DEF plans
<1> QED
  BY <1>1, <1>3, <1>4

\* A build that is written has copied what the commands it read have produced.
LEMMA ProducedWritten ==
    ASSUME CommandInv, [Next]_vars, Writes, Policy.outputs, Policy.copies PROVE Captured'
<1>1. TypeInv /\ BuiltInv /\ IdInv /\ builder.open /\ ~builder'.open
  BY DEF CommandInv, Writes
<1>2. Write
  <2>1. ASSUME NEW request \in Requests, Open(request) PROVE FALSE
    BY <1>1, <2>1 DEF Open
  <2>2. ~Continuing
    BY <1>1 DEF Continuing
  <2> QED
    BY <1>1, <2>1, <2>2, Phased
<1> DEFINE m == builder.built.model
           plans == PlanFileInclusion(m)
           n == builder.through
<1>3. /\ journal' = journal /\ disk' = disk /\ crate'.through = n
      /\ copied' = copied \cup {p \in DOMAIN plans : plans[p].copy}
  BY <1>2 DEF Write
<1>4. m \in Models /\ journal \in Seq(Events) /\ n \in 0 .. Len(journal)
  BY <1>1, BuiltReads DEF TypeInv, Builders
<1>5. Tracked(m.commands, journal, n)
  <2>1. PICK request, files : builder.built = BuildModel(journal, n, request, files)
    BY <1>1 DEF BuiltInv
  <2>2. Orderly(journal)
    BY <1>1 DEF IdInv, Numbers
  <2> QED
    BY <1>4, <2>1, <2>2, CommandsRead
<1> HIDE DEF m, plans, n
<1>6. ASSUME NEW i \in (Started \cap Seen)', NEW p \in journal'[i].outputs,
             p \in disk' \ (Outside \cup Ignored \cup Sensitive)
      PROVE  p \in copied'
  <2>1. i \in 1 .. n /\ Starts(journal[i])
    BY <1>3 DEF Started, Seen, Starts
  <2>2. PICK k \in DOMAIN m.commands : m.commands[k].at = i
    BY <1>5, <2>1 DEF Tracked
  <2>3. m.commands[k].outputs = journal[i].outputs
    BY <1>5, <2>2 DEF Tracked, Reflects
  <2>4. p \in DOMAIN plans /\ plans[p].copy
    BY <1>3, <1>4, <1>6, <2>3, OutputCopied DEF plans
  <2> QED
    BY <1>3, <2>4
<1> QED
  BY <1>6 DEF Captured

\* What the commands a checkpoint has read produced, and is there, is in the crate when
\* the checkpoint is done, though the user may have declared it by reference: merging
\* plans loses nothing that one of them captures.
THEOREM ProducedFilesAreCaptured == Spec => ProducedIsCaptured
<1>1. Init => CommandInv
  BY CommandInit
<1>2. CommandInv /\ [Next]_vars => CommandInv'
  BY CommandNext
<1>3. CommandInv /\ [Next]_vars => [Writes /\ Policy.outputs /\ Policy.copies => Captured']_vars
  BY ProducedWritten
<1> QED
  BY <1>1, <1>2, <1>3, PTL DEF Spec, ProducedIsCaptured

-----------------------------------------------------------------------------
(* What the profile checks ask of each section.                             *)

\* What holds of the fields of an entity and of its links.
LEMMA EntityIs ==
    ASSUME NEW id, NEW types, NEW links
    PROVE  /\ Entity(id, types, links).id = id /\ Entity(id, types, links).types = types
           /\ Entity(id, types, links).links = links
BY DEF Entity

\* The properties of links.
LEMMA LinkHas ==
    /\ \A p, x : Has(Ref(p, x), p)
    /\ \A p, q, x : Has(Ref(p, x), q) => q = p
    /\ \A p, q, ids : Has(Refs(p, ids), q) => q = p
    /\ \A p, ids : ids # {} => Has(Refs(p, ids), p)
    /\ \A a, b, q : Has(a \cup b, q) <=> Has(a, q) \/ Has(b, q)
    /\ \A q : ~Has({}, q)
    /\ \A links : ~Has(links, "actionStatus") => Explained(links)
    /\ \A ok, rest : ~Has(rest, "actionStatus") => Explained(Finished(ok) \cup rest)
    /\ \A status, rest : status # "failed" /\ ~Has(rest, "actionStatus") => Explained(Status(status) \cup rest)
<1>1. \A p, q, x : Has(Ref(p, x), q) <=> q = p
  <2> TAKE p, q, x
  <2>1. <<p, x>>[1] = p
    OBVIOUS
  <2> QED
    BY <2>1 DEF Has, Ref
<1>2. \A p, q, ids : Has(Refs(p, ids), q) => q = p
  BY DEF Has, Refs
<1>3. \A p, ids : ids # {} => Has(Refs(p, ids), p)
  <2> TAKE p, ids
  <2> HAVE ids # {}
  <2>1. PICK id \in ids : TRUE
    OBVIOUS
  <2>2. <<p, id>> \in Refs(p, ids) /\ <<p, id>>[1] = p
    BY DEF Refs
  <2> QED
    BY <2>2 DEF Has
<1>4. \A a, b, q : Has(a \cup b, q) <=> Has(a, q) \/ Has(b, q)
  BY DEF Has
<1>5. \A q : ~Has({}, q)
  BY DEF Has
<1>7. \A links : ~Has(links, "actionStatus") => ~Failing(links)
  BY DEF Has, Failing
<1>8. \A links : ~Has(links, "actionStatus") => Explained(links)
  BY <1>7 DEF Explained
<1>9. ASSUME NEW status, status # "failed" PROVE ~Failing(Status(status))
  <2> DEFINE link == <<"actionStatus", <<"status", status>>>>
  <2>1. link[2] = <<"status", status>> /\ <<"status", status>> # <<"status", "failed">>
    BY <1>9
  <2>2. \A l \in Status(status) : l = link
    BY DEF Status
  <2> HIDE DEF link
  <2> QED
    BY <2>1, <2>2 DEF Failing
<1>10. ASSUME NEW ok, NEW rest, ~Has(rest, "actionStatus") PROVE Explained(Finished(ok) \cup rest)
  <2>1. CASE ok
    <3>1. Finished(ok) = Status("completed") /\ "completed" # "failed"
      BY <2>1 DEF Finished
    <3>2. ~Failing(Finished(ok))
      BY <1>9, <3>1
    <3> QED
      BY <1>7, <1>10, <3>2 DEF Explained, Failing
  <2>2. CASE ~ok
    <3>1. <<"error", <<"text">>>> \in Finished(ok) /\ <<"error", <<"text">>>>[1] = "error"
      BY <2>2 DEF Finished
    <3>2. Has(Finished(ok) \cup rest, "error")
      BY <3>1 DEF Has
    <3> QED
      BY <3>2 DEF Explained
  <2> QED
    BY <2>1, <2>2
<1>11. \A status, rest : status # "failed" /\ ~Has(rest, "actionStatus") => Explained(Status(status) \cup rest)
  BY <1>7, <1>9 DEF Explained, Failing
<1> QED
  BY <1>1, <1>2, <1>3, <1>4, <1>5, <1>8, <1>10, <1>11

\* The types that oblige: actions with an instrument, steps and workflows.
Doing == {"CreateAction", "UpdateAction"}
Working == {"HowToStep", "ComputationalWorkflow"}

\* Entities without a status, that are none of these.
Silent(group) == \A e \in group : ~Has(e.links, "actionStatus") /\ e.types \cap (Doing \cup Working) = {}

\* Actions: those that create or update have an instrument, those that failed an error.
Doers(group) ==
    \A e \in group : /\ Explained(e.links) /\ e.types \cap Working = {}
                     /\ e.types \cap Doing # {} => Has(e.links, "instrument")

\* Silence is no offence.
LEMMA SilentDoers == ASSUME NEW group, Silent(group) PROVE Doers(group)
<1>1. \A links : ~Has(links, "actionStatus") => Explained(links)
  BY LinkHas
<1> QED
  BY <1>1 DEF Silent, Doers

\* The sections without actions.
LEMMA SilentSections ==
    ASSUME NEW m, NEW profile, NEW plans, NEW formals
    PROVE  /\ Silent(Scaffold(profile)) /\ Silent(Actors(m) \cup Tools(m)) /\ Silent(Formals(formals))
           /\ Silent(PlannedFiles(plans, formals))
           /\ Silent({Entity(FileId(p), {"File"}, {}) : p \in UnplannedFiles(m, plans)})
<1>1. \A id, types, links : Entity(id, types, links).types = types /\ Entity(id, types, links).links = links
  BY EntityIs
<1> DEFINE Quiet(types, links) == ~Has(links, "actionStatus") /\ types \cap (Doing \cup Working) = {}
<1>2. ASSUME NEW type \in {"CreativeWork", "Profile", "Person", "SoftwareApplication", "FormalParameter", "File"},
             NEW links, ~Has(links, "actionStatus")
      PROVE  Quiet({type}, links)
  BY <1>2 DEF Doing, Working
<1>3. ~Has({}, "actionStatus") /\ ~Has(Ref("about", Root), "actionStatus")
  BY LinkHas
<1>4. \A group : (\A e \in group : Quiet(e.types, e.links)) => Silent(group)
  BY DEF Silent
<1> HIDE DEF Quiet
<1>5. Silent(Scaffold(profile))
  BY <1>1, <1>2, <1>3, <1>4 DEF Scaffold
<1>6. Silent(Actors(m) \cup Tools(m))
  BY <1>1, <1>2, <1>3, <1>4 DEF Actors, Tools
<1>7. Silent(Formals(formals))
  BY <1>1, <1>2, <1>3, <1>4 DEF Formals
<1>8. Silent({Entity(FileId(p), {"File"}, {}) : p \in UnplannedFiles(m, plans)})
  BY <1>1, <1>2, <1>3, <1>4
<1>9. Silent(PlannedFiles(plans, formals))
  <2>1. ASSUME NEW plan PROVE Quiet(FileEntity(plan, formals).types, FileEntity(plan, formals).links)
    <3> DEFINE works == {<<"exampleOfWork", pair[2]>> : pair \in {q \in formals.of : q[1] = plan.path}}
               exists == IF plan.sensitive \/ plan.existence = "" THEN {} ELSE {<<"existence", <<plan.existence>>>>}
    <3>1. FileEntity(plan, formals) = Entity(FileId(plan.path), {"File"}, works \cup exists)
      BY DEF FileEntity
    <3>2. ~Has(works, "actionStatus")
      BY DEF Has
    <3>3. ~Has(exists, "actionStatus")
      <4>1. ~Has({<<"existence", <<plan.existence>>>>}, "actionStatus")
        <5>1. <<"existence", <<plan.existence>>>>[1] = "existence"
          OBVIOUS
        <5> QED
          BY <5>1 DEF Has
      <4> QED
        BY <4>1, LinkHas
    <3> HIDE DEF works, exists
    <3>4. ~Has(works \cup exists, "actionStatus")
      BY <3>2, <3>3, LinkHas
    <3> QED
      BY <1>1, <1>2, <3>1, <3>4
  <2> QED
    BY <1>4, <2>1 DEF PlannedFiles
<1> QED
  BY <1>5, <1>6, <1>7, <1>8, <1>9

\* The links of actions: an instrument and no status.
LEMMA ActionLinks ==
    ASSUME NEW w, NEW x, NEW y, NEW z
    PROVE  LET rest == Ref("instrument", w) \cup Ref("agent", x) \cup Refs("object", y) \cup Refs("result", z)
           IN  ~Has(rest, "actionStatus") /\ Has(rest, "instrument")
<1> DEFINE a == Ref("instrument", w)
           b == Ref("agent", x)
           c == Refs("object", y)
           d == Refs("result", z)
<1>1. \A l \in a \cup b \cup c \cup d : l[1] # "actionStatus"
  BY DEF Ref, Refs
<1>2. <<"instrument", w>> \in a \cup b \cup c \cup d /\ <<"instrument", w>>[1] = "instrument"
  BY DEF Ref
<1> QED
  BY <1>1, <1>2 DEF Has

\* The workflow, with the tools of the commands.
LEMMA WorkflowEntity ==
    ASSUME NEW m, NEW formals, NEW e \in BuildWorkflow(m, formals)
    PROVE  /\ HasWorkflow(m) /\ e.id = WorkflowId(m) /\ "ComputationalWorkflow" \in e.types
           /\ e.types \cap (Doing \cup {"HowToStep"}) = {}
           /\ ~Has(e.links, "actionStatus")
           /\ m.commands # <<>> /\ m.commands \in Seq(Commands) => Has(e.links, "hasPart")
<1> DEFINE formalsOf(items, kind) ==
               {pair[2] : pair \in {q \in formals.of : \E i \in DOMAIN items : items[i].path = q[1]}}
           types == {"ComputationalWorkflow"} \cup (IF m.workflow.synthetic THEN {} ELSE {"File"})
                    \cup (IF DOMAIN m.steps = {} THEN {} ELSE {"HowTo"})
           tools == {Software(t) : t \in ToolsOf(m)}
           parts == Refs("hasPart", tools)
           engine == IF m.workflow.engine
                     THEN Ref("programmingLanguage", Engine) \cup Ref("hasPart", Engine) ELSE {}
           inputs == Refs("input", formalsOf(m.inputs, "input"))
           outputs == Refs("output", formalsOf(m.outputs, "output"))
           steps == Refs("step", {<<"step", s>> : s \in DOMAIN m.steps})
           links == parts \cup engine \cup inputs \cup outputs \cup steps
<1>1. HasWorkflow(m) /\ e = Entity(WorkflowId(m), types, links)
  BY DEF BuildWorkflow
<1>2. "ComputationalWorkflow" \in types /\ types \cap (Doing \cup {"HowToStep"}) = {}
  BY DEF Doing
<1>3. ~Has(parts, "actionStatus") /\ ~Has(inputs, "actionStatus") /\ ~Has(outputs, "actionStatus")
      /\ ~Has(steps, "actionStatus")
  <2>1. \A p, ids : p # "actionStatus" => ~Has(Refs(p, ids), "actionStatus")
    BY LinkHas
  <2> HIDE DEF formalsOf, tools
  <2> QED
    BY <2>1
<1>4. ~Has(engine, "actionStatus")
  <2>1. ~Has(Ref("programmingLanguage", Engine), "actionStatus") /\ ~Has(Ref("hasPart", Engine), "actionStatus")
    BY LinkHas
  <2>2. ~Has(Ref("programmingLanguage", Engine) \cup Ref("hasPart", Engine), "actionStatus") /\ ~Has({}, "actionStatus")
    BY <2>1, LinkHas
  <2> QED
    BY <2>2
<1>5. ASSUME m.commands # <<>>, m.commands \in Seq(Commands) PROVE Has(parts, "hasPart")
  <2>1. 1 \in DOMAIN m.commands
    BY <1>5
  <2>2. tools # {}
    BY <2>1 DEF ToolsOf
  <2> HIDE DEF tools
  <2> QED
    BY <2>2, LinkHas
<1> HIDE DEF types, parts, engine, inputs, outputs, steps
<1>6. /\ ~Has(links, "actionStatus")
      /\ Has(parts, "hasPart") => Has(links, "hasPart")
  BY <1>3, <1>4 DEF Has
<1> HIDE DEF links
<1>7. e.id = WorkflowId(m) /\ e.types = types /\ e.links = links
  BY <1>1, EntityIs
<1> QED
  BY <1>1, <1>2, <1>5, <1>6, <1>7

\* The workflow's action.
LEMMA WorkflowActionDoes ==
    ASSUME NEW m, NEW ids PROVE Doers(BuildWorkflowAction(m, ids))
<1> SUFFICES ASSUME NEW e \in BuildWorkflowAction(m, ids)
             PROVE  /\ Explained(e.links) /\ e.types \cap Working = {} /\ Has(e.links, "instrument")
  BY DEF Doers
<1> DEFINE failed == \E k \in DOMAIN m.commands : m.commands[k].status = "failed"
           paths(items) == {items[i].path : i \in DOMAIN items}
           w == WorkflowId(m)
           x == Actor(IF m.commands = <<>> THEN "claude-code" ELSE "rcr")
           y == FilesOf(paths(m.inputs) \ {m.workflow.path})
           z == FilesOf(paths(m.outputs))
           rest == Ref("instrument", w) \cup Ref("agent", x) \cup Refs("object", y) \cup Refs("result", z)
           id == ids[<<"workflow-action">>]
           links == Finished(~failed) \cup Ref("instrument", w) \cup Ref("agent", x)
                    \cup Refs("object", y) \cup Refs("result", z)
<1>1. e = Entity(id, {"CreateAction"}, links)
  BY DEF BuildWorkflowAction
<1> HIDE DEF id, failed, w, x, y, z
<1>3. ~Has(rest, "actionStatus") /\ Has(rest, "instrument")
  BY ActionLinks
<1>4. links = Finished(~failed) \cup rest
  OBVIOUS
<1> HIDE DEF links, rest
<1>5. Explained(links) /\ Has(links, "instrument")
  <2>1. Explained(Finished(~failed) \cup rest)
    BY <1>3, LinkHas
  <2>2. Has(Finished(~failed) \cup rest, "instrument")
    BY <1>3, LinkHas
  <2> QED
    BY <1>4, <2>1, <2>2
<1>6. e.links = links /\ e.types = {"CreateAction"}
  BY <1>1, EntityIs
<1> QED
  BY <1>5, <1>6 DEF Working

\* The actions of commands, and their logs.
LEMMA CommandsDo ==
    ASSUME NEW m PROVE Doers(UNION {BuildCommandAction(m.commands[k]) : k \in DOMAIN m.commands})
<1> SUFFICES ASSUME NEW c, NEW e \in BuildCommandAction(c)
             PROVE  /\ Explained(e.links) /\ e.types \cap Working = {}
                    /\ e.types \cap Doing # {} => Has(e.links, "instrument")
  BY DEF Doers
<1> DEFINE log == Entity(<<"log", c.command>>, {"File"}, Ref("about", c.action))
<1>1. e = CommandEntity(c) \/ e = log
  BY DEF BuildCommandAction, CommandEntity, CommandLinks
<1>2. CASE e = CommandEntity(c)
  <2> DEFINE w == Software(c.tool)
             x == Actor("human")
             y == FilesOf(c.inputs)
             z == FilesOf(c.outputs)
             rest == Ref("instrument", w) \cup Ref("agent", x) \cup Refs("object", y) \cup Refs("result", z)
             ok == c.status = "completed"
  <2>2. CommandLinks(c) = Finished(ok) \cup rest
    BY DEF CommandLinks
  <2> HIDE DEF w, x, y, z, ok
  <2>3. ~Has(rest, "actionStatus") /\ Has(rest, "instrument")
    BY ActionLinks
  <2> HIDE DEF rest
  <2>4. Explained(CommandLinks(c)) /\ Has(CommandLinks(c), "instrument")
    <3>1. Explained(Finished(ok) \cup rest)
      BY <2>3, LinkHas
    <3>2. Has(Finished(ok) \cup rest, "instrument")
      BY <2>3, LinkHas
    <3> QED
      BY <2>2, <3>1, <3>2
  <2>5. e.links = CommandLinks(c) /\ e.types = {CommandActionType(c)}
    BY <1>2, EntityIs DEF CommandEntity
  <2>6. CommandActionType(c) \notin Working
    BY DEF CommandActionType, Working
  <2> QED
    BY <2>4, <2>5, <2>6
<1>3. CASE e = log
  <2>1. e.types = {"File"} /\ e.links = Ref("about", c.action)
    BY <1>3, EntityIs
  <2>2. ~Has(Ref("about", c.action), "actionStatus")
    BY LinkHas
  <2>3. Explained(Ref("about", c.action))
    BY <2>2, LinkHas
  <2> QED
    BY <2>1, <2>3 DEF Doing, Working
<1> QED
  BY <1>1, <1>2, <1>3

\* The links of what the agent does.
LEMMA AgentLinks ==
    ASSUME NEW w, NEW x, NEW y, NEW p \in {"object", "result"}, NEW ok
    PROVE  /\ Explained(Finished(ok) \cup Ref("agent", x))
           /\ Explained(Status("active") \cup Ref("agent", x))
           /\ Explained(Status("completed") \cup Ref("agent", x))
           /\ LET links == Finished(ok) \cup Ref("agent", x) \cup Ref("instrument", w) \cup Ref(p, y)
              IN  Explained(links) /\ Has(links, "instrument")
<1> DEFINE a == Ref("agent", x)
           b == Ref("instrument", w)
           c == Ref(p, y)
           rest == a \cup b \cup c
<1>1. \A l \in a \cup b \cup c : l[1] # "actionStatus"
  BY DEF Ref
<1>2. <<"instrument", w>> \in b /\ <<"instrument", w>>[1] = "instrument"
  BY DEF Ref
<1> HIDE DEF a, b, c
<1>3. ~Has(a, "actionStatus") /\ ~Has(rest, "actionStatus")
  BY <1>1 DEF Has
<1>4. Has(Finished(ok) \cup a \cup b \cup c, "instrument")
  BY <1>2 DEF Has
<1>5. Finished(ok) \cup a \cup b \cup c = Finished(ok) \cup rest
  OBVIOUS
<1> HIDE DEF rest
<1>6. Explained(Finished(ok) \cup a) /\ Explained(Finished(ok) \cup rest)
  BY <1>3, LinkHas
<1>7. Explained(Status("active") \cup a) /\ Explained(Status("completed") \cup a)
  BY <1>3, LinkHas
<1> QED
  BY <1>4, <1>5, <1>6, <1>7 DEF a, b, c

\* The agent's actions.
LEMMA AgentsDo ==
    ASSUME NEW m, NEW plans PROVE Doers(BuildAgentActions(m, plans))
<1> DEFINE act(id, type, status, agent) == Entity(id, {type}, status \cup Ref("agent", Actor(agent)))
           done == Finished(TRUE)
           rawId(i) == <<"raw-command", m.shells[i].at>>
           rawLinks(i) == done \cup Ref("agent", Actor("claude-code")) \cup Ref("object", Root)
                          \cup Ref("instrument", Software(m.shells[i].tool))
           taskId(i) == <<"subagent", m.tasks[i].at>>
           ended(i) == Finished(m.results[i])
           shown(i) == Status(IF m.phases[i].status = "completed" THEN "completed" ELSE "active")
           edits == EmittedEdits(m, plans)
           tools == (IF edits = {} THEN {} ELSE {"editor"}) \cup {m.shells[i].tool : i \in DOMAIN m.shells}
           edited == {EditAction(m.edits[i]) : i \in edits}
           software == {Entity(Software(t), {"SoftwareApplication"}, {}) : t \in tools}
           raws == {Entity(rawId(i), {"CreateAction"}, rawLinks(i)) : i \in DOMAIN m.shells}
           tasks == {act(taskId(i), "Action", done, "claude-code") : i \in DOMAIN m.tasks}
           results == {act(<<"result", i>>, "AssessAction", ended(i), "human") : i \in DOMAIN m.results}
           phases == {act(<<"phase", i>>, "Action", shown(i), "human") : i \in DOMAIN m.phases}
           Good(types, links) == /\ Explained(links) /\ types \cap Working = {}
                                 /\ types \cap Doing # {} => Has(links, "instrument")
<1>1. \A id, types, links : Entity(id, types, links).types = types /\ Entity(id, types, links).links = links
  BY EntityIs
<1>2. BuildAgentActions(m, plans) = edited \cup software \cup raws \cup tasks \cup results \cup phases
  BY DEF BuildAgentActions
<1>3. \A type \in {"Action", "AssessAction"} : \A links : Explained(links) => Good({type}, links)
  BY DEF Working, Doing
<1>4. \A type \in {"CreateAction", "UpdateAction", "DeleteAction"} : \A links :
          Explained(links) /\ Has(links, "instrument") => Good({type}, links)
  BY DEF Working
<1>5. Good({"SoftwareApplication"}, {})
  BY LinkHas DEF Working, Doing
<1>6. /\ \A x, ok : Explained(Finished(ok) \cup Ref("agent", x))
      /\ \A x : Explained(Status("active") \cup Ref("agent", x)) /\ Explained(Status("completed") \cup Ref("agent", x))
  BY AgentLinks
<1> HIDE DEF Good
<1>7. \A e \in edited : Good(e.types, e.links)
  <2>1. ASSUME NEW edit PROVE Good(EditAction(edit).types, EditAction(edit).links)
    <3> DEFINE type == CASE edit.op = "created" -> "CreateAction" [] edit.op = "deleted" -> "DeleteAction"
                         [] OTHER -> "UpdateAction"
               p == IF edit.op = "deleted" THEN "object" ELSE "result"
               w == Software("editor")
               x == Actor("claude-code")
               y == FileId(edit.path)
               links == Finished(TRUE) \cup Ref("agent", x) \cup Ref("instrument", w) \cup Ref(p, y)
               id == <<"file-action", edit.at>>
    <3>1. EditAction(edit) = Entity(id, {type}, links)
      BY DEF EditAction
    <3>2. type \in {"CreateAction", "UpdateAction", "DeleteAction"} /\ p \in {"object", "result"}
      OBVIOUS
    <3> HIDE DEF type, p, w, x, y, id
    <3>3. Explained(links) /\ Has(links, "instrument")
      BY <3>2, AgentLinks
    <3> HIDE DEF links
    <3>4. EditAction(edit).types = {type} /\ EditAction(edit).links = links
      BY <1>1, <3>1
    <3>5. Good({type}, links)
      BY <1>4, <3>2, <3>3
    <3> QED
      BY <3>4, <3>5
  <2> QED
    BY <2>1
<1>8. \A e \in software : Good(e.types, e.links)
  BY <1>1, <1>5
<1>9. \A e \in raws : Good(e.types, e.links)
  <2>1. ASSUME NEW i PROVE Explained(rawLinks(i)) /\ Has(rawLinks(i), "instrument")
    <3> DEFINE w == Software(m.shells[i].tool)
               x == Actor("claude-code")
               y == Root
               p == "object"
               links == Finished(TRUE) \cup Ref("agent", x) \cup Ref("instrument", w) \cup Ref(p, y)
    <3>1. rawLinks(i) = links
      OBVIOUS
    <3>2. p \in {"object", "result"}
      OBVIOUS
    <3> HIDE DEF w, x, y, p, rawLinks
    <3>3. Explained(links) /\ Has(links, "instrument")
      BY <3>2, AgentLinks
    <3> HIDE DEF links
    <3> QED
      BY <3>1, <3>3
  <2> HIDE DEF rawLinks, rawId
  <2> QED
    BY <1>1, <1>4, <2>1
<1>10. \A e \in tasks : Good(e.types, e.links)
  <2> DEFINE links == done \cup Ref("agent", Actor("claude-code"))
  <2>1. Explained(links)
    BY <1>6
  <2> HIDE DEF links
  <2>2. tasks = {Entity(taskId(i), {"Action"}, links) : i \in DOMAIN m.tasks}
    BY DEF links
  <2> HIDE DEF taskId, tasks
  <2> QED
    BY <1>1, <1>3, <2>1, <2>2
<1>11. \A e \in results : Good(e.types, e.links)
  <2> DEFINE links(i) == ended(i) \cup Ref("agent", Actor("human"))
             id(i) == <<"result", i>>
  <2>1. \A i : Explained(links(i))
    <3> DEFINE x == Actor("human")
    <3> HIDE DEF x
    <3>1. \A i : Explained(ended(i) \cup Ref("agent", x))
      BY <1>6
    <3> QED
      BY <3>1 DEF x
  <2> HIDE DEF links, id
  <2>2. results = {Entity(id(i), {"AssessAction"}, links(i)) : i \in DOMAIN m.results}
    BY DEF links, id
  <2> HIDE DEF results
  <2> QED
    BY <1>1, <1>3, <2>1, <2>2
<1>12. \A e \in phases : Good(e.types, e.links)
  <2> DEFINE links(i) == shown(i) \cup Ref("agent", Actor("human"))
             id(i) == <<"phase", i>>
  <2>1. \A i : Explained(links(i))
    <3> DEFINE x == Actor("human")
    <3>1. \A i : shown(i) = Status("completed") \/ shown(i) = Status("active")
      OBVIOUS
    <3> HIDE DEF x, shown
    <3>2. \A i : Explained(shown(i) \cup Ref("agent", x))
      BY <1>6, <3>1
    <3> QED
      BY <3>2 DEF x
  <2> HIDE DEF links, id
  <2>2. phases = {Entity(id(i), {"Action"}, links(i)) : i \in DOMAIN m.phases}
    BY DEF links, id
  <2> HIDE DEF phases
  <2> QED
    BY <1>1, <1>3, <2>1, <2>2
<1> HIDE DEF edited, software, raws, tasks, results, phases
<1>13. \A e \in BuildAgentActions(m, plans) : Good(e.types, e.links)
  BY <1>2, <1>7, <1>8, <1>9, <1>10, <1>11, <1>12
<1> QED
  BY <1>13 DEF Doers, Good

\* The action that controls a step.
ControlId(m, ids, s) == ids[<<"control", m.commands[FirstCommand(m, s)].command>>]

\* Steps are described, with what carried them out if there is a workflow, or controlled.
Described(m, e) ==
    /\ \E s \in DOMAIN m.steps : e.id = <<"step", s>>
    /\ e.types = {"HowToStep"} /\ Explained(e.links)
    /\ HasWorkflow(m) => Has(e.links, "workExample")
Controls(m, ids, e) == (\E s \in Controlled(m) : e.id = ControlId(m, ids, s)) /\ e.types = {"ControlAction"}

\* The steps of the workflow.
LEMMA StepsAre ==
    ASSUME NEW m, NEW ids
    PROVE  /\ \A e \in BuildSteps(m, ids) : Described(m, e) \/ Controls(m, ids, e)
           /\ \A s \in DOMAIN m.steps : \E e \in BuildSteps(m, ids) : e.id = <<"step", s>>
           /\ \A s \in Controlled(m) : \E e \in BuildSteps(m, ids) : e.id = ControlId(m, ids, s)
<1> DEFINE example(s) == IF CommandsOf(m, s) # {} THEN {Software(m.commands[FirstCommand(m, s)].tool)}
                         ELSE IF m.workflow.engine THEN {Engine}
                         ELSE IF HasWorkflow(m) THEN {WorkflowId(m)} ELSE {}
           step(s) == <<"step", s>>
           given(s) == Refs("workExample", example(s))
           howTo(s) == Entity(step(s), {"HowToStep"}, given(s))
           first(s) == m.commands[FirstCommand(m, s)]
           links(s) == Status(StepStatus(m.steps[s])) \cup Ref("instrument", step(s))
                       \cup Ref("object", first(s).action)
           id(s) == ControlId(m, ids, s)
           control(s) == Entity(id(s), {"ControlAction"}, links(s))
<1>1. BuildSteps(m, ids) = {howTo(s) : s \in DOMAIN m.steps} \cup {control(s) : s \in Controlled(m)}
  BY DEF BuildSteps, ControlId
<1>2. ASSUME NEW s PROVE Explained(given(s)) /\ (HasWorkflow(m) => Has(given(s), "workExample"))
  <2>1. HasWorkflow(m) => example(s) # {}
    OBVIOUS
  <2> DEFINE examples == example(s)
  <2> HIDE DEF example, examples
  <2>2. \A l \in Refs("workExample", examples) : l[1] = "workExample"
    BY DEF Refs
  <2>3. ~Has(Refs("workExample", examples), "actionStatus")
    BY <2>2 DEF Has
  <2>4. Explained(Refs("workExample", examples))
    BY <2>3, LinkHas
  <2>5. examples # {} => Has(Refs("workExample", examples), "workExample")
    BY LinkHas
  <2> QED
    BY <2>1, <2>4, <2>5 DEF examples
<1> HIDE DEF step, given, links, id
<1>3. \A s : /\ howTo(s).id = step(s) /\ howTo(s).types = {"HowToStep"} /\ howTo(s).links = given(s)
             /\ control(s).id = id(s) /\ control(s).types = {"ControlAction"}
  BY EntityIs
<1> HIDE DEF howTo, control
<1>4. \A s \in DOMAIN m.steps : howTo(s) \in BuildSteps(m, ids) /\ Described(m, howTo(s))
  BY <1>1, <1>2, <1>3 DEF Described, step
<1>5. \A s \in Controlled(m) : control(s) \in BuildSteps(m, ids) /\ Controls(m, ids, control(s))
  BY <1>1, <1>3 DEF Controls, id
<1> QED
  BY <1>1, <1>3, <1>4, <1>5 DEF step, id

\* What fails has an error, and what creates or updates an instrument.
Careful(group) ==
    \A e \in group : Explained(e.links) /\ (e.types \cap Doing # {} => Has(e.links, "instrument"))

\* The steps of a synthesized workflow.
LEMMA TimelineCareful ==
    ASSUME NEW m, NEW timeline
    PROVE  /\ Careful(BuildTimeline(timeline)) /\ Careful(Woven(m, timeline))
           /\ \A e \in Woven(m, timeline) : e.id = WorkflowId(m) /\ "ComputationalWorkflow" \in e.types
           /\ timeline = {} => BuildTimeline(timeline) = {} /\ Woven(m, timeline) = {}
<1> DEFINE step(a) == <<"wfstep", Place(a, timeline)>>
           control(a) == <<"wfcontrol", Place(a, timeline)>>
           links(a) == Ref("instrument", step(a)) \cup Ref("object", a[2])
           pair(a) == {Entity(step(a), {"HowToStep"}, {}), Entity(control(a), {"ControlAction"}, links(a))}
           steps == Refs("step", {step(a) : a \in timeline})
<1>1. \A id, types, links1 : Entity(id, types, links1).types = types /\ Entity(id, types, links1).links = links1
                             /\ Entity(id, types, links1).id = id
  BY EntityIs
<1>2. BuildTimeline(timeline) = UNION {pair(a) : a \in timeline}
  BY DEF BuildTimeline
<1>3. \A a : Explained(links(a))
  <2> TAKE a
  <2> DEFINE s == step(a)
             o == a[2]
  <2> HIDE DEF s, o
  <2>1. \A l \in Ref("instrument", s) \cup Ref("object", o) : l[1] # "actionStatus"
    BY DEF Ref
  <2>2. ~Has(Ref("instrument", s) \cup Ref("object", o), "actionStatus")
    BY <2>1 DEF Has
  <2>3. Explained(Ref("instrument", s) \cup Ref("object", o))
    BY <2>2, LinkHas
  <2> QED
    BY <2>3 DEF s, o
<1>4. Explained({})
  BY LinkHas
<1>5. Explained(steps)
  <2> DEFINE all == {step(a) : a \in timeline}
  <2> HIDE DEF all
  <2>1. \A l \in Refs("step", all) : l[1] # "actionStatus"
    BY DEF Refs
  <2>2. ~Has(Refs("step", all), "actionStatus")
    BY <2>1 DEF Has
  <2>3. Explained(Refs("step", all))
    BY <2>2, LinkHas
  <2> QED
    BY <2>3 DEF all
<1>6. timeline = {} => BuildTimeline(timeline) = {} /\ Woven(m, timeline) = {}
  BY DEF BuildTimeline, Woven
<1>7. \A e \in Woven(m, timeline) : e = Entity(WorkflowId(m), {"ComputationalWorkflow"}, steps)
  BY DEF Woven
<1> HIDE DEF step, control, links, steps
<1>8. Careful(BuildTimeline(timeline))
  <2>1. \A e \in BuildTimeline(timeline) : \E a :
            e = Entity(step(a), {"HowToStep"}, {}) \/ e = Entity(control(a), {"ControlAction"}, links(a))
    BY <1>2
  <2>2. \A e \in BuildTimeline(timeline) : \/ e.types = {"HowToStep"} /\ Explained(e.links)
                                           \/ e.types = {"ControlAction"} /\ Explained(e.links)
    BY <1>1, <1>3, <1>4, <2>1
  <2> QED
    BY <2>2 DEF Careful, Doing
<1>9. /\ Careful(Woven(m, timeline))
      /\ \A e \in Woven(m, timeline) : e.id = WorkflowId(m) /\ "ComputationalWorkflow" \in e.types
  <2>1. \A e \in Woven(m, timeline) : e.id = WorkflowId(m) /\ e.types = {"ComputationalWorkflow"} /\ e.links = steps
    BY <1>1, <1>7
  <2> QED
    BY <1>5, <2>1 DEF Careful, Doing
<1> QED
  BY <1>6, <1>8, <1>9

\* The root: it conforms to the profile, and its main entity is the workflow.
LEMMA RootIs ==
    ASSUME NEW m, NEW profile, NEW plans, NEW ids, NEW graph,
           NEW root, root = RootEntity(m, profile, plans, ids, graph)
    PROVE  /\ root.id = Root /\ root.types = {"Dataset"} /\ ~Has(root.links, "actionStatus")
           /\ <<"conformsTo", <<"profile", profile>>>> \in root.links
           /\ {link[2] : link \in {l \in root.links : l[1] = "mainEntity"}} =
                  IF HasWorkflow(m) THEN {WorkflowId(m)} ELSE {}
<1> DEFINE conforms == Refs("conformsTo", Conformance(profile))
           main == IF HasWorkflow(m) THEN Ref("mainEntity", WorkflowId(m)) ELSE {}
           whole == IF HasWorkflow(m) /\ ~m.workflow.synthetic THEN Ref("hasPart", WorkflowId(m)) ELSE {}
           planned == Refs("hasPart", FilesOf({p \in DOMAIN plans : plans[p].included}))
           outputs == Refs("hasPart", FilesOf((UNION {m.commands[k].outputs : k \in DOMAIN m.commands})
                                                  \ DOMAIN plans))
           local == Refs("hasPart", LocalData(graph))
           mentions == Refs("mentions", Mentions(m, plans, ids))
           status == IF m.aborted THEN {<<"run-status", <<"aborted">>>>} ELSE {}
           parts == whole \cup planned \cup outputs \cup local
           links == conforms \cup main \cup whole \cup planned \cup outputs \cup local \cup mentions \cup status
<1>1. root = Entity(Root, {"Dataset"}, links)
  BY DEF RootEntity
<1>2. \A p, S : \A l \in Refs(p, S) : l[1] = p
  <2> TAKE p, S
  <2>1. \A id : <<p, id>>[1] = p
    OBVIOUS
  <2> QED
    BY <2>1 DEF Refs
<1>3. \A l \in conforms : l[1] = "conformsTo"
  <2> DEFINE S == Conformance(profile)
  <2> HIDE DEF S
  <2>1. \A l \in Refs("conformsTo", S) : l[1] = "conformsTo"
    BY <1>2
  <2> QED
    BY <2>1 DEF S
<1>4. <<"conformsTo", <<"profile", profile>>>> \in conforms
  BY DEF Refs, Conformance
<1>5. \A l \in parts : l[1] = "hasPart"
  <2> DEFINE A == FilesOf({p \in DOMAIN plans : plans[p].included})
             B == FilesOf((UNION {m.commands[k].outputs : k \in DOMAIN m.commands}) \ DOMAIN plans)
             C == LocalData(graph)
  <2>1. \A l \in whole : l[1] = "hasPart"
    <3> DEFINE w == WorkflowId(m)
    <3> HIDE DEF w
    <3>1. \A l \in Ref("hasPart", w) : l[1] = "hasPart"
      BY DEF Ref
    <3> QED
      BY <3>1 DEF w
  <2> HIDE DEF A, B, C
  <2>2. \A l \in Refs("hasPart", A) \cup Refs("hasPart", B) \cup Refs("hasPart", C) : l[1] = "hasPart"
    BY <1>2
  <2>3. planned = Refs("hasPart", A) /\ outputs = Refs("hasPart", B) /\ local = Refs("hasPart", C)
    BY DEF A, B, C
  <2> HIDE DEF whole, planned, outputs, local
  <2> QED
    BY <2>1, <2>2, <2>3
<1>6. \A l \in mentions : l[1] = "mentions"
  <2> DEFINE S == Mentions(m, plans, ids)
  <2> HIDE DEF S
  <2>1. \A l \in Refs("mentions", S) : l[1] = "mentions"
    BY <1>2
  <2> QED
    BY <2>1 DEF S
<1>7. \A l \in status : l[1] = "run-status"
  OBVIOUS
<1> DEFINE targets == {link[2] : link \in {l \in main : l[1] = "mainEntity"}}
<1>8. /\ \A l \in main : l[1] = "mainEntity"
      /\ {link[2] : link \in main} = IF HasWorkflow(m) THEN {WorkflowId(m)} ELSE {}
  <2> DEFINE w == WorkflowId(m)
  <2> HIDE DEF w
  <2>1. <<"mainEntity", w>>[1] = "mainEntity" /\ <<"mainEntity", w>>[2] = w
    OBVIOUS
  <2>2. /\ \A l \in Ref("mainEntity", w) : l[1] = "mainEntity"
        /\ {link[2] : link \in Ref("mainEntity", w)} = {w}
    BY <2>1 DEF Ref
  <2>3. {link[2] : link \in {}} = {}
    OBVIOUS
  <2>4. CASE HasWorkflow(m)
    BY <2>2, <2>4 DEF w
  <2>5. CASE ~HasWorkflow(m)
    BY <2>3, <2>5 DEF w
  <2> QED
    BY <2>4, <2>5
<1> HIDE DEF conforms, main, whole, planned, outputs, local, mentions, status
<1>9. links = conforms \cup main \cup parts \cup mentions \cup status
  BY DEF parts
<1> HIDE DEF parts
<1>10. {l \in links : l[1] = "mainEntity"} = main
  BY <1>3, <1>5, <1>6, <1>7, <1>8, <1>9
<1>11. ~Has(links, "actionStatus")
  BY <1>3, <1>5, <1>6, <1>7, <1>8, <1>9 DEF Has
<1>12. <<"conformsTo", <<"profile", profile>>>> \in links
  BY <1>4, <1>9
<1> HIDE DEF links
<1>13. root.id = Root /\ root.types = {"Dataset"} /\ root.links = links
  BY <1>1, EntityIs
<1> QED
  BY <1>8, <1>10, <1>11, <1>12, <1>13

\* The ids of the workflow's action and of the controls are uuids, and no command's.
Apart(m, ids) ==
    /\ Executes(m) => ids[<<"workflow-action">>] \in ActionIds
    /\ \A s \in Controlled(m) : /\ ControlId(m, ids, s) \in ActionIds
                                /\ \A k \in DOMAIN m.commands : m.commands[k].action # ControlId(m, ids, s)

\* What is emitted, section by section: the kinds of its ids, and what the checks ask.
LEMMA FinalKinds ==
    ASSUME NEW m \in Models, NEW profile, NEW plans, NEW ids, Apart(m, ids),
           NEW final, final = Final(m, profile, plans, ids)
    PROVE  /\ Kinds(final[1], {"descriptor", "profile"}) /\ Kinds(final[2], {"actor", "software"})
           /\ Kinds(final[3], {"formal"}) /\ Kinds(final[4], {"file"}) /\ Kinds(final[5], {"file"})
           /\ Kinds(final[6], {"uuid"}) /\ Kinds(final[7], {"step", "uuid"}) /\ Kinds(final[8], {"uuid", "log"})
           /\ Kinds(final[9], {"file"})
           /\ Kinds(final[10], {"file-action", "software", "raw-command", "subagent", "result", "phase"})
           /\ Kinds(final[11], {"wfstep", "wfcontrol"}) /\ Kinds(final[12], {"file"})
           /\ Kinds(final[13], {"root"})
<1> DEFINE sections == Sections(m, profile, plans, ids)
           formals == FormalParameters(m, profile)
<1>1. /\ \A i \in 1 .. 12 : final[i] = sections[i]
      /\ \E root : final[13] = {root} /\ root.id = Root
  BY FinalAre
<1>2. /\ sections[1] = Scaffold(profile)
      /\ sections[2] = Actors(m) \cup Tools(m)
      /\ sections[3] = Formals(formals)
      /\ sections[4] = PlannedFiles(plans, formals)
      /\ sections[5] = BuildWorkflow(m, formals)
      /\ sections[6] = BuildWorkflowAction(m, ids)
      /\ sections[7] = BuildSteps(m, ids)
      /\ sections[8] = UNION {BuildCommandAction(m.commands[l]) : l \in DOMAIN m.commands}
      /\ sections[9] = {Entity(FileId(p), {"File"}, {}) : p \in UnplannedFiles(m, plans)}
      /\ sections[10] = BuildAgentActions(m, plans)
      /\ sections[11] = BuildTimeline(Timeline(m, plans))
      /\ sections[12] = Woven(m, Timeline(m, plans))
  BY SectionsAre
<1>3. \A id, types, links : Entity(id, types, links).id = id
  BY EntityKinds
<1>4. \A id \in ActionIds : id[1] = "uuid"
  <2>1. \A n \in Nat : Uuid(n)[1] = "uuid"
    BY UuidFacts
  <2> QED
    BY <2>1 DEF ActionIds
<1>5. Kinds(BuildWorkflowAction(m, ids), {"uuid"})
  <2>1. \A e \in BuildWorkflowAction(m, ids) : Executes(m) /\ e.id = ids[<<"workflow-action">>]
    BY <1>3 DEF BuildWorkflowAction
  <2> QED
    BY <1>4, <2>1 DEF Kinds, Apart
<1>6. Kinds(BuildSteps(m, ids), {"step", "uuid"})
  <2>1. \A e \in BuildSteps(m, ids) : Described(m, e) \/ Controls(m, ids, e)
    BY StepsAre
  <2>2. \A s : <<"step", s>>[1] = "step"
    OBVIOUS
  <2>3. \A e : Described(m, e) => e.id[1] = "step"
    BY <2>2 DEF Described
  <2>4. \A e : Controls(m, ids, e) => e.id[1] = "uuid"
    BY <1>4 DEF Controls, Apart
  <2> QED
    BY <2>1, <2>3, <2>4 DEF Kinds
<1>7. Kinds(UNION {BuildCommandAction(m.commands[l]) : l \in DOMAIN m.commands}, {"uuid", "log"})
  <2> DEFINE log(c) == Entity(<<"log", c.command>>, {"File"}, Ref("about", c.action))
  <2>1. \A c : BuildCommandAction(c) = {CommandEntity(c), log(c)}
    BY DEF BuildCommandAction, CommandEntity, CommandLinks
  <2>2. \A c : CommandEntity(c).id = c.action
    BY <1>3 DEF CommandEntity
  <2>3. \A c : log(c).id[1] = "log"
    BY DEF Entity
  <2>4. \A l \in DOMAIN m.commands : m.commands[l].action \in ActionIds
    <3>1. m.commands \in Seq(Commands)
      BY ModelFields
    <3>2. \A l \in DOMAIN m.commands : m.commands[l] \in Commands
      BY <3>1
    <3> QED
      BY <3>2 DEF Commands
  <2> HIDE DEF log
  <2>5. ASSUME NEW l \in DOMAIN m.commands PROVE Kinds(BuildCommandAction(m.commands[l]), {"uuid", "log"})
    BY <1>4, <2>1, <2>2, <2>3, <2>4 DEF Kinds
  <2> QED
    BY <2>5 DEF Kinds
<1>8. /\ Kinds(Scaffold(profile), {"descriptor", "profile"})
      /\ Kinds(Actors(m) \cup Tools(m), {"actor", "software"})
      /\ Kinds(Formals(formals), {"formal"})
      /\ Kinds(PlannedFiles(plans, formals), {"file"})
      /\ Kinds(BuildWorkflow(m, formals), {"file"})
      /\ Kinds({Entity(FileId(p), {"File"}, {}) : p \in UnplannedFiles(m, plans)}, {"file"})
      /\ Kinds(BuildTimeline(Timeline(m, plans)), {"wfstep", "wfcontrol"})
      /\ Kinds(Woven(m, Timeline(m, plans)), {"file"})
  BY PlainKinds
<1>9. Kinds(final[13], {"root"})
  BY <1>1 DEF Kinds, Root
<1>10. Kinds(BuildAgentActions(m, plans), {"file-action", "software", "raw-command", "subagent", "result", "phase"})
  BY AgentKinds
<1> HIDE DEF formals, sections
<1>11. /\ Kinds(sections[1], {"descriptor", "profile"}) /\ Kinds(sections[2], {"actor", "software"})
       /\ Kinds(sections[3], {"formal"}) /\ Kinds(sections[4], {"file"}) /\ Kinds(sections[5], {"file"})
       /\ Kinds(sections[6], {"uuid"}) /\ Kinds(sections[7], {"step", "uuid"})
  BY <1>2, <1>5, <1>6, <1>8
<1>12. Kinds(sections[8], {"uuid", "log"})
  BY <1>2, <1>7
<1>13. /\ Kinds(sections[9], {"file"})
       /\ Kinds(sections[10], {"file-action", "software", "raw-command", "subagent", "result", "phase"})
       /\ Kinds(sections[11], {"wfstep", "wfcontrol"}) /\ Kinds(sections[12], {"file"})
  BY <1>2, <1>8, <1>10
<1>14. \A i \in {1, 2, 3, 4, 5, 6, 7, 8, 9, 10, 11, 12} : final[i] = sections[i]
  BY <1>1
<1> QED
  BY <1>9, <1>11, <1>12, <1>13, <1>14

\* What is emitted, section by section: what the checks ask of it.
LEMMA FinalCareful ==
    ASSUME NEW m, NEW profile, NEW plans, NEW ids, NEW final, final = Final(m, profile, plans, ids)
    PROVE  /\ \A i \in (1 .. 13) \ {7} : Careful(final[i])
           /\ \A i \in (1 .. 13) \ {5, 7, 11, 12} : \A e \in final[i] : e.types \cap Working = {}
           /\ final[5] = BuildWorkflow(m, FormalParameters(m, profile))
           /\ final[7] = BuildSteps(m, ids)
           /\ final[8] = UNION {BuildCommandAction(m.commands[k]) : k \in DOMAIN m.commands}
           /\ final[9] = {Entity(FileId(p), {"File"}, {}) : p \in UnplannedFiles(m, plans)}
           /\ final[11] = BuildTimeline(Timeline(m, plans)) /\ final[12] = Woven(m, Timeline(m, plans))
           /\ final[13] = {RootEntity(m, profile, plans, ids, Assembled(Sections(m, profile, plans, ids)))}
<1> DEFINE sections == Sections(m, profile, plans, ids)
           formals == FormalParameters(m, profile)
           root == RootEntity(m, profile, plans, ids, Assembled(sections))
<1>1. \A i \in 1 .. 12 : final[i] = sections[i]
  BY FinalAre
<1>2. final[13] = {root}
  <2>1. final = Append(sections, {root}) /\ sections = [i \in 1 .. 12 |-> sections[i]]
    BY DEF Final, Sections
  <2> HIDE DEF sections, root
  <2> QED
    BY <2>1
<1>3. /\ sections[1] = Scaffold(profile)
      /\ sections[2] = Actors(m) \cup Tools(m)
      /\ sections[3] = Formals(formals)
      /\ sections[4] = PlannedFiles(plans, formals)
      /\ sections[5] = BuildWorkflow(m, formals)
      /\ sections[6] = BuildWorkflowAction(m, ids)
      /\ sections[7] = BuildSteps(m, ids)
      /\ sections[8] = UNION {BuildCommandAction(m.commands[k]) : k \in DOMAIN m.commands}
      /\ sections[9] = {Entity(FileId(p), {"File"}, {}) : p \in UnplannedFiles(m, plans)}
      /\ sections[10] = BuildAgentActions(m, plans)
      /\ sections[11] = BuildTimeline(Timeline(m, plans))
      /\ sections[12] = Woven(m, Timeline(m, plans))
  BY SectionsAre
<1>4. \A group : Doers(group) => Careful(group) /\ \A e \in group : e.types \cap Working = {}
  BY DEF Doers, Careful
<1>5. /\ Silent(Scaffold(profile)) /\ Silent(Actors(m) \cup Tools(m)) /\ Silent(Formals(formals))
      /\ Silent(PlannedFiles(plans, formals))
      /\ Silent({Entity(FileId(p), {"File"}, {}) : p \in UnplannedFiles(m, plans)})
  BY SilentSections
<1>6. /\ Doers(BuildWorkflowAction(m, ids)) /\ Doers(BuildAgentActions(m, plans))
      /\ Doers(UNION {BuildCommandAction(m.commands[k]) : k \in DOMAIN m.commands})
  BY WorkflowActionDoes, AgentsDo, CommandsDo
<1>7. Careful(BuildWorkflow(m, formals))
  <2>1. \A e \in BuildWorkflow(m, formals) : e.types \cap Doing = {} /\ ~Has(e.links, "actionStatus")
    BY WorkflowEntity
  <2>2. \A links : ~Has(links, "actionStatus") => Explained(links)
    BY LinkHas
  <2> QED
    BY <2>1, <2>2 DEF Careful
<1>8. Careful(BuildTimeline(Timeline(m, plans))) /\ Careful(Woven(m, Timeline(m, plans)))
  BY TimelineCareful
<1>9. Doers({root})
  <2>1. root.types = {"Dataset"} /\ ~Has(root.links, "actionStatus")
    BY RootIs
  <2>2. Explained(root.links)
    BY <2>1, LinkHas
  <2> HIDE DEF root
  <2> QED
    BY <2>1, <2>2 DEF Doers, Doing, Working
<1> HIDE DEF sections, formals, root
<1>10. /\ Doers(final[1]) /\ Doers(final[2]) /\ Doers(final[3]) /\ Doers(final[4]) /\ Doers(final[6])
       /\ Doers(final[8]) /\ Doers(final[9]) /\ Doers(final[10]) /\ Doers(final[13])
       /\ Careful(final[5]) /\ Careful(final[11]) /\ Careful(final[12])
  <2>1. \A i \in {1, 2, 3, 4, 5, 6, 7, 8, 9, 10, 11, 12} : final[i] = sections[i]
    BY <1>1
  <2>2. Doers(sections[1]) /\ Doers(sections[2]) /\ Doers(sections[3]) /\ Doers(sections[4]) /\ Doers(sections[9])
    BY <1>3, <1>5, SilentDoers
  <2>3. Doers(sections[6]) /\ Doers(sections[8]) /\ Doers(sections[10])
    BY <1>3, <1>6
  <2>4. Careful(sections[5]) /\ Careful(sections[11]) /\ Careful(sections[12])
    BY <1>3, <1>7, <1>8
  <2> QED
    BY <1>2, <1>9, <2>1, <2>2, <2>3, <2>4
<1>11. \A i \in 1 .. 13 : i \in {1, 2, 3, 4, 5, 6, 7, 8, 9, 10, 11, 12, 13}
  OBVIOUS
<1>12. \A i \in (1 .. 13) \ {5, 7, 11, 12} : Doers(final[i])
  BY <1>10, <1>11
<1>13. \A i \in (1 .. 13) \ {7} : Careful(final[i])
  BY <1>4, <1>10, <1>11, <1>12
<1> QED
  BY <1>1, <1>2, <1>3, <1>4, <1>12, <1>13 DEF sections, formals, root

\* What the graph owes, said of the sections.
LEMMA GraphOwes ==
    ASSUME NEW m \in Models, NEW profile, NEW ids, NEW plans, plans = PlanFileInclusion(m),
           NEW graph, graph = Graph(m, profile, plans, ids), NEW final, final = Final(m, profile, plans, ids)
    PROVE  /\ \A i \in 1 .. 13 : \A e \in final[i] : e.id \in DOMAIN graph
           /\ \A id \in DOMAIN graph :
                  /\ \E i \in 1 .. 13 : Gives(final[i], id, graph[id])
                  /\ (\A i \in 1 .. 13 : \A e \in final[i] : e.id = id => Explained(e.links))
                         => Explained(graph[id].links)
                  /\ \A i \in 1 .. 13 : LastWith(final, i, 13, id) => Gives(final[i], id, graph[id])
                  /\ \A i \in 1 .. 13 : \A e \in final[i] :
                         e.id = id /\ (\A j \in 1 .. 13 : \A d \in final[j] : d.id = id => d = e)
                             => graph[id] = e
<1>1. Follows(graph, final, 13)
  BY GraphFollows
<1> DEFINE all == UNION {final[i] : i \in 1 .. 13}
           emitted(id) == {e \in all : e.id = id}
<1>2. DOMAIN graph = Ids(all)
  BY <1>1 DEF Follows
<1>3. \A e : e \in all <=> \E i \in 1 .. 13 : e \in final[i]
  OBVIOUS
<1>4. ASSUME NEW id \in DOMAIN graph
      PROVE  /\ \E e \in emitted(id) : e.types = graph[id].types /\ e.links \subseteq graph[id].links
             /\ \A e \in emitted(id) : emitted(id) = {e} => graph[id] = e
             /\ (\A e \in emitted(id) : Explained(e.links)) => Explained(graph[id].links)
             /\ \A i \in 1 .. 13 : LastWith(final, i, 13, id) => Gives(final[i], id, graph[id])
  BY <1>1 DEF Follows, Owes
<1> HIDE DEF all
<1>5. \A i \in 1 .. 13 : \A e \in final[i] : e.id \in DOMAIN graph
  BY <1>2, <1>3 DEF Ids
<1>6. ASSUME NEW id \in DOMAIN graph PROVE \E i \in 1 .. 13 : Gives(final[i], id, graph[id])
  <2>1. PICK e \in emitted(id) : e.types = graph[id].types /\ e.links \subseteq graph[id].links
    BY <1>4
  <2> QED
    BY <1>3, <2>1 DEF Gives
<1>7. ASSUME NEW id \in DOMAIN graph, NEW i \in 1 .. 13, NEW e \in final[i], e.id = id,
             \A j \in 1 .. 13 : \A d \in final[j] : d.id = id => d = e
      PROVE  graph[id] = e
  <2>1. emitted(id) = {e}
    BY <1>3, <1>7
  <2> QED
    BY <1>4, <2>1
<1>8. ASSUME NEW id \in DOMAIN graph, \A i \in 1 .. 13 : \A e \in final[i] : e.id = id => Explained(e.links)
      PROVE  Explained(graph[id].links)
  BY <1>3, <1>4, <1>8
<1> QED
  BY <1>4, <1>5, <1>6, <1>7, <1>8

\* Of all sections: the ids that stay out of some.
LEMMA FinalNames ==
    ASSUME NEW m \in Models, NEW profile, NEW plans, NEW ids, Apart(m, ids),
           NEW final, final = Final(m, profile, plans, ids)
    PROVE  /\ \A i \in 1 .. 12 : \A e \in final[i] : e.id # Root
           /\ \A s \in Controlled(m) : \A i \in 8 .. 13 : \A e \in final[i] : e.id # ControlId(m, ids, s)
           /\ \A s : \A i \in (1 .. 13) \ {7} : \A e \in final[i] : e.id # <<"step", s>>
           /\ \A i \in (1 .. 13) \ {4, 5, 9, 12} : \A e \in final[i] : e.id # WorkflowId(m)
<1>1. /\ Kinds(final[1], {"descriptor", "profile"}) /\ Kinds(final[2], {"actor", "software"})
      /\ Kinds(final[3], {"formal"}) /\ Kinds(final[4], {"file"}) /\ Kinds(final[5], {"file"})
      /\ Kinds(final[6], {"uuid"}) /\ Kinds(final[7], {"step", "uuid"}) /\ Kinds(final[8], {"uuid", "log"})
      /\ Kinds(final[9], {"file"})
      /\ Kinds(final[10], {"file-action", "software", "raw-command", "subagent", "result", "phase"})
      /\ Kinds(final[11], {"wfstep", "wfcontrol"}) /\ Kinds(final[12], {"file"})
      /\ Kinds(final[13], {"root"})
  BY FinalKinds
<1>2. \A i \in 1 .. 13 : i \in {1, 2, 3, 4, 5, 6, 7, 8, 9, 10, 11, 12, 13}
  OBVIOUS
<1> DEFINE Lacks(i, kind) == \A e \in final[i] : e.id[1] # kind
<1>3. \A i \in 1 .. 12 : Lacks(i, "root")
  BY <1>1, <1>2 DEF Kinds
<1>4. \A i \in 9 .. 13 : Lacks(i, "uuid")
  BY <1>1, <1>2 DEF Kinds
<1>5. \A i \in (1 .. 13) \ {7} : Lacks(i, "step")
  BY <1>1, <1>2 DEF Kinds
<1>6. \A i \in (1 .. 13) \ {4, 5, 9, 12} : Lacks(i, "file")
  BY <1>1, <1>2 DEF Kinds
<1>7. Root[1] = "root" /\ WorkflowId(m)[1] = "file" /\ \A s : <<"step", s>>[1] = "step"
  BY DEF Root, WorkflowId, FileId
<1>8. \A id \in ActionIds : id[1] = "uuid"
  <2>1. \A n \in Nat : Uuid(n)[1] = "uuid"
    BY UuidFacts
  <2> QED
    BY <2>1 DEF ActionIds
<1>9. \A s \in Controlled(m) : ControlId(m, ids, s)[1] = "uuid"
  BY <1>8 DEF Apart
<1>10. ASSUME NEW s \in Controlled(m), NEW e \in final[8] PROVE e.id # ControlId(m, ids, s)
  <2> DEFINE log(c) == Entity(<<"log", c.command>>, {"File"}, Ref("about", c.action))
  <2>1. final[8] = UNION {BuildCommandAction(m.commands[k]) : k \in DOMAIN m.commands}
    BY FinalCareful
  <2>2. PICK k \in DOMAIN m.commands : e \in BuildCommandAction(m.commands[k])
    BY <1>10, <2>1
  <2>3. \A c : BuildCommandAction(c) = {CommandEntity(c), log(c)}
    BY DEF BuildCommandAction, CommandEntity, CommandLinks
  <2>4. \A c : CommandEntity(c).id = c.action
    BY EntityKinds DEF CommandEntity
  <2>5. \A c : log(c).id[1] = "log"
    BY DEF Entity
  <2>6. m.commands[k].action # ControlId(m, ids, s)
    BY DEF Apart
  <2> HIDE DEF log
  <2> QED
    BY <1>9, <2>2, <2>3, <2>4, <2>5, <2>6
<1> HIDE DEF Lacks
<1>11. \A i \in 1 .. 12 : \A e \in final[i] : e.id # Root
  BY <1>3, <1>7 DEF Lacks
<1>12. \A s \in Controlled(m) : \A i \in 8 .. 13 : \A e \in final[i] : e.id # ControlId(m, ids, s)
  <2>1. \A i \in 8 .. 13 : i = 8 \/ i \in 9 .. 13
    OBVIOUS
  <2> QED
    BY <1>4, <1>9, <1>10, <2>1 DEF Lacks
<1>13. \A s : \A i \in (1 .. 13) \ {7} : \A e \in final[i] : e.id # <<"step", s>>
  BY <1>5, <1>7 DEF Lacks
<1>14. \A i \in (1 .. 13) \ {4, 5, 9, 12} : \A e \in final[i] : e.id # WorkflowId(m)
  BY <1>6, <1>7 DEF Lacks
<1> QED
  BY <1>11, <1>12, <1>13, <1>14

\* The root is written as it is.
LEMMA RootWritten ==
    ASSUME NEW m \in Models, NEW profile, NEW ids, Apart(m, ids), NEW plans, plans = PlanFileInclusion(m),
           NEW graph, graph = Graph(m, profile, plans, ids)
    PROVE  /\ Root \in DOMAIN graph
           /\ <<"conformsTo", <<"profile", profile>>>> \in graph[Root].links
           /\ {link[2] : link \in {l \in graph[Root].links : l[1] = "mainEntity"}} =
                  IF HasWorkflow(m) THEN {WorkflowId(m)} ELSE {}
<1> DEFINE final == Final(m, profile, plans, ids)
           root == RootEntity(m, profile, plans, ids, Assembled(Sections(m, profile, plans, ids)))
<1>1. /\ root.id = Root /\ <<"conformsTo", <<"profile", profile>>>> \in root.links
      /\ {link[2] : link \in {l \in root.links : l[1] = "mainEntity"}} =
             IF HasWorkflow(m) THEN {WorkflowId(m)} ELSE {}
  BY RootIs
<1>2. final[13] = {root}
  BY FinalCareful
<1>3. \A i \in 1 .. 12 : \A e \in final[i] : e.id # Root
  BY FinalNames
<1>4. \A i \in 1 .. 13 : \A e \in final[i] : e.id \in DOMAIN graph
  BY GraphOwes
<1> HIDE DEF root
<1>4a. ASSUME Root \in DOMAIN graph, NEW i \in 1 .. 13, NEW e \in final[i], e.id = Root,
              \A j \in 1 .. 13 : \A d \in final[j] : d.id = Root => d = e
       PROVE  graph[Root] = e
  BY <1>4a, GraphOwes
<1> HIDE DEF final
<1>5. 13 \in 1 .. 13 /\ root \in final[13] /\ \A i \in 1 .. 13 : i \in 1 .. 12 \/ i = 13
  BY <1>2
<1>6. \A j \in 1 .. 13 : \A d \in final[j] : d.id = Root => d = root
  BY <1>2, <1>3, <1>5
<1>7. Root \in DOMAIN graph
  BY <1>1, <1>4, <1>5
<1>8. graph[Root] = root
  BY <1>1, <1>4a, <1>5, <1>6, <1>7
<1> QED
  BY <1>1, <1>7, <1>8

\* The actions that control steps are written as such.
LEMMA ControlsWritten ==
    ASSUME NEW m \in Models, NEW profile, NEW ids, Apart(m, ids), NEW plans, plans = PlanFileInclusion(m),
           NEW graph, graph = Graph(m, profile, plans, ids), NEW s \in Controlled(m)
    PROVE  ControlId(m, ids, s) \in DOMAIN graph /\ graph[ControlId(m, ids, s)].types = {"ControlAction"}
<1> DEFINE final == Final(m, profile, plans, ids)
           id == ControlId(m, ids, s)
<1>1. final[7] = BuildSteps(m, ids)
  BY FinalCareful
<1>2. /\ \A e \in BuildSteps(m, ids) : Described(m, e) \/ Controls(m, ids, e)
      /\ \E e \in BuildSteps(m, ids) : e.id = id
  BY StepsAre
<1>3. \A i \in 8 .. 13 : \A e \in final[i] : e.id # id
  BY FinalNames
<1>4. /\ \A i \in 1 .. 13 : \A e \in final[i] : e.id \in DOMAIN graph
      /\ \A x \in DOMAIN graph : \A i \in 1 .. 13 : LastWith(final, i, 13, x) => Gives(final[i], x, graph[x])
  BY GraphOwes
<1>5. id[1] = "uuid"
  <2>1. \A n \in Nat : Uuid(n)[1] = "uuid"
    BY UuidFacts
  <2> QED
    BY <2>1 DEF ActionIds, Apart
<1> HIDE DEF final, id
<1>6. LastWith(final, 7, 13, id)
  BY <1>1, <1>2, <1>3 DEF LastWith
<1>7. id \in DOMAIN graph
  BY <1>1, <1>2, <1>4
<1>8. Gives(final[7], id, graph[id])
  <2>1. 7 \in 1 .. 13
    OBVIOUS
  <2> QED
    BY <1>4, <1>6, <1>7, <2>1
<1>9. PICK e \in final[7] : e.id = id /\ e.types = graph[id].types
  BY <1>8 DEF Gives
<1>10. ~Described(m, e)
  <2>1. \A t : <<"step", t>>[1] = "step"
    OBVIOUS
  <2> QED
    BY <1>5, <1>9, <2>1 DEF Described
<1>11. Controls(m, ids, e)
  BY <1>1, <1>2, <1>9, <1>10
<1> QED
  BY <1>7, <1>9, <1>11 DEF Controls, id

\* Actions have the instruments and errors they need.
LEMMA ActionsWritten ==
    ASSUME NEW m \in Models, NEW profile, NEW ids, Apart(m, ids), NEW plans, plans = PlanFileInclusion(m),
           NEW graph, graph = Graph(m, profile, plans, ids), NEW id \in DOMAIN graph
    PROVE  /\ graph[id].types \cap Doing # {} => Has(graph[id].links, "instrument")
           /\ "ControlAction" \notin graph[id].types => Explained(graph[id].links)
<1> DEFINE final == Final(m, profile, plans, ids)
<1>1. (\A i \in (1 .. 13) \ {7} : Careful(final[i])) /\ final[7] = BuildSteps(m, ids)
  BY FinalCareful
<1>2. \A e \in BuildSteps(m, ids) : Described(m, e) \/ Controls(m, ids, e)
  BY StepsAre
<1>3. /\ \E i \in 1 .. 13 : Gives(final[i], id, graph[id])
      /\ (\A i \in 1 .. 13 : \A e \in final[i] : e.id = id => Explained(e.links)) => Explained(graph[id].links)
  BY GraphOwes
<1> HIDE DEF final
<1>4. ASSUME graph[id].types \cap Doing # {} PROVE Has(graph[id].links, "instrument")
  <2>1a. PICK i \in 1 .. 13 : \E e \in final[i] : e.types = graph[id].types /\ e.links \subseteq graph[id].links
    BY <1>3 DEF Gives
  <2>1. PICK e \in final[i] : e.types = graph[id].types /\ e.links \subseteq graph[id].links
    BY <2>1a
  <2>2. i # 7
    BY <1>1, <1>2, <1>4, <2>1 DEF Described, Controls, Doing
  <2>3. Has(e.links, "instrument")
    BY <1>1, <1>4, <2>1, <2>2 DEF Careful
  <2> QED
    BY <2>1, <2>3 DEF Has
<1>5. ASSUME ~Explained(graph[id].links) PROVE "ControlAction" \in graph[id].types
  <2>1a. PICK i \in 1 .. 13 : \E e \in final[i] : e.id = id /\ ~Explained(e.links)
    BY <1>3, <1>5
  <2>1. PICK e \in final[i] : e.id = id /\ ~Explained(e.links)
    BY <2>1a
  <2>2. i = 7
    BY <1>1, <2>1 DEF Careful
  <2>3. Controls(m, ids, e)
    BY <1>1, <1>2, <2>1, <2>2 DEF Described
  <2>4. PICK s \in Controlled(m) : id = ControlId(m, ids, s)
    BY <2>1, <2>3 DEF Controls
  <2> QED
    BY <2>4, ControlsWritten
<1> QED
  BY <1>4, <1>5

\* The workflow is written as one, unless its path is ignored.
LEMMA MainWritten ==
    ASSUME NEW m \in Models, NEW profile, NEW ids, Apart(m, ids), NEW plans, plans = PlanFileInclusion(m),
           NEW graph, graph = Graph(m, profile, plans, ids),
           HasWorkflow(m), m.workflow.path \notin Ignored \ Outside
    PROVE  WorkflowId(m) \in DOMAIN graph /\ "ComputationalWorkflow" \in graph[WorkflowId(m)].types
<1> DEFINE final == Final(m, profile, plans, ids)
           formals == FormalParameters(m, profile)
           id == WorkflowId(m)
<1>1. /\ final[5] = BuildWorkflow(m, formals)
      /\ final[9] = {Entity(FileId(p), {"File"}, {}) : p \in UnplannedFiles(m, plans)}
      /\ final[12] = Woven(m, Timeline(m, plans))
  BY FinalCareful
<1>2. \A i \in (1 .. 13) \ {4, 5, 9, 12} : \A e \in final[i] : e.id # id
  BY FinalNames
<1>3. /\ \A i \in 1 .. 13 : \A e \in final[i] : e.id \in DOMAIN graph
      /\ \A x \in DOMAIN graph : \A i \in 1 .. 13 : LastWith(final, i, 13, x) => Gives(final[i], x, graph[x])
  BY GraphOwes
<1>4. \A e \in BuildWorkflow(m, formals) : e.id = id /\ "ComputationalWorkflow" \in e.types
  BY WorkflowEntity
<1>5. BuildWorkflow(m, formals) # {}
  BY DEF BuildWorkflow
<1>6. \A e \in final[12] : e.id = id /\ "ComputationalWorkflow" \in e.types
  BY <1>1, TimelineCareful
<1>7. \A e \in final[9] : e.id # id
  <2>1. DOMAIN plans = ConsideredPaths(m) \ (Ignored \ Outside)
    BY PlansFollow
  <2>2. m.workflow.path \in DOMAIN plans
    BY <2>1 DEF ConsideredPaths
  <2>3. m.workflow.path \notin UnplannedFiles(m, plans)
    BY <2>2 DEF UnplannedFiles
  <2>4. \A p : Entity(FileId(p), {"File"}, {}).id = FileId(p)
    BY EntityIs
  <2>5. \A p : FileId(p) = FileId(m.workflow.path) => p = m.workflow.path
    BY DEF FileId
  <2> HIDE DEF final
  <2> QED
    BY <1>1, <2>3, <2>4, <2>5 DEF WorkflowId
<1> HIDE DEF final, formals, id
<1>8. id \in DOMAIN graph
  BY <1>1, <1>3, <1>4, <1>5
<1>9. \A j \in 6 .. 11 : \A e \in final[j] : e.id # id
  <2>1. \A j \in 6 .. 11 : j = 9 \/ j \in (1 .. 13) \ {4, 5, 9, 12}
    OBVIOUS
  <2> QED
    BY <1>2, <1>7, <2>1
<1>10. \A e \in final[13] : e.id # id
  BY <1>2
<1>11. CASE final[12] = {}
  <2>1. \A j \in 6 .. 13 : j \in 6 .. 11 \/ j = 12 \/ j = 13
    OBVIOUS
  <2>2. LastWith(final, 5, 13, id)
    BY <1>1, <1>4, <1>5, <1>9, <1>10, <1>11, <2>1 DEF LastWith
  <2>3. Gives(final[5], id, graph[id])
    BY <1>3, <1>8, <2>2
  <2> QED
    BY <1>1, <1>4, <1>8, <2>3 DEF Gives, id
<1>12. CASE final[12] # {}
  <2>1. \A j \in 13 .. 13 : j = 13
    OBVIOUS
  <2>2. LastWith(final, 12, 13, id)
    BY <1>6, <1>10, <1>12, <2>1 DEF LastWith
  <2>3. Gives(final[12], id, graph[id])
    BY <1>3, <1>8, <2>2
  <2> QED
    BY <1>6, <1>8, <2>3 DEF Gives, id
<1> QED
  BY <1>11, <1>12

\* If a step that is recorded has a command, all steps name what carried them out, and the
\* workflow names its parts.
LEMMA StepsWritten ==
    ASSUME NEW m \in Models, NEW profile, NEW ids, Apart(m, ids), NEW plans, plans = PlanFileInclusion(m),
           NEW graph, graph = Graph(m, profile, plans, ids),
           HasWorkflow(m), NEW s \in Controlled(m)
    PROVE  /\ \E id \in DOMAIN graph : "HowToStep" \in graph[id].types
           /\ \E id \in DOMAIN graph : "ControlAction" \in graph[id].types
           /\ \A id \in DOMAIN graph : "HowToStep" \in graph[id].types => Has(graph[id].links, "workExample")
           /\ \A id \in DOMAIN graph :
                  "ComputationalWorkflow" \in graph[id].types => Has(graph[id].links, "hasPart")
<1> DEFINE final == Final(m, profile, plans, ids)
           formals == FormalParameters(m, profile)
           timeline == Timeline(m, plans)
           step == <<"step", s>>
<1>1. /\ \A i \in (1 .. 13) \ {5, 7, 11, 12} : \A e \in final[i] : e.types \cap Working = {}
      /\ final[5] = BuildWorkflow(m, formals) /\ final[7] = BuildSteps(m, ids)
      /\ final[11] = BuildTimeline(timeline) /\ final[12] = Woven(m, timeline)
  BY FinalCareful
<1>2. s \in DOMAIN m.steps /\ m.commands \in Seq(Commands) /\ m.commands # <<>>
  <2>1. s \in DOMAIN m.steps /\ CommandsOf(m, s) # {}
    BY DEF Controlled
  <2>2. DOMAIN m.commands # {}
    BY <2>1 DEF CommandsOf
  <2> QED
    BY <2>1, <2>2, ModelFields
<1>3. final[11] = {} /\ final[12] = {}
  <2>1. timeline = {}
    BY <1>2 DEF Timeline
  <2> HIDE DEF timeline
  <2> QED
    BY <1>1, <2>1, TimelineCareful
<1>4. /\ \A e \in BuildSteps(m, ids) : Described(m, e) \/ Controls(m, ids, e)
      /\ \E e \in BuildSteps(m, ids) : e.id = step
  BY <1>2, StepsAre
<1>5. \A e \in BuildWorkflow(m, formals) : e.types \cap {"HowToStep"} = {} /\ Has(e.links, "hasPart")
  BY <1>2, WorkflowEntity
<1>6. \A i \in (1 .. 13) \ {7} : \A e \in final[i] : e.id # step
  BY FinalNames
<1>7. /\ \A i \in 1 .. 13 : \A e \in final[i] : e.id \in DOMAIN graph
      /\ \A id \in DOMAIN graph : \E i \in 1 .. 13 : Gives(final[i], id, graph[id])
  BY GraphOwes
<1> HIDE DEF final, formals, timeline, step
<1>8. ASSUME NEW id \in DOMAIN graph, NEW type \in Working, type \in graph[id].types
      PROVE  \E i \in {5, 7} : \E e \in final[i] : e.types = graph[id].types /\ e.links \subseteq graph[id].links
  <2>1a. PICK i \in 1 .. 13 : \E e \in final[i] : e.types = graph[id].types /\ e.links \subseteq graph[id].links
    BY <1>7 DEF Gives
  <2>1. PICK e \in final[i] : e.types = graph[id].types /\ e.links \subseteq graph[id].links
    BY <2>1a
  <2>2. i \notin (1 .. 13) \ {5, 7, 11, 12}
    BY <1>1, <1>8, <2>1
  <2> QED
    BY <1>3, <2>1, <2>2
<1>9. \A e \in final[7] : /\ "HowToStep" \in e.types => Has(e.links, "workExample")
                          /\ "ComputationalWorkflow" \notin e.types
  BY <1>1, <1>4 DEF Described, Controls
<1>10. \A a, b, p : Has(a, p) /\ a \subseteq b => Has(b, p)
  BY DEF Has
<1>11. ASSUME NEW id \in DOMAIN graph, "HowToStep" \in graph[id].types
       PROVE  Has(graph[id].links, "workExample")
  <2>1a. PICK i \in {5, 7} : \E e \in final[i] : e.types = graph[id].types /\ e.links \subseteq graph[id].links
    BY <1>8, <1>11 DEF Working
  <2>1. PICK e \in final[i] : e.types = graph[id].types /\ e.links \subseteq graph[id].links
    BY <2>1a
  <2> QED
    BY <1>1, <1>5, <1>9, <1>10, <1>11, <2>1
<1>12. ASSUME NEW id \in DOMAIN graph, "ComputationalWorkflow" \in graph[id].types
       PROVE  Has(graph[id].links, "hasPart")
  <2>1a. PICK i \in {5, 7} : \E e \in final[i] : e.types = graph[id].types /\ e.links \subseteq graph[id].links
    BY <1>8, <1>12 DEF Working
  <2>1. PICK e \in final[i] : e.types = graph[id].types /\ e.links \subseteq graph[id].links
    BY <2>1a
  <2> QED
    BY <1>1, <1>5, <1>9, <1>10, <1>12, <2>1
<1>13. \E id \in DOMAIN graph : "HowToStep" \in graph[id].types
  <2>1. step \in DOMAIN graph
    BY <1>1, <1>4, <1>7
  <2>2a. PICK i \in 1 .. 13 : \E e \in final[i] : e.id = step /\ e.types = graph[step].types
    BY <1>7, <2>1 DEF Gives
  <2>2. PICK e \in final[i] : e.id = step /\ e.types = graph[step].types
    BY <2>2a
  <2>3. e \in BuildSteps(m, ids)
    BY <1>1, <1>6, <2>2
  <2>4. ~Controls(m, ids, e)
    <3>1. \A n \in Nat : Uuid(n)[1] = "uuid"
      BY UuidFacts
    <3>2. \A t \in Controlled(m) : ControlId(m, ids, t)[1] = "uuid"
      BY <3>1 DEF Apart, ActionIds
    <3>3. step[1] = "step"
      BY DEF step
    <3> QED
      BY <2>2, <3>2, <3>3 DEF Controls
  <2>5. "HowToStep" \in e.types
    BY <1>4, <2>3, <2>4 DEF Described
  <2> QED
    BY <2>1, <2>2, <2>5
<1>14. \E id \in DOMAIN graph : "ControlAction" \in graph[id].types
  BY ControlsWritten
<1> QED
  BY <1>11, <1>12, <1>13, <1>14

\* A graph passes the checks of a profile for what the first n events say.
ToldSteps(log, n) ==
    \E i, j \in 1 .. n : Starts(log[i]) /\ log[j].type = "workflow.step.started" /\ log[j].step = log[i].step

Conforms(graph, profile, log, n) ==
    LET of(type) == {id \in DOMAIN graph : type \in graph[id].types}
        main == {link[2] : link \in {l \in graph[Root].links : l[1] = "mainEntity"}}
    IN  /\ Root \in DOMAIN graph /\ <<"conformsTo", <<"profile", profile>>>> \in graph[Root].links
        /\ \A id \in of("CreateAction") \cup of("UpdateAction") : Has(graph[id].links, "instrument")
        /\ \A id \in DOMAIN graph \ of("ControlAction") : Explained(graph[id].links)
        /\ main \cap FilesOf(Ignored \ Outside) = {} /\ WorkflowLike(profile)
               => main \cap of("ComputationalWorkflow") # {}
        /\ \A i \in 1 .. n : DeclaresWorkflow(log[i]) /\ (\A j \in 1 .. n : DeclaresWorkflow(log[j]) => j <= i)
               => main = {FileId(log[i].path)}
        /\ profile = "provenance" /\ ToldSteps(log, n) =>
               /\ of("HowToStep") # {} /\ of("ControlAction") # {}
               /\ \A id \in of("HowToStep") : Has(graph[id].links, "workExample")
               /\ \A id \in of("ComputationalWorkflow") : Has(graph[id].links, "hasPart")

AllConform == crate.graph # <<>> => Conforms(crate.graph, crate.profile, journal, crate.through)

\* That is what the property says.
LEMMA ConformsIs == ASSUME TypeInv, AllConform PROVE ConformsToProfile
<1> DEFINE graph == crate.graph
           profile == crate.profile
           n == crate.through
           of(type) == {id \in DOMAIN graph : type \in graph[id].types}
           main == {link[2] : link \in {l \in graph[Root].links : l[1] = "mainEntity"}}
<1>1. SUFFICES ASSUME graph # <<>> PROVE ConformsToProfile
  BY DEF ConformsToProfile
<1>2. Conforms(graph, profile, journal, n)
  BY <1>1 DEF AllConform
<1>3. /\ Root \in DOMAIN graph /\ <<"conformsTo", <<"profile", profile>>>> \in graph[Root].links
      /\ \A id \in of("CreateAction") \cup of("UpdateAction") : Has(graph[id].links, "instrument")
      /\ \A id \in DOMAIN graph \ of("ControlAction") : Explained(graph[id].links)
      /\ main \cap FilesOf(Ignored \ Outside) = {} /\ WorkflowLike(profile)
             => main \cap of("ComputationalWorkflow") # {}
      /\ \A i \in 1 .. n : DeclaresWorkflow(journal[i])
                           /\ (\A j \in 1 .. n : DeclaresWorkflow(journal[j]) => j <= i)
             => main = {FileId(journal[i].path)}
      /\ profile = "provenance" /\ ToldSteps(journal, n) =>
             /\ of("HowToStep") # {} /\ of("ControlAction") # {}
             /\ \A id \in of("HowToStep") : Has(graph[id].links, "workExample")
             /\ \A id \in of("ComputationalWorkflow") : Has(graph[id].links, "hasPart")
  BY <1>2 DEF Conforms
<1> HIDE DEF graph, profile, n
<1>4. /\ \A type : OfType(type) = of(type)
      /\ Graphed = DOMAIN graph /\ Seen = 1 .. n
  BY DEF OfType, Graphed, Seen, graph, n
<1>5. \A id \in DOMAIN graph : \A property :
          Targets(id, property) = {link[2] : link \in {l \in graph[id].links : l[1] = property}}
  BY DEF Targets, Links, Graphed, graph
<1>6. Targets(Root, "mainEntity") = main
  BY <1>3, <1>5
<1>7. ASSUME NEW id \in DOMAIN graph, NEW property, Has(graph[id].links, property)
      PROVE  Targets(id, property) # {}
  <2>1. PICK link \in graph[id].links : link[1] = property
    BY <1>7 DEF Has
  <2>2. link[2] \in Targets(id, property)
    BY <1>5, <2>1
  <2> QED
    BY <2>2
<1>8. ASSUME NEW id \in DOMAIN graph, Explained(graph[id].links),
             <<"status", "failed">> \in Targets(id, "actionStatus")
      PROVE  Targets(id, "error") # {}
  <2>1. PICK link \in graph[id].links : link[1] = "actionStatus" /\ link[2] = <<"status", "failed">>
    BY <1>5, <1>8
  <2>2. Failing(graph[id].links)
    BY <2>1 DEF Failing
  <2>3. Has(graph[id].links, "error")
    BY <1>8, <2>2 DEF Explained
  <2> QED
    BY <1>7, <2>3
<1>9. <<"profile", profile>> \in Targets(Root, "conformsTo")
  <2> DEFINE link == <<"conformsTo", <<"profile", profile>>>>
  <2>1. link[1] = "conformsTo" /\ link[2] = <<"profile", profile>> /\ link \in graph[Root].links
    BY <1>3
  <2> HIDE DEF link
  <2> QED
    BY <1>3, <1>5, <2>1
<1>10. StepsRun => ToldSteps(journal, n)
  <2> SUFFICES ASSUME NEW i \in Started \cap Seen, NEW j \in Seen, journal[j].type = "workflow.step.started",
                      journal[j].step = journal[i].step
               PROVE  ToldSteps(journal, n)
    BY DEF StepsRun
  <2>1. Starts(journal[i])
    BY DEF Started, Starts
  <2> QED
    BY <1>4, <2>1 DEF ToldSteps
<1>11. \A i : Defines(i) <=> DeclaresWorkflow(journal[i])
  BY DEF Defines, DeclaresWorkflow
<1>12. crate.profile = profile /\ crate.graph = graph
  BY DEF profile, graph
<1> HIDE DEF main
<1>13. MainIsWorkflow \/ Targets(Root, "mainEntity") \cap FilesOf(Ignored \ Outside) # {}
  BY <1>3, <1>4, <1>6, <1>12 DEF MainIsWorkflow
<1>14. \A id \in of("CreateAction") \cup of("UpdateAction") : Targets(id, "instrument") # {}
  BY <1>3, <1>7
<1>15. \A id \in DOMAIN graph \ of("ControlAction") :
          <<"status", "failed">> \in Targets(id, "actionStatus") => Targets(id, "error") # {}
  BY <1>3, <1>8
<1>16. \A i \in Seen : Defines(i) /\ (\A j \in Seen : Defines(j) => j <= i)
          => Targets(Root, "mainEntity") = {FileId(journal[i].path)}
  BY <1>3, <1>4, <1>6, <1>11
<1>17. profile = "provenance" /\ StepsRun =>
          /\ of("HowToStep") # {} /\ of("ControlAction") # {}
          /\ \A id \in of("HowToStep") : Targets(id, "workExample") # {}
          /\ \A id \in of("ComputationalWorkflow") : Targets(id, "hasPart") # {}
  BY <1>3, <1>7, <1>10
<1> HIDE DEF of
<1> QED
  BY <1>4, <1>9, <1>12, <1>13, <1>14, <1>15, <1>16, <1>17 DEF ConformsToProfile

\* The ids a build hands out keep its actions apart.
LEMMA BuiltApart ==
    ASSUME TypeInv, BuiltInv, IdInv, builder.open,
           NEW m, m = builder.built.model, NEW ids, ids = Allocate(builder.ids, Keys(m))
    PROVE  Apart(m, ids)
<1> DEFINE n == builder.through
           count == minted + Cardinality(Keys(m) \ DOMAIN builder.ids)
<1>1. m \in Models /\ journal \in Seq(Events) /\ n \in 0 .. Len(journal) /\ Orderly(journal)
  BY BuiltReads DEF TypeInv, Builders, IdInv, Numbers
<1>2. Tracked(m.commands, journal, n)
  <2>1. PICK request, files : builder.built = BuildModel(journal, n, request, files)
    BY DEF BuiltInv
  <2> QED
    BY <1>1, <2>1, CommandsRead
<1>3. MapsActions(ids, journal)
  BY BuildMaps
<1>4. ids \in IdMaps(count) /\ count \in Nat
  BY BuildAllocates DEF TypeInv
<1>5. Keys(m) \subseteq DOMAIN ids
  BY DEF Allocate
<1> HIDE DEF n, count
<1>6. ASSUME NEW key \in DOMAIN ids \cap EventKeys PROVE ids[key] \in ActionIds
  <2>1. PICK i \in 1 .. count : ids[key] = Uuid(i)
    BY <1>4, <1>6 DEF IdMaps
  <2>2. i \in Nat
    BY <1>4
  <2> QED
    BY <2>1, <2>2, UuidFacts
<1>7. ASSUME Executes(m) PROVE ids[<<"workflow-action">>] \in ActionIds
  <2>1. <<"workflow-action">> \in EventKeys /\ <<"workflow-action">> \in Keys(m)
    BY <1>7 DEF EventKeys, Keys
  <2> QED
    BY <1>5, <1>6, <2>1
<1>8. ASSUME NEW s \in Controlled(m)
      PROVE  /\ ControlId(m, ids, s) \in ActionIds
             /\ \A k \in DOMAIN m.commands : m.commands[k].action # ControlId(m, ids, s)
  <2> DEFINE first == m.commands[FirstCommand(m, s)]
             key == <<"control", first.command>>
  <2>1. first.command \in Nat
    <3>1. FirstCommand(m, s) \in DOMAIN m.commands
      BY <1>1, FirstCommandTyped DEF Controlled
    <3>2. m.commands \in Seq(Commands)
      BY <1>1, ModelFields
    <3>3. first \in Commands
      BY <3>1, <3>2
    <3> QED
      BY <3>3 DEF Commands
  <2>2. key \in EventKeys
    BY <2>1 DEF EventKeys
  <2>3. key \in Keys(m)
    BY DEF Keys
  <2>4. key[1] = "control"
    OBVIOUS
  <2>5. ControlId(m, ids, s) = ids[key]
    BY DEF ControlId
  <2> HIDE DEF key
  <2>6. key \in DOMAIN ids /\ ids[key] \in ActionIds
    BY <1>5, <1>6, <2>2, <2>3
  <2>7. ASSUME NEW k \in DOMAIN m.commands, m.commands[k].action = ids[key] PROVE FALSE
    <3> DEFINE at == m.commands[k].at
    <3>1. at \in 1 .. n /\ Starts(journal[at]) /\ m.commands[k].action = journal[at].action
      BY <1>2 DEF Tracked, Reflects
    <3>2. at \in DOMAIN journal
      BY <1>1, <3>1
    <3> HIDE DEF at
    <3>3. key = <<"action", journal[at].command>>
      BY <1>3, <2>6, <2>7, <3>1, <3>2 DEF MapsActions
    <3>4. <<"action", journal[at].command>>[1] = "action"
      OBVIOUS
    <3> QED
      BY <2>4, <3>3, <3>4
  <2> QED
    BY <2>5, <2>6, <2>7
<1> QED
  BY <1>7, <1>8 DEF Apart

\* The crate that is written passes the checks.
LEMMA ConformsWritten ==
    ASSUME TypeInv, BuiltInv, IdInv, Write PROVE AllConform'
<1> DEFINE m == builder.built.model
           profile == builder.built.profile
           plans == PlanFileInclusion(m)
           ids == Allocate(builder.ids, Keys(m))
           graph == Graph(m, profile, plans, ids)
           n == builder.through
           of(type) == {id \in DOMAIN graph : type \in graph[id].types}
           main == {link[2] : link \in {l \in graph[Root].links : l[1] = "mainEntity"}}
<1>1. builder.open /\ journal' = journal
      /\ crate' = [through |-> n, profile |-> profile, graph |-> graph]
  BY DEF Write
<1>2. crate'.through = n /\ crate'.graph = graph /\ crate'.profile = profile
  BY <1>1
<1>3. m \in Models /\ journal \in Seq(Events) /\ n \in 0 .. Len(journal) /\ Orderly(journal)
  BY <1>1, BuiltReads DEF TypeInv, Builders, IdInv, Numbers
<1>4. /\ Tracked(m.commands, journal, n)
      /\ WorkflowLike(profile) => HasWorkflow(m)
      /\ LastDefined(m.workflow, journal, n)
      /\ StepsStarted(m.steps, journal, n)
  <2>1. PICK request, files : builder.built = BuildModel(journal, n, request, files)
    BY <1>1 DEF BuiltInv
  <2> QED
    BY <1>3, <2>1, CommandsRead, WorkflowRead
<1>5. Apart(m, ids)
  BY <1>1, BuiltApart
<1> HIDE DEF m, profile, ids, n
<1>6. /\ Root \in DOMAIN graph
      /\ <<"conformsTo", <<"profile", profile>>>> \in graph[Root].links
      /\ main = IF HasWorkflow(m) THEN {WorkflowId(m)} ELSE {}
  BY <1>3, <1>5, RootWritten
<1>7. ASSUME NEW id \in DOMAIN graph
      PROVE  /\ graph[id].types \cap Doing # {} => Has(graph[id].links, "instrument")
             /\ "ControlAction" \notin graph[id].types => Explained(graph[id].links)
  BY <1>3, <1>5, ActionsWritten
<1>8. HasWorkflow(m) /\ m.workflow.path \notin Ignored \ Outside =>
          WorkflowId(m) \in DOMAIN graph /\ "ComputationalWorkflow" \in graph[WorkflowId(m)].types
  BY <1>3, <1>5, MainWritten
<1>9. ASSUME HasWorkflow(m), NEW s \in Controlled(m)
      PROVE  /\ \E id \in DOMAIN graph : "HowToStep" \in graph[id].types
             /\ \E id \in DOMAIN graph : "ControlAction" \in graph[id].types
             /\ \A id \in DOMAIN graph : "HowToStep" \in graph[id].types => Has(graph[id].links, "workExample")
             /\ \A id \in DOMAIN graph :
                    "ComputationalWorkflow" \in graph[id].types => Has(graph[id].links, "hasPart")
  BY <1>3, <1>5, <1>9, StepsWritten
<1> HIDE DEF graph, main
<1>10. main \cap FilesOf(Ignored \ Outside) = {} /\ WorkflowLike(profile)
           => main \cap of("ComputationalWorkflow") # {}
  <2> SUFFICES ASSUME main \cap FilesOf(Ignored \ Outside) = {}, WorkflowLike(profile)
               PROVE  main \cap of("ComputationalWorkflow") # {}
    OBVIOUS
  <2>1. HasWorkflow(m) /\ main = {WorkflowId(m)}
    BY <1>4, <1>6
  <2>2. m.workflow.path \notin Ignored \ Outside
    BY <2>1 DEF FilesOf, WorkflowId
  <2> QED
    BY <1>8, <2>1, <2>2
<1>11. ASSUME NEW i \in 1 .. n, DeclaresWorkflow(journal[i]),
              \A j \in 1 .. n : DeclaresWorkflow(journal[j]) => j <= i
       PROVE  main = {FileId(journal[i].path)}
  <2>1. m.workflow = Definition(journal[i].path)
    BY <1>4, <1>11 DEF LastDefined
  <2>2. journal[i].path \in Paths
    <3>1. journal[i] \in Events
      BY <1>3
    <3>2. journal[i] \in DeclarationEvents
      BY <1>11, <3>1, EventFields DEF DeclaresWorkflow
    <3> QED
      BY <3>2 DEF DeclarationEvents
  <2>3. HasWorkflow(m) /\ m.workflow.path = journal[i].path
    BY <2>1, <2>2, DefinitionIs DEF HasWorkflow
  <2> QED
    BY <1>6, <2>3 DEF WorkflowId
<1>12. ASSUME profile = "provenance", ToldSteps(journal, n) PROVE HasWorkflow(m) /\ \E s : s \in Controlled(m)
  <2>1. PICK i \in 1 .. n, j \in 1 .. n : /\ Starts(journal[i]) /\ journal[j].type = "workflow.step.started"
                                         /\ journal[j].step = journal[i].step
    BY <1>12 DEF ToldSteps
  <2> DEFINE s == journal[j].step
  <2>2. s \in DOMAIN m.steps
    BY <1>4, <2>1 DEF StepsStarted
  <2>3. PICK k \in DOMAIN m.commands : m.commands[k].at = i
    BY <1>4, <2>1 DEF Tracked
  <2>4. m.commands[k].step = s
    BY <1>4, <2>1, <2>3 DEF Tracked, Reflects
  <2>5. s \in Controlled(m)
    BY <2>2, <2>4 DEF Controlled, CommandsOf
  <2>6. WorkflowLike(profile)
    BY <1>12 DEF WorkflowLike
  <2> QED
    BY <1>4, <2>5, <2>6
<1>13. ASSUME profile = "provenance", ToldSteps(journal, n)
       PROVE  /\ of("HowToStep") # {} /\ of("ControlAction") # {}
              /\ \A id \in of("HowToStep") : Has(graph[id].links, "workExample")
              /\ \A id \in of("ComputationalWorkflow") : Has(graph[id].links, "hasPart")
  <2>1. HasWorkflow(m) /\ \E s : s \in Controlled(m)
    BY <1>12, <1>13
  <2>2. PICK s : s \in Controlled(m)
    BY <2>1
  <2> QED
    BY <1>9, <2>1, <2>2
<1>14. \A id \in of("CreateAction") \cup of("UpdateAction") : Has(graph[id].links, "instrument")
  <2> SUFFICES ASSUME NEW id \in DOMAIN graph, "CreateAction" \in graph[id].types \/ "UpdateAction" \in graph[id].types
               PROVE  Has(graph[id].links, "instrument")
    OBVIOUS
  <2>1. graph[id].types \cap Doing # {}
    BY DEF Doing
  <2> QED
    BY <1>7, <2>1
<1>15. \A id \in DOMAIN graph \ of("ControlAction") : Explained(graph[id].links)
  <2> SUFFICES ASSUME NEW id \in DOMAIN graph, "ControlAction" \notin graph[id].types
               PROVE  Explained(graph[id].links)
    OBVIOUS
  <2> QED
    BY <1>7
<1>16. Conforms(graph, profile, journal, n)
  <2> DEFINE links == graph[Root].links
  <2>1. main = {link[2] : link \in {l \in graph[Root].links : l[1] = "mainEntity"}}
    BY DEF main
  <2> QED
    BY <1>6, <1>10, <1>11, <1>13, <1>14, <1>15, <2>1 DEF Conforms
<1> QED
  BY <1>1, <1>2, <1>16 DEF AllConform

\* What is recorded after the mark changes nothing for the checks.
LEMMA ConformsStays ==
    ASSUME TypeInv, AllConform, Continuing PROVE AllConform'
<1> DEFINE n == crate.through
<1>1. n \in 0 .. Len(journal) /\ journal \in Seq(Events) /\ crate' = crate
  BY DEF TypeInv, Continuing
<1> HIDE DEF n
<1>2. \A i \in 1 .. n : journal'[i] = journal[i]
  <2>1. CASE journal' = journal
    BY <1>1, <2>1
  <2>2. ASSUME NEW e \in Events, journal' = Append(journal, e)
        PROVE  \A i \in 1 .. n : journal'[i] = journal[i]
    BY <1>1, <2>2, Grown
  <2> QED
    BY <2>1, <2>2 DEF Continuing
<1> DEFINE log == journal
           later == journal'
<1>3. ASSUME NEW graph, NEW profile, Conforms(graph, profile, log, n) PROVE Conforms(graph, profile, later, n)
  <2> HIDE DEF log, later
  <2>1. \A i \in 1 .. n : later[i] = log[i]
    BY <1>2 DEF log, later
  <2>2. ToldSteps(later, n) => ToldSteps(log, n)
    BY <2>1 DEF ToldSteps, Starts
  <2>3. \A i \in 1 .. n : DeclaresWorkflow(later[i]) <=> DeclaresWorkflow(log[i])
    BY <2>1 DEF DeclaresWorkflow
  <2> QED
    BY <1>3, <2>1, <2>2, <2>3 DEF Conforms
<1> QED
  BY <1>1, <1>3 DEF AllConform, n

\* The crate passes the checks, with what keeps its ids apart.
ConformanceInv == TypeInv /\ BuiltInv /\ IdInv /\ AllConform

LEMMA ConformanceInit == ASSUME Init PROVE ConformanceInv
<1>1. crate.graph = <<>> /\ ~builder.open
  BY DEF Init, NoCrate, Idle
<1> QED
  BY <1>1, TypeInit, IdInit DEF ConformanceInv, BuiltInv, AllConform

\* Every step keeps it.
LEMMA ConformanceNext == ASSUME ConformanceInv, [Next]_vars PROVE ConformanceInv'
<1>1. TypeInv /\ BuiltInv /\ IdInv /\ AllConform
  BY DEF ConformanceInv
<1>2. TypeInv' /\ BuiltInv' /\ IdInv'
  BY <1>1, TypeNext, BuiltNext, IdNext
<1>3. CASE Continuing
  BY <1>1, <1>2, <1>3, ConformsStays DEF ConformanceInv
<1>4. ASSUME NEW request \in Requests, Open(request) PROVE ConformanceInv'
  <2>1. journal' = journal /\ crate' = crate
    BY <1>4 DEF Open
  <2> QED
    BY <1>1, <1>2, <2>1 DEF ConformanceInv, AllConform
<1>5. CASE Write
  BY <1>1, <1>2, <1>5, ConformsWritten DEF ConformanceInv
<1> QED
  BY <1>1, <1>3, <1>4, <1>5, Phased

\* The crate of every checkpoint passes the checks of validation/profiles.py for the
\* profile it was built for, with the definition declared last as its workflow, for any
\* journal and any configuration: whatever _dedupe merges, an action that creates keeps its
\* instrument, a failed one its error, and the workflow its type, unless its path is
\* ignored; a provenance crate with a recorded step that has a command has the steps and
\* the control actions it needs.
THEOREM CratesConform == Spec => []ConformsToProfile
<1>1. Init => ConformanceInv
  BY ConformanceInit
<1>2. ConformanceInv /\ [Next]_vars => ConformanceInv'
  BY ConformanceNext
<1>3. ConformanceInv => ConformsToProfile
  BY ConformsIs DEF ConformanceInv
<1> QED
  BY <1>1, <1>2, <1>3, PTL DEF Spec

-----------------------------------------------------------------------------
(* The steps of a synthesized workflow.                                     *)

\* Actions with times of their own among the first n.
Timed(T, n) ==
    /\ \A t \in T : t[1] \in 1 .. n
    /\ \A s \in T, t \in T : s[1] = t[1] => s = t

\* Their places follow their times, and are different.
LEMMA Places ==
    ASSUME NEW T, NEW n \in Nat, Timed(T, n)
    PROVE  /\ IsFiniteSet(T)
           /\ \A s \in T, t \in T : s[1] < t[1] => Place(s, T) < Place(t, T)
           /\ \A s \in T, t \in T : Place(s, T) = Place(t, T) => s = t
<1> DEFINE f == [t \in T |-> t[1]]
           upto(t) == {other \in T : other[1] <= t[1]}
<1>1. \A t \in T : t[1] \in Nat
  BY DEF Timed
<1>2. f \in Injection(T, 1 .. n)
  <2>1. f \in [T -> 1 .. n] /\ \A s \in T, t \in T : f[s] = f[t] => s = t
    BY DEF Timed
  <2> QED
    BY <2>1 DEF Injection, IsInjective
<1>3. IsFiniteSet(T)
  <2>1. IsFiniteSet(1 .. n)
    BY FS_Interval
  <2> HIDE DEF f
  <2> QED
    BY <1>2, <2>1, FS_Injection
<1>4. \A t \in T : IsFiniteSet(upto(t)) /\ Cardinality(upto(t)) \in Nat
  BY <1>3, FS_Subset, FS_CardinalityType
<1>5. ASSUME NEW s \in T, NEW t \in T, s[1] < t[1] PROVE Place(s, T) < Place(t, T)
  <2>1. upto(s) \in SUBSET upto(t) /\ t \in upto(t) /\ t \notin upto(s)
    BY <1>1, <1>5
  <2> DEFINE a == upto(s)
             b == upto(t)
  <2>2. a \in SUBSET b /\ a # b /\ IsFiniteSet(b) /\ Cardinality(a) \in Nat /\ Cardinality(b) \in Nat
    BY <1>4, <2>1
  <2> HIDE DEF a, b
  <2>3. Cardinality(a) <= Cardinality(b) /\ Cardinality(a) # Cardinality(b)
    BY <2>2, FS_Subset
  <2>4. Cardinality(a) < Cardinality(b)
    BY <2>2, <2>3
  <2> QED
    BY <2>4 DEF Place, a, b
<1>6. \A t \in T : Place(t, T) \in Nat
  BY <1>4 DEF Place
<1>7. ASSUME NEW s \in T, NEW t \in T, Place(s, T) = Place(t, T) PROVE s = t
  <2>1. ~(s[1] < t[1]) /\ ~(t[1] < s[1])
    BY <1>5, <1>6, <1>7
  <2>2. s[1] = t[1]
    BY <1>1, <2>1
  <2> QED
    BY <2>2 DEF Timed
<1> QED
  BY <1>3, <1>5, <1>7

\* The ids and the entities of one of the steps.
StepId(a, T) == <<"wfstep", Place(a, T)>>
ControlledId(a, T) == <<"wfcontrol", Place(a, T)>>
StepEntity(a, T) == Entity(StepId(a, T), {"HowToStep"}, {})
ControlEntity(a, T) == Entity(ControlledId(a, T), {"ControlAction"}, Ref("instrument", StepId(a, T)) \cup Ref("object", a[2]))

\* What is emitted for the timeline.
LEMMA TimelineEntities ==
    ASSUME NEW T
    PROVE  /\ \A e \in BuildTimeline(T) : \E a \in T : e = StepEntity(a, T) \/ e = ControlEntity(a, T)
           /\ \A a \in T : StepEntity(a, T) \in BuildTimeline(T) /\ ControlEntity(a, T) \in BuildTimeline(T)
           /\ \A a : /\ StepEntity(a, T).id = StepId(a, T) /\ ControlEntity(a, T).id = ControlledId(a, T)
                     /\ {link[2] : link \in {l \in ControlEntity(a, T).links : l[1] = "object"}} = {a[2]}
           /\ \A a : StepId(a, T)[1] = "wfstep" /\ ControlledId(a, T)[1] = "wfcontrol"
           /\ \A a, b : StepId(a, T) = StepId(b, T) => Place(a, T) = Place(b, T)
           /\ \A a, b : ControlledId(a, T) = ControlledId(b, T) => Place(a, T) = Place(b, T)
           /\ \A a, b : StepId(a, T) # ControlledId(b, T)
<1>1. BuildTimeline(T) = UNION {{StepEntity(a, T), ControlEntity(a, T)} : a \in T}
  BY DEF BuildTimeline, StepEntity, ControlEntity, StepId, ControlledId
<1>2. /\ \A a : StepId(a, T)[1] = "wfstep" /\ ControlledId(a, T)[1] = "wfcontrol"
      /\ \A a : StepId(a, T)[2] = Place(a, T) /\ ControlledId(a, T)[2] = Place(a, T)
  BY DEF StepId, ControlledId
<1>3. \A id, types, links : Entity(id, types, links).id = id /\ Entity(id, types, links).links = links
  BY EntityIs
<1>4. ASSUME NEW a
      PROVE  /\ StepEntity(a, T).id = StepId(a, T) /\ ControlEntity(a, T).id = ControlledId(a, T)
             /\ ControlEntity(a, T).links = Ref("instrument", StepId(a, T)) \cup Ref("object", a[2])
  BY <1>3 DEF StepEntity, ControlEntity
<1>5. ASSUME NEW s, NEW o
      PROVE  {link[2] : link \in {l \in Ref("instrument", s) \cup Ref("object", o) : l[1] = "object"}} = {o}
  <2> DEFINE x == <<"instrument", s>>
             y == <<"object", o>>
             all == Ref("instrument", s) \cup Ref("object", o)
  <2>1. x[1] # "object" /\ y[1] = "object" /\ y[2] = o
    OBVIOUS
  <2>2. \A l : l \in all <=> l = x \/ l = y
    BY DEF Ref
  <2> HIDE DEF x, y, all
  <2>3. {l \in all : l[1] = "object"} = {y}
    BY <2>1, <2>2
  <2>4. {link[2] : link \in {y}} = {o}
    BY <2>1
  <2> QED
    BY <2>3, <2>4 DEF all
<1>6. \A a, b : StepId(a, T) # ControlledId(b, T)
  BY <1>2
<1>7. \A a : {link[2] : link \in {l \in ControlEntity(a, T).links : l[1] = "object"}} = {a[2]}
  BY <1>4, <1>5
<1>8. /\ \A e \in BuildTimeline(T) : \E a \in T : e = StepEntity(a, T) \/ e = ControlEntity(a, T)
      /\ \A a \in T : StepEntity(a, T) \in BuildTimeline(T) /\ ControlEntity(a, T) \in BuildTimeline(T)
  BY <1>1
<1>9. /\ \A a, b : StepId(a, T) = StepId(b, T) => Place(a, T) = Place(b, T)
      /\ \A a, b : ControlledId(a, T) = ControlledId(b, T) => Place(a, T) = Place(b, T)
  BY <1>2
<1> QED
  BY <1>2, <1>4, <1>6, <1>7, <1>8, <1>9

\* The objects of an entity.
Objects(graph, id) == {link[2] : link \in {l \in graph[id].links : l[1] = "object"}}

\* The graph has these steps and controls, and no other steps.
LEMMA TimelineWritten ==
    ASSUME NEW m \in Models, NEW profile, NEW ids, Apart(m, ids), NEW plans, plans = PlanFileInclusion(m),
           NEW graph, graph = Graph(m, profile, plans, ids), NEW T, T = Timeline(m, plans),
           \A s \in T, t \in T : Place(s, T) = Place(t, T) => s = t
    PROVE  /\ \A id \in DOMAIN graph : id[1] = "wfstep" => \E a \in T : id = StepId(a, T)
           /\ \A a \in T : /\ StepId(a, T) \in DOMAIN graph /\ ControlledId(a, T) \in DOMAIN graph
                           /\ Objects(graph, ControlledId(a, T)) = {a[2]}
<1> DEFINE final == Final(m, profile, plans, ids)
<1>1. final[11] = BuildTimeline(T)
  BY FinalCareful
<1>2. /\ \A i \in 1 .. 13 : \A e \in final[i] : e.id \in DOMAIN graph
      /\ \A id \in DOMAIN graph : \E i \in 1 .. 13 : Gives(final[i], id, graph[id])
  BY GraphOwes
<1>3. ASSUME NEW id \in DOMAIN graph, NEW i \in 1 .. 13, NEW e \in final[i], e.id = id,
             \A j \in 1 .. 13 : \A d \in final[j] : d.id = id => d = e
      PROVE  graph[id] = e
  BY <1>3, GraphOwes
<1>4. /\ Kinds(final[1], {"descriptor", "profile"}) /\ Kinds(final[2], {"actor", "software"})
      /\ Kinds(final[3], {"formal"}) /\ Kinds(final[4], {"file"}) /\ Kinds(final[5], {"file"})
      /\ Kinds(final[6], {"uuid"}) /\ Kinds(final[7], {"step", "uuid"}) /\ Kinds(final[8], {"uuid", "log"})
      /\ Kinds(final[9], {"file"})
      /\ Kinds(final[10], {"file-action", "software", "raw-command", "subagent", "result", "phase"})
      /\ Kinds(final[11], {"wfstep", "wfcontrol"}) /\ Kinds(final[12], {"file"})
      /\ Kinds(final[13], {"root"})
  BY FinalKinds
<1> HIDE DEF final
<1>5. \A i \in 1 .. 13 : i = 11 \/ \A e \in final[i] : e.id[1] # "wfstep" /\ e.id[1] # "wfcontrol"
  <2>1. \A i \in 1 .. 13 : i \in {1, 2, 3, 4, 5, 6, 7, 8, 9, 10, 11, 12, 13}
    OBVIOUS
  <2> QED
    BY <1>4, <2>1 DEF Kinds
<1>6. /\ \A e \in final[11] : \E a \in T : e = StepEntity(a, T) \/ e = ControlEntity(a, T)
      /\ \A a \in T : StepEntity(a, T) \in final[11] /\ ControlEntity(a, T) \in final[11]
  <2>1. \A e \in BuildTimeline(T) : \E a \in T : e = StepEntity(a, T) \/ e = ControlEntity(a, T)
    BY TimelineEntities
  <2>2. \A a \in T : StepEntity(a, T) \in BuildTimeline(T) /\ ControlEntity(a, T) \in BuildTimeline(T)
    BY TimelineEntities
  <2> QED
    BY <1>1, <2>1, <2>2
<1>7. /\ \A a : /\ StepEntity(a, T).id = StepId(a, T) /\ ControlEntity(a, T).id = ControlledId(a, T)
                /\ {link[2] : link \in {l \in ControlEntity(a, T).links : l[1] = "object"}} = {a[2]}
      /\ \A a : StepId(a, T)[1] = "wfstep" /\ ControlledId(a, T)[1] = "wfcontrol"
      /\ \A a, b : ControlledId(a, T) = ControlledId(b, T) => Place(a, T) = Place(b, T)
      /\ \A a, b : StepId(a, T) # ControlledId(b, T)
  <2>1. \A a : /\ StepEntity(a, T).id = StepId(a, T) /\ ControlEntity(a, T).id = ControlledId(a, T)
                /\ {link[2] : link \in {l \in ControlEntity(a, T).links : l[1] = "object"}} = {a[2]}
    BY TimelineEntities
  <2>2. \A a : StepId(a, T)[1] = "wfstep" /\ ControlledId(a, T)[1] = "wfcontrol"
    BY TimelineEntities
  <2>3. /\ \A a, b : ControlledId(a, T) = ControlledId(b, T) => Place(a, T) = Place(b, T)
        /\ \A a, b : StepId(a, T) # ControlledId(b, T)
    BY TimelineEntities
  <2> QED
    BY <2>1, <2>2, <2>3
<1>8. ASSUME NEW id \in DOMAIN graph, id[1] = "wfstep" PROVE \E a \in T : id = StepId(a, T)
  <2>1. PICK i \in 1 .. 13 : Gives(final[i], id, graph[id])
    BY <1>2
  <2>2. PICK e \in final[i] : e.id = id
    BY <2>1 DEF Gives
  <2>3. e \in final[11]
    BY <1>5, <1>8, <2>2
  <2>4. PICK a \in T : e = StepEntity(a, T) \/ e = ControlEntity(a, T)
    BY <1>6, <2>3
  <2>5. id = StepId(a, T) \/ id = ControlledId(a, T)
    BY <1>7, <2>2, <2>4
  <2> QED
    BY <1>7, <1>8, <2>5
<1>9. ASSUME NEW a \in T
      PROVE  /\ StepId(a, T) \in DOMAIN graph /\ ControlledId(a, T) \in DOMAIN graph
             /\ Objects(graph, ControlledId(a, T)) = {a[2]}
  <2>1. StepEntity(a, T) \in final[11] /\ ControlEntity(a, T) \in final[11] /\ 11 \in 1 .. 13
    BY <1>6
  <2>2. StepId(a, T) \in DOMAIN graph /\ ControlledId(a, T) \in DOMAIN graph
    BY <1>2, <1>7, <2>1
  <2>3. ASSUME NEW j \in 1 .. 13, NEW d \in final[j], d.id = ControlledId(a, T) PROVE d = ControlEntity(a, T)
    <3>1. d \in final[11]
      BY <1>5, <1>7, <2>3
    <3>2. PICK b \in T : d = StepEntity(b, T) \/ d = ControlEntity(b, T)
      BY <1>6, <3>1
    <3>3. d = ControlEntity(b, T) /\ ControlledId(a, T) = ControlledId(b, T)
      BY <1>7, <2>3, <3>2
    <3>4. Place(a, T) = Place(b, T)
      BY <1>7, <3>3
    <3>5. a = b
      BY <3>4
    <3> QED
      BY <3>3, <3>5
  <2>4. graph[ControlledId(a, T)] = ControlEntity(a, T)
    BY <1>3, <1>7, <2>1, <2>2, <2>3
  <2> QED
    BY <1>7, <2>2, <2>4 DEF Objects
<1> QED
  BY <1>8, <1>9

\* The id of an edit's action.
EditId(i) == <<"file-action", i>>

\* The edits whose actions are emitted.
LEMMA EditsEmitted ==
    ASSUME NEW m, NEW plans
    PROVE  /\ \A e \in BuildAgentActions(m, plans) : e.id[1] = "file-action" =>
                  \E k \in EmittedEdits(m, plans) : e.id = EditId(m.edits[k].at)
           /\ \A k \in EmittedEdits(m, plans) : \E e \in BuildAgentActions(m, plans) : e.id = EditId(m.edits[k].at)
<1>1. \A id, types, links : Entity(id, types, links).id = id
  BY EntityKinds
<1> DEFINE act(id, type, status, agent) == Entity(id, {type}, status \cup Ref("agent", Actor(agent)))
           done == Finished(TRUE)
           rawId(i) == <<"raw-command", m.shells[i].at>>
           rawLinks(i) == done \cup Ref("agent", Actor("claude-code")) \cup Ref("object", Root)
                          \cup Ref("instrument", Software(m.shells[i].tool))
           taskId(i) == <<"subagent", m.tasks[i].at>>
           edits == EmittedEdits(m, plans)
           tools == (IF edits = {} THEN {} ELSE {"editor"}) \cup {m.shells[i].tool : i \in DOMAIN m.shells}
           edited == {EditAction(m.edits[i]) : i \in edits}
           software == {Entity(Software(t), {"SoftwareApplication"}, {}) : t \in tools}
           raws == {Entity(rawId(i), {"CreateAction"}, rawLinks(i)) : i \in DOMAIN m.shells}
           tasks == {act(taskId(i), "Action", done, "claude-code")
                        : i \in DOMAIN m.tasks}
           results == {act(<<"result", i>>, "AssessAction", Finished(m.results[i]), "human")
                          : i \in DOMAIN m.results}
           phases == {act(<<"phase", i>>, "Action",
                  Status(IF m.phases[i].status = "completed" THEN "completed" ELSE "active"), "human")
                  : i \in DOMAIN m.phases}
<1>2. BuildAgentActions(m, plans) = edited \cup software \cup raws \cup tasks \cup results \cup phases
  BY DEF BuildAgentActions
<1>3. \A edit : EditAction(edit).id = EditId(edit.at)
  BY <1>1 DEF EditAction, EditId
<1>4. \A e \in software : e.id[1] = "software"
  BY DEF Software, Entity
<1>5. \A e \in raws : e.id[1] = "raw-command"
  <2>1. \A i : rawId(i)[1] = "raw-command"
    OBVIOUS
  <2> HIDE DEF rawId, rawLinks
  <2>2. \A e \in raws : \E i : e.id = rawId(i)
    BY <1>1
  <2> QED
    BY <2>1, <2>2
<1>6. \A e \in tasks : e.id[1] = "subagent"
  <2>1. \A i : taskId(i)[1] = "subagent"
    OBVIOUS
  <2> HIDE DEF taskId, done
  <2>2. \A e \in tasks : \E i : e.id = taskId(i)
    BY <1>1
  <2> QED
    BY <2>1, <2>2
<1>7. \A e \in results : e.id[1] = "result"
  BY DEF Entity
<1>8. \A e \in phases : e.id[1] = "phase"
  BY DEF Entity
<1>9. \A e \in edited : \E k \in edits : e = EditAction(m.edits[k])
  OBVIOUS
<1>10. \A k \in edits : EditAction(m.edits[k]) \in edited
  OBVIOUS
<1> HIDE DEF edited, software, raws, tasks, results, phases
<1>11. \A e \in BuildAgentActions(m, plans) : e.id[1] = "file-action" => e \in edited
  BY <1>2, <1>4, <1>5, <1>6, <1>7, <1>8
<1>12. \A k \in edits : EditAction(m.edits[k]) \in BuildAgentActions(m, plans)
  BY <1>2, <1>10
<1> HIDE DEF edits
<1> QED
  BY <1>3, <1>9, <1>11, <1>12 DEF edits

\* They are the edits whose actions the graph has.
LEMMA EditsWritten ==
    ASSUME NEW m \in Models, NEW profile, NEW ids, Apart(m, ids), NEW plans, plans = PlanFileInclusion(m),
           NEW graph, graph = Graph(m, profile, plans, ids), NEW i
    PROVE  EditId(i) \in DOMAIN graph <=> \E k \in EmittedEdits(m, plans) : EditId(m.edits[k].at) = EditId(i)
<1> DEFINE final == Final(m, profile, plans, ids)
<1>1. final[10] = BuildAgentActions(m, plans)
  <2>1. \A j \in 1 .. 12 : final[j] = Sections(m, profile, plans, ids)[j]
    BY FinalAre
  <2>2. Sections(m, profile, plans, ids)[10] = BuildAgentActions(m, plans)
    BY SectionsAre
  <2> HIDE DEF final
  <2> QED
    BY <2>1, <2>2
<1>2. /\ \A j \in 1 .. 13 : \A e \in final[j] : e.id \in DOMAIN graph
      /\ \A id \in DOMAIN graph : \E j \in 1 .. 13 : Gives(final[j], id, graph[id])
  BY GraphOwes
<1>3. /\ Kinds(final[1], {"descriptor", "profile"}) /\ Kinds(final[2], {"actor", "software"})
      /\ Kinds(final[3], {"formal"}) /\ Kinds(final[4], {"file"}) /\ Kinds(final[5], {"file"})
      /\ Kinds(final[6], {"uuid"}) /\ Kinds(final[7], {"step", "uuid"}) /\ Kinds(final[8], {"uuid", "log"})
      /\ Kinds(final[9], {"file"})
      /\ Kinds(final[10], {"file-action", "software", "raw-command", "subagent", "result", "phase"})
      /\ Kinds(final[11], {"wfstep", "wfcontrol"}) /\ Kinds(final[12], {"file"})
      /\ Kinds(final[13], {"root"})
  BY FinalKinds
<1> HIDE DEF final
<1>4. \A j \in 1 .. 13 : j = 10 \/ \A e \in final[j] : e.id[1] # "file-action"
  <2>1. \A j \in 1 .. 13 : j \in {1, 2, 3, 4, 5, 6, 7, 8, 9, 10, 11, 12, 13}
    OBVIOUS
  <2> QED
    BY <1>3, <2>1 DEF Kinds
<1>5. EditId(i)[1] = "file-action"
  BY DEF EditId
<1>6. ASSUME EditId(i) \in DOMAIN graph PROVE \E k \in EmittedEdits(m, plans) : EditId(m.edits[k].at) = EditId(i)
  <2>1. PICK j \in 1 .. 13 : Gives(final[j], EditId(i), graph[EditId(i)])
    BY <1>2, <1>6
  <2>2. PICK e \in final[j] : e.id = EditId(i)
    BY <2>1 DEF Gives
  <2>3. e \in BuildAgentActions(m, plans) /\ e.id[1] = "file-action"
    BY <1>1, <1>4, <1>5, <2>2
  <2> QED
    BY <2>2, <2>3, EditsEmitted
<1>7. ASSUME NEW k \in EmittedEdits(m, plans), EditId(m.edits[k].at) = EditId(i) PROVE EditId(i) \in DOMAIN graph
  <2>1. PICK e \in BuildAgentActions(m, plans) : e.id = EditId(m.edits[k].at)
    BY EditsEmitted
  <2>2. 10 \in 1 .. 13
    OBVIOUS
  <2> QED
    BY <1>1, <1>2, <1>7, <2>1, <2>2
<1> QED
  BY <1>6, <1>7

\* The entity of a recorded action, as a set of at most one.
Acted(graph, log, i) ==
    CASE log[i].type = "execution.command.started" -> {log[i].action}
      [] log[i].type = "file" -> {EditId(i)} \cap DOMAIN graph
      [] log[i].type = "tool.completed" -> {<<"raw-command", i>>}
      [] FirstOfTask(log, i) -> {<<"subagent", i>>}
      [] OTHER -> {}

\* Case by case.
LEMMA ActedIs ==
    ASSUME NEW graph, NEW log, NEW i
    PROVE  /\ Starts(log[i]) => Acted(graph, log, i) = {log[i].action}
           /\ log[i].type = "file" => Acted(graph, log, i) = {EditId(i)} \cap DOMAIN graph
           /\ log[i].type = "tool.completed" => Acted(graph, log, i) = {<<"raw-command", i>>}
           /\ FirstOfTask(log, i) => Acted(graph, log, i) = {<<"subagent", i>>}
           /\ Acted(graph, log, i) # {} =>
                  Starts(log[i]) \/ log[i].type = "file" \/ log[i].type = "tool.completed" \/ FirstOfTask(log, i)
<1>1. FirstOfTask(log, i) => log[i].type = "agent.task"
  BY DEF FirstOfTask
<1> DEFINE type == log[i].type
<1> HIDE DEF type
<1>2. Starts(log[i]) <=> type = "execution.command.started"
  BY DEF Starts, type
<1>3. CASE type = "execution.command.started"
  BY <1>1, <1>2, <1>3 DEF Acted, type
<1>4. CASE type = "file"
  BY <1>1, <1>2, <1>4 DEF Acted, type
<1>5. CASE type = "tool.completed"
  BY <1>1, <1>2, <1>5 DEF Acted, type
<1>6. CASE type \notin {"execution.command.started", "file", "tool.completed"}
  BY <1>1, <1>2, <1>6 DEF Acted, type
<1> QED
  BY <1>3, <1>4, <1>5, <1>6

\* A journal whose commands have uuids, each its own.
OwnIds(log) ==
    /\ \A i \in DOMAIN log : Starts(log[i]) => log[i].action[1] = "uuid"
    /\ \A i, j \in DOMAIN log : Starts(log[i]) /\ Starts(log[j]) /\ log[i].action = log[j].action => i = j

\* No two events act under one id.
LEMMA ActedApart ==
    ASSUME NEW graph, NEW log, OwnIds(log), NEW i \in DOMAIN log, NEW j \in DOMAIN log, NEW a,
           a \in Acted(graph, log, i), a \in Acted(graph, log, j)
    PROVE  i = j
<1> DEFINE raw(k) == <<"raw-command", k>>
           sub(k) == <<"subagent", k>>
<1>1. \A k : /\ EditId(k)[1] = "file-action" /\ EditId(k)[2] = k
             /\ raw(k)[1] = "raw-command" /\ raw(k)[2] = k
             /\ sub(k)[1] = "subagent" /\ sub(k)[2] = k
  BY DEF EditId
<1> HIDE DEF raw, sub
<1>2. ASSUME NEW k \in DOMAIN log, a \in Acted(graph, log, k)
      PROVE  \/ (Starts(log[k]) /\ a = log[k].action)
             \/ a = EditId(k) \/ a = raw(k) \/ a = sub(k)
  BY <1>2, ActedIs DEF raw, sub
<1>3. /\ (Starts(log[i]) /\ a = log[i].action) \/ a = EditId(i) \/ a = raw(i) \/ a = sub(i)
      /\ (Starts(log[j]) /\ a = log[j].action) \/ a = EditId(j) \/ a = raw(j) \/ a = sub(j)
  BY <1>2
<1>4. (Starts(log[i]) => log[i].action[1] = "uuid") /\ (Starts(log[j]) => log[j].action[1] = "uuid")
  BY DEF OwnIds
<1>5. CASE Starts(log[i]) /\ a = log[i].action
  <2>1. Starts(log[j]) /\ a = log[j].action
    BY <1>1, <1>3, <1>4, <1>5
  <2> QED
    BY <1>5, <2>1 DEF OwnIds
<1>6. CASE a = EditId(i)
  BY <1>1, <1>3, <1>4, <1>6
<1>7. CASE a = raw(i)
  BY <1>1, <1>3, <1>4, <1>7
<1>8. CASE a = sub(i)
  BY <1>1, <1>3, <1>4, <1>8
<1> QED
  BY <1>3, <1>5, <1>6, <1>7, <1>8

\* The actions of a timeline are what the first n events did, each at its event's time.
Follow(T, graph, log, n) ==
    /\ \A t \in T : t = <<t[1], t[2]>> /\ t[1] \in 1 .. n /\ Acted(graph, log, t[1]) = {t[2]}
    /\ \A i \in 1 .. n : Acted(graph, log, i) # {} => \E t \in T : t[1] = i

\* The timed actions of a model follow the journal.
LEMMA ActionTimes ==
    ASSUME NEW m \in Models, NEW profile, NEW ids, Apart(m, ids), NEW plans, plans = PlanFileInclusion(m),
           NEW graph, graph = Graph(m, profile, plans, ids),
           NEW log \in Seq(Events), NEW n \in 0 .. Len(log), Tracked(m.commands, log, n), Told(m, log, n)
    PROVE  Follow(TimedActions(m, plans), graph, log, n)
<1> DEFINE raw(i) == <<"raw-command", i>>
           sub(i) == <<"subagent", i>>
           commands == {<<m.commands[k].at, m.commands[k].action>> : k \in DOMAIN m.commands}
           edits == {<<m.edits[k].at, EditId(m.edits[k].at)>> : k \in EmittedEdits(m, plans)}
           shells == {<<m.shells[k].at, raw(m.shells[k].at)>> : k \in DOMAIN m.shells}
           tasks == {<<m.tasks[k].at, sub(m.tasks[k].at)>> : k \in DOMAIN m.tasks}
           At(t, i, a) == t = <<t[1], t[2]>> /\ t[1] = i /\ t[2] = a
           Fits(t) == t = <<t[1], t[2]>> /\ t[1] \in 1 .. n /\ Acted(graph, log, t[1]) = {t[2]}
<1>1. TimedActions(m, plans) = commands \cup edits \cup shells \cup tasks
  BY DEF TimedActions, EditId
<1>3. /\ \A t \in commands : \E k \in DOMAIN m.commands : At(t, m.commands[k].at, m.commands[k].action)
      /\ \A k \in DOMAIN m.commands : \E t \in commands : t[1] = m.commands[k].at
  <2> DEFINE time(k) == m.commands[k].at
             act(k) == m.commands[k].action
  <2>1. commands = {<<time(k), act(k)>> : k \in DOMAIN m.commands}
    OBVIOUS
  <2> HIDE DEF time, act, commands
  <2>2. ASSUME NEW t \in commands PROVE \E k \in DOMAIN m.commands : At(t, time(k), act(k))
    <3>1. PICK k \in DOMAIN m.commands : t = <<time(k), act(k)>>
      BY <2>1
    <3>2. At(t, time(k), act(k))
      BY <3>1
    <3> QED
      BY <3>2
  <2>3. ASSUME NEW k \in DOMAIN m.commands PROVE \E t \in commands : t[1] = time(k)
    <3>1. <<time(k), act(k)>> \in commands /\ <<time(k), act(k)>>[1] = time(k)
      BY <2>1
    <3> QED
      BY <3>1
  <2> HIDE DEF At
  <2> QED
    BY <2>2, <2>3 DEF time, act
<1> HIDE DEF raw, sub
<1>4. /\ \A t \in edits : \E k \in EmittedEdits(m, plans) : At(t, m.edits[k].at, EditId(m.edits[k].at))
      /\ \A k \in EmittedEdits(m, plans) : \E t \in edits : t[1] = m.edits[k].at
  <2> DEFINE time(k) == m.edits[k].at
             act(k) == EditId(m.edits[k].at)
  <2>1. edits = {<<time(k), act(k)>> : k \in EmittedEdits(m, plans)}
    OBVIOUS
  <2> HIDE DEF time, act, edits
  <2>2. ASSUME NEW t \in edits PROVE \E k \in EmittedEdits(m, plans) : At(t, time(k), act(k))
    <3>1. PICK k \in EmittedEdits(m, plans) : t = <<time(k), act(k)>>
      BY <2>1
    <3>2. At(t, time(k), act(k))
      BY <3>1
    <3> QED
      BY <3>2
  <2>3. ASSUME NEW k \in EmittedEdits(m, plans) PROVE \E t \in edits : t[1] = time(k)
    <3>1. <<time(k), act(k)>> \in edits /\ <<time(k), act(k)>>[1] = time(k)
      BY <2>1
    <3> QED
      BY <3>1
  <2> HIDE DEF At
  <2> QED
    BY <2>2, <2>3 DEF time, act
<1>5. /\ \A t \in shells : \E k \in DOMAIN m.shells : At(t, m.shells[k].at, raw(m.shells[k].at))
      /\ \A k \in DOMAIN m.shells : \E t \in shells : t[1] = m.shells[k].at
  <2> DEFINE time(k) == m.shells[k].at
             act(k) == raw(m.shells[k].at)
  <2>1. shells = {<<time(k), act(k)>> : k \in DOMAIN m.shells}
    OBVIOUS
  <2> HIDE DEF time, act, shells
  <2>2. ASSUME NEW t \in shells PROVE \E k \in DOMAIN m.shells : At(t, time(k), act(k))
    <3>1. PICK k \in DOMAIN m.shells : t = <<time(k), act(k)>>
      BY <2>1
    <3>2. At(t, time(k), act(k))
      BY <3>1
    <3> QED
      BY <3>2
  <2>3. ASSUME NEW k \in DOMAIN m.shells PROVE \E t \in shells : t[1] = time(k)
    <3>1. <<time(k), act(k)>> \in shells /\ <<time(k), act(k)>>[1] = time(k)
      BY <2>1
    <3> QED
      BY <3>1
  <2> HIDE DEF At
  <2> QED
    BY <2>2, <2>3 DEF time, act
<1>6. /\ \A t \in tasks : \E k \in DOMAIN m.tasks : At(t, m.tasks[k].at, sub(m.tasks[k].at))
      /\ \A k \in DOMAIN m.tasks : \E t \in tasks : t[1] = m.tasks[k].at
  <2> DEFINE time(k) == m.tasks[k].at
             act(k) == sub(m.tasks[k].at)
  <2>1. tasks = {<<time(k), act(k)>> : k \in DOMAIN m.tasks}
    OBVIOUS
  <2> HIDE DEF time, act, tasks
  <2>2. ASSUME NEW t \in tasks PROVE \E k \in DOMAIN m.tasks : At(t, time(k), act(k))
    <3>1. PICK k \in DOMAIN m.tasks : t = <<time(k), act(k)>>
      BY <2>1
    <3>2. At(t, time(k), act(k))
      BY <3>1
    <3> QED
      BY <3>2
  <2>3. ASSUME NEW k \in DOMAIN m.tasks PROVE \E t \in tasks : t[1] = time(k)
    <3>1. <<time(k), act(k)>> \in tasks /\ <<time(k), act(k)>>[1] = time(k)
      BY <2>1
    <3> QED
      BY <3>1
  <2> HIDE DEF At
  <2> QED
    BY <2>2, <2>3 DEF time, act
<1> HIDE DEF commands, edits, shells, tasks
<1>7. \A i \in 1 .. n :
         /\ Starts(log[i]) => Acted(graph, log, i) = {log[i].action}
         /\ log[i].type = "file" => Acted(graph, log, i) = {EditId(i)} \cap DOMAIN graph
         /\ log[i].type = "tool.completed" => Acted(graph, log, i) = {raw(i)}
         /\ FirstOfTask(log, i) => Acted(graph, log, i) = {sub(i)}
         /\ Acted(graph, log, i) # {} =>
                Starts(log[i]) \/ log[i].type = "file" \/ log[i].type = "tool.completed" \/ FirstOfTask(log, i)
  BY ActedIs DEF raw, sub
<1>8. /\ \A k \in DOMAIN m.commands : Reflects(m.commands[k], log, n)
      /\ \A i \in 1 .. n : Starts(log[i]) => \E k \in DOMAIN m.commands : m.commands[k].at = i
  BY DEF Tracked
<1>9. PlacedAt(m.edits, log, n, "file") /\ ShellsTold(m.shells, log, n) /\ TasksTold(m.tasks, log, n)
  BY DEF Told
<1>10. \A i : EditId(i) \in DOMAIN graph <=> \E k \in EmittedEdits(m, plans) : EditId(m.edits[k].at) = EditId(i)
  BY EditsWritten
<1>11. EmittedEdits(m, plans) \subseteq DOMAIN m.edits
  BY DEF EmittedEdits
<1>12. ASSUME NEW t \in commands PROVE Fits(t)
  <2>1. PICK k \in DOMAIN m.commands : At(t, m.commands[k].at, m.commands[k].action)
    BY <1>3
  <2>2. /\ m.commands[k].at \in 1 .. n /\ Starts(log[m.commands[k].at])
        /\ m.commands[k].action = log[m.commands[k].at].action
    BY <1>8 DEF Reflects
  <2> QED
    BY <1>7, <2>1, <2>2
<1>13. ASSUME NEW t \in edits PROVE Fits(t)
  <2>1. PICK k \in EmittedEdits(m, plans) : At(t, m.edits[k].at, EditId(m.edits[k].at))
    BY <1>4
  <2>2. m.edits[k].at \in 1 .. n /\ log[m.edits[k].at].type = "file"
    BY <1>9, <1>11 DEF PlacedAt
  <2>3. EditId(m.edits[k].at) \in DOMAIN graph
    BY <1>10
  <2> QED
    BY <1>7, <2>1, <2>2, <2>3
<1>14. ASSUME NEW t \in shells PROVE Fits(t)
  <2>1. PICK k \in DOMAIN m.shells : At(t, m.shells[k].at, raw(m.shells[k].at))
    BY <1>5
  <2>2. m.shells[k].at \in 1 .. n /\ log[m.shells[k].at].type = "tool.completed"
    BY <1>9 DEF ShellsTold, PlacedAt
  <2> QED
    BY <1>7, <2>1, <2>2
<1>15. ASSUME NEW t \in tasks PROVE Fits(t)
  <2>1. PICK k \in DOMAIN m.tasks : At(t, m.tasks[k].at, sub(m.tasks[k].at))
    BY <1>6
  <2>2. m.tasks[k].at \in 1 .. n /\ FirstOfTask(log, m.tasks[k].at)
    BY <1>9 DEF TasksTold
  <2> QED
    BY <1>7, <2>1, <2>2
<1>16. ASSUME NEW i \in 1 .. n, Acted(graph, log, i) # {}
       PROVE  \E t \in commands \cup edits \cup shells \cup tasks : t[1] = i
  <2>1. CASE Starts(log[i])
    BY <1>3, <1>8, <2>1
  <2>2. CASE log[i].type = "file"
    <3>1. EditId(i) \in DOMAIN graph
      BY <1>7, <1>16, <2>2
    <3>2. PICK k \in EmittedEdits(m, plans) : EditId(m.edits[k].at) = EditId(i)
      BY <1>10, <3>1
    <3>3. m.edits[k].at = i
      BY <3>2 DEF EditId
    <3> QED
      BY <1>4, <3>3
  <2>3. CASE log[i].type = "tool.completed"
    <3>1. PICK k \in DOMAIN m.shells : m.shells[k].at = i
      BY <1>9, <2>3 DEF ShellsTold
    <3> QED
      BY <1>5, <3>1
  <2>4. CASE FirstOfTask(log, i)
    <3>1. PICK k \in DOMAIN m.tasks : m.tasks[k].task = log[i].task
      BY <1>9, <2>4 DEF TasksTold, FirstOfTask
    <3> DEFINE j == m.tasks[k].at
    <3>2. j \in 1 .. n /\ FirstOfTask(log, j) /\ log[j].task = log[i].task
      BY <1>9, <3>1 DEF TasksTold
    <3> HIDE DEF j
    <3>3. ~(j < i)
      <4>1. j < i => j \in 1 .. i - 1
        BY <3>2
      <4> QED
        BY <2>4, <3>2, <4>1 DEF FirstOfTask
    <3>4. ~(i < j)
      <4>1. i < j => i \in 1 .. j - 1
        BY <3>2
      <4> QED
        BY <2>4, <3>2, <4>1 DEF FirstOfTask
    <3>5. j = i
      BY <3>2, <3>3, <3>4
    <3> QED
      BY <1>6, <3>5 DEF j
  <2> QED
    BY <1>7, <1>16, <2>1, <2>2, <2>3, <2>4
<1>17. \A t \in TimedActions(m, plans) : Fits(t)
  BY <1>1, <1>12, <1>13, <1>14, <1>15
<1>18. \A i \in 1 .. n : Acted(graph, log, i) # {} => \E t \in TimedActions(m, plans) : t[1] = i
  BY <1>1, <1>16
<1> QED
  BY <1>17, <1>18 DEF Follow

\* There are as many steps as times.
LEMMA Counts ==
    ASSUME NEW T, NEW n \in Nat, Timed(T, n), NEW S, NEW P,
           \A id \in S : \E a \in T : id = StepId(a, T), \A a \in T : StepId(a, T) \in S,
           \A i \in P : \E a \in T : i = a[1], \A a \in T : a[1] \in P
    PROVE  Cardinality(S) = Cardinality(P)
<1> DEFINE f == [a \in T |-> StepId(a, T)]
           g == [a \in T |-> a[1]]
<1>1. /\ IsFiniteSet(T)
      /\ \A s \in T, t \in T : Place(s, T) = Place(t, T) => s = t
  BY Places
<1>2. \A a, b : StepId(a, T) = StepId(b, T) => Place(a, T) = Place(b, T)
  BY TimelineEntities
<1>3. f \in Bijection(T, S)
  <2>1. f \in [T -> S] /\ \A id \in S : \E a \in T : f[a] = id
    OBVIOUS
  <2>2. \A a, b \in T : f[a] = f[b] => a = b
    BY <1>1, <1>2
  <2> HIDE DEF f
  <2> QED
    BY <2>1, <2>2 DEF Bijection, Injection, Surjection, IsInjective
<1>4. g \in Bijection(T, P)
  <2>1. g \in [T -> P] /\ \A i \in P : \E a \in T : g[a] = i
    OBVIOUS
  <2>2. \A a, b \in T : g[a] = g[b] => a = b
    BY DEF Timed
  <2> HIDE DEF g
  <2> QED
    BY <2>1, <2>2 DEF Bijection, Injection, Surjection, IsInjective
<1> HIDE DEF f, g
<1>5. ExistsBijection(T, S) /\ ExistsBijection(T, P)
  BY <1>3, <1>4 DEF ExistsBijection
<1>6. Cardinality(S) = Cardinality(T)
  BY <1>1, <1>5, FS_Bijection
<1>7. Cardinality(P) = Cardinality(T)
  BY <1>1, <1>5, FS_Bijection
<1> QED
  BY <1>6, <1>7

\* A workflow with steps of its own is written with them.
LEMMA HowToWritten ==
    ASSUME NEW m \in Models, NEW profile, NEW ids, Apart(m, ids), NEW plans, plans = PlanFileInclusion(m),
           NEW graph, graph = Graph(m, profile, plans, ids),
           HasWorkflow(m), m.workflow.path \notin Ignored \ Outside, DOMAIN m.steps # {}
    PROVE  WorkflowId(m) \in DOMAIN graph /\ "HowTo" \in graph[WorkflowId(m)].types
<1> DEFINE final == Final(m, profile, plans, ids)
           formals == FormalParameters(m, profile)
           id == WorkflowId(m)
<1>1. /\ final[5] = BuildWorkflow(m, formals)
      /\ final[9] = {Entity(FileId(p), {"File"}, {}) : p \in UnplannedFiles(m, plans)}
      /\ final[12] = {}
  <2>1. final[5] = BuildWorkflow(m, formals)
    BY FinalCareful
  <2>2. final[9] = {Entity(FileId(p), {"File"}, {}) : p \in UnplannedFiles(m, plans)}
    BY FinalCareful
  <2>3. final[12] = Woven(m, Timeline(m, plans))
    BY FinalCareful
  <2>4. Timeline(m, plans) = {}
    BY DEF Timeline
  <2>5. Woven(m, {}) = {}
    BY DEF Woven
  <2> HIDE DEF final
  <2> QED
    BY <2>1, <2>2, <2>3, <2>4, <2>5
<1>2. \A i \in (1 .. 13) \ {4, 5, 9, 12} : \A e \in final[i] : e.id # id
  BY FinalNames
<1>3. /\ \A i \in 1 .. 13 : \A e \in final[i] : e.id \in DOMAIN graph
      /\ \A x \in DOMAIN graph : \A i \in 1 .. 13 : LastWith(final, i, 13, x) => Gives(final[i], x, graph[x])
  BY GraphOwes
<1>4. \A e \in BuildWorkflow(m, formals) : e.id = id /\ "HowTo" \in e.types
  <2> SUFFICES ASSUME NEW e \in BuildWorkflow(m, formals) PROVE e.id = id /\ "HowTo" \in e.types
    OBVIOUS
  <2>1. e.id = id
    BY WorkflowEntity
  <2> DEFINE types == {"ComputationalWorkflow"} \cup (IF m.workflow.synthetic THEN {} ELSE {"File"})
                      \cup (IF DOMAIN m.steps = {} THEN {} ELSE {"HowTo"})
  <2>2. \E links : e = Entity(WorkflowId(m), types, links)
    BY DEF BuildWorkflow
  <2>3. "HowTo" \in types
    OBVIOUS
  <2> HIDE DEF types
  <2>4. e.types = types
    BY <2>2, EntityIs
  <2> QED
    BY <2>1, <2>3, <2>4
<1>5. BuildWorkflow(m, formals) # {}
  BY DEF BuildWorkflow
<1>6. \A e \in final[9] : e.id # id
  <2>1. DOMAIN plans = ConsideredPaths(m) \ (Ignored \ Outside)
    BY PlansFollow
  <2>2. m.workflow.path \in DOMAIN plans
    BY <2>1 DEF ConsideredPaths
  <2>3. m.workflow.path \notin UnplannedFiles(m, plans)
    BY <2>2 DEF UnplannedFiles
  <2>4. \A p : Entity(FileId(p), {"File"}, {}).id = FileId(p)
    BY EntityIs
  <2>5. \A p : FileId(p) = FileId(m.workflow.path) => p = m.workflow.path
    BY DEF FileId
  <2> HIDE DEF final
  <2> QED
    BY <1>1, <2>3, <2>4, <2>5 DEF WorkflowId
<1> HIDE DEF final, formals, id
<1>7. id \in DOMAIN graph
  BY <1>1, <1>3, <1>4, <1>5
<1>8. LastWith(final, 5, 13, id)
  <2>1. \A j \in 6 .. 13 : j = 9 \/ j = 12 \/ j \in (1 .. 13) \ {4, 5, 9, 12}
    OBVIOUS
  <2>2. \A j \in 5 + 1 .. 13 : \A e \in final[j] : e.id # id
    BY <1>1, <1>2, <1>6, <2>1
  <2> QED
    BY <1>1, <1>4, <1>5, <2>2 DEF LastWith
<1>9. Gives(final[5], id, graph[id])
  BY <1>3, <1>7, <1>8
<1> QED
  BY <1>1, <1>4, <1>7, <1>9 DEF Gives, id

\* The steps of a graph, what an entity leads to, and the places an event's action takes.
StepsOf(graph) == {id \in DOMAIN graph : id[1] = "wfstep"}
Aims(graph, id, property) ==
    {link[2] : link \in {l \in (IF id \in DOMAIN graph THEN graph[id].links ELSE {}) : l[1] = property}}
Taken(graph, log, i) ==
    {k \in {id[2] : id \in StepsOf(graph)} :
        Acted(graph, log, i) \cap Aims(graph, <<"wfcontrol", k>>, "object") # {}}
Acting(graph, log, n) == {i \in 1 .. n : Acted(graph, log, i) # {}}

\* Of a synthesized workflow, each action of the first n events is a step, in their order.
Ordered(graph, log, n) ==
    /\ Aims(graph, Root, "mainEntity") = {FileId(AgentPath)}
       /\ {id \in DOMAIN graph : "HowTo" \in graph[id].types} = {}
           => Cardinality(StepsOf(graph)) = Cardinality(Acting(graph, log, n))
    /\ StepsOf(graph) # {} => \A i \in Acting(graph, log, n) :
           /\ Cardinality(Taken(graph, log, i)) = 1
           /\ \A j \in Acting(graph, log, n) :
                  i < j => \A a \in Taken(graph, log, i), b \in Taken(graph, log, j) : a < b

\* The graph has these steps and these controls of a timeline.
Shows(graph, T) ==
    /\ \A id \in DOMAIN graph : id[1] = "wfstep" => \E a \in T : id = StepId(a, T)
    /\ \A a \in T : /\ StepId(a, T) \in DOMAIN graph /\ ControlledId(a, T) \in DOMAIN graph
                    /\ Objects(graph, ControlledId(a, T)) = {a[2]}

\* An action takes its own place.
LEMMA TakenIs ==
    ASSUME NEW graph, NEW log, NEW n, NEW T, NEW t, t \in T,
           1 .. n \subseteq DOMAIN log, OwnIds(log), Follow(T, graph, log, n), Shows(graph, T)
    PROVE  Taken(graph, log, t[1]) = {Place(t, T)}
<1> DEFINE control(k) == <<"wfcontrol", k>>
<1>1. \A a : StepId(a, T)[1] = "wfstep" /\ StepId(a, T)[2] = Place(a, T) /\ ControlledId(a, T) = control(Place(a, T))
  BY DEF StepId, ControlledId
<1>2. \A a \in T : Aims(graph, control(Place(a, T)), "object") = {a[2]}
  <2> SUFFICES ASSUME NEW a \in T PROVE Aims(graph, control(Place(a, T)), "object") = {a[2]}
    OBVIOUS
  <2> DEFINE id == ControlledId(a, T)
  <2>1. id \in DOMAIN graph /\ Objects(graph, id) = {a[2]}
    BY DEF Shows
  <2>2. id = control(Place(a, T))
    BY <1>1
  <2> HIDE DEF id, control
  <2> QED
    BY <2>1, <2>2 DEF Aims, Objects
<1>3. Taken(graph, log, t[1]) =
         {k \in {id[2] : id \in StepsOf(graph)} :
             Acted(graph, log, t[1]) \cap Aims(graph, control(k), "object") # {}}
  BY DEF Taken
<1> HIDE DEF control
<1>4. \A a \in T : a = <<a[1], a[2]>> /\ a[1] \in DOMAIN log /\ Acted(graph, log, a[1]) = {a[2]}
  BY DEF Follow
<1>5. ASSUME NEW k \in Taken(graph, log, t[1]) PROVE k = Place(t, T)
  <2>1. PICK id \in StepsOf(graph) : k = id[2]
    BY <1>3
  <2>2. PICK a \in T : id = StepId(a, T)
    BY <2>1 DEF StepsOf, Shows
  <2>3. k = Place(a, T)
    BY <1>1, <2>1, <2>2
  <2>4. a[2] = t[2]
    BY <1>2, <1>3, <1>4, <2>3
  <2>5. a[2] \in Acted(graph, log, a[1]) /\ a[2] \in Acted(graph, log, t[1])
    BY <1>4, <2>4
  <2>6. a[1] = t[1]
    BY <1>4, <2>5, ActedApart
  <2>7. a = t
    BY <1>4, <2>4, <2>6
  <2> QED
    BY <2>3, <2>7
<1>6. Place(t, T) \in Taken(graph, log, t[1])
  <2>1. StepId(t, T) \in StepsOf(graph)
    BY <1>1 DEF StepsOf, Shows
  <2>2. Place(t, T) \in {id[2] : id \in StepsOf(graph)}
    BY <1>1, <2>1
  <2>3. t[2] \in Acted(graph, log, t[1]) \cap Aims(graph, control(Place(t, T)), "object")
    BY <1>2, <1>4
  <2> QED
    BY <1>3, <2>2, <2>3
<1> QED
  BY <1>5, <1>6

\* A built graph is in the order of the journal.
LEMMA OrderedBuilt ==
    ASSUME NEW m \in Models, NEW profile, NEW ids, Apart(m, ids), NEW plans, plans = PlanFileInclusion(m),
           NEW graph, graph = Graph(m, profile, plans, ids),
           NEW log \in Seq(Events), NEW n \in 0 .. Len(log), OwnIds(log),
           Tracked(m.commands, log, n), Told(m, log, n)
    PROVE  Ordered(graph, log, n)
<1> DEFINE T == Timeline(m, plans)
           all == TimedActions(m, plans)
           acting == Acting(graph, log, n)
<1>1. Follow(all, graph, log, n)
  BY ActionTimes
<1>2. T = IF m.workflow.synthetic /\ DOMAIN m.steps = {} THEN all ELSE {}
  BY DEF Timeline
<1>3. n \in Nat /\ 1 .. n \subseteq DOMAIN log
  OBVIOUS
<1> HIDE DEF all
<1>4. Timed(T, n)
  <2>1. \A t \in all : t = <<t[1], t[2]>> /\ t[1] \in 1 .. n /\ Acted(graph, log, t[1]) = {t[2]}
    BY <1>1 DEF Follow
  <2>2. \A s \in all, t \in all : s[1] = t[1] => s = t
    <3> SUFFICES ASSUME NEW s \in all, NEW t \in all, s[1] = t[1] PROVE s = t
      OBVIOUS
    <3>1. {s[2]} = {t[2]}
      BY <2>1
    <3>2. s[2] = t[2] /\ s = <<s[1], s[2]>> /\ t = <<t[1], t[2]>>
      BY <2>1, <3>1
    <3> QED
      BY <3>2
  <2> QED
    BY <1>2, <2>1, <2>2 DEF Timed
<1>5. /\ \A s \in T, t \in T : s[1] < t[1] => Place(s, T) < Place(t, T)
      /\ \A s \in T, t \in T : Place(s, T) = Place(t, T) => s = t
  <2> HIDE DEF T
  <2> QED
    BY <1>3, <1>4, Places
<1>6. Shows(graph, T)
  <2>1. T = Timeline(m, plans)
    OBVIOUS
  <2> HIDE DEF T
  <2> QED
    BY <1>5, <2>1, TimelineWritten DEF Shows
<1> HIDE DEF T
<1>7. T = all =>
        /\ \A i \in acting : \E a \in T : i = a[1]
        /\ \A a \in T : a[1] \in acting
  BY <1>1 DEF Follow, Acting
<1>8. ASSUME Aims(graph, Root, "mainEntity") = {FileId(AgentPath)},
             {id \in DOMAIN graph : "HowTo" \in graph[id].types} = {}
      PROVE  Cardinality(StepsOf(graph)) = Cardinality(acting)
  <2>1. /\ Root \in DOMAIN graph
        /\ {link[2] : link \in {l \in graph[Root].links : l[1] = "mainEntity"}} =
              IF HasWorkflow(m) THEN {WorkflowId(m)} ELSE {}
    BY RootWritten
  <2>2. Aims(graph, Root, "mainEntity") = IF HasWorkflow(m) THEN {WorkflowId(m)} ELSE {}
    BY <2>1 DEF Aims
  <2>3. HasWorkflow(m) /\ WorkflowId(m) = FileId(AgentPath)
    BY <1>8, <2>2
  <2>4. m.workflow.path = AgentPath /\ m.workflow # NoWorkflow
    BY <2>3 DEF HasWorkflow, WorkflowId, FileId
  <2>5. m.workflow \in Workflows
    BY ModelFields
  <2>6. m.workflow = AgentActions
    <3>1. AgentPath \notin Paths
      BY ConstantsAssumption
    <3>2. \A p \in Paths : Definition(p).path # AgentPath
      BY <3>1, DefinitionIs
    <3> QED
      BY <2>4, <2>5, <3>2 DEF Workflows
  <2>7. m.workflow.synthetic
    BY <2>6 DEF AgentActions
  <2>8. m.workflow.path \notin Ignored \ Outside
    BY <2>4, ConstantsAssumption
  <2>9. DOMAIN m.steps = {}
    <3> SUFFICES ASSUME DOMAIN m.steps # {} PROVE FALSE
      OBVIOUS
    <3>1. WorkflowId(m) \in DOMAIN graph /\ "HowTo" \in graph[WorkflowId(m)].types
      BY <2>3, <2>8, HowToWritten
    <3> QED
      BY <1>8, <3>1
  <2>10. T = all
    BY <1>2, <2>7, <2>9
  <2>11. /\ \A id \in StepsOf(graph) : \E a \in T : id = StepId(a, T)
         /\ \A a \in T : StepId(a, T) \in StepsOf(graph)
    <3>1. \A a : StepId(a, T)[1] = "wfstep"
      BY DEF StepId
    <3> QED
      BY <1>6, <3>1 DEF Shows, StepsOf
  <2> DEFINE steps == StepsOf(graph)
  <2>12. (\A id \in steps : \E a \in T : id = StepId(a, T)) /\ (\A a \in T : StepId(a, T) \in steps)
    BY <2>11
  <2>13. (\A i \in acting : \E a \in T : i = a[1]) /\ (\A a \in T : a[1] \in acting)
    BY <1>7, <2>10
  <2> HIDE DEF steps, acting
  <2>14. Cardinality(steps) = Cardinality(acting)
    BY <1>3, <1>4, <2>12, <2>13, Counts
  <2> QED
    BY <2>14 DEF steps
<1>9. ASSUME StepsOf(graph) # {}, NEW i \in acting
      PROVE  /\ Cardinality(Taken(graph, log, i)) = 1
             /\ \A j \in acting : i < j => \A a \in Taken(graph, log, i), b \in Taken(graph, log, j) : a < b
  <2>1. T # {}
    <3>1. PICK id \in DOMAIN graph : id[1] = "wfstep"
      BY <1>9 DEF StepsOf
    <3> QED
      BY <1>6, <3>1 DEF Shows
  <2>2. T = all
    BY <1>2, <2>1
  <2>3. \A j \in acting : \E t \in T : t[1] = j /\ Taken(graph, log, j) = {Place(t, T)}
    <3>1. Follow(T, graph, log, n)
      BY <1>1, <2>2
    <3>2. ASSUME NEW t \in T PROVE Taken(graph, log, t[1]) = {Place(t, T)}
      <4>1. 1 .. n \subseteq DOMAIN log
        BY <1>3
      <4>2. OwnIds(log) /\ Shows(graph, T)
        BY <1>6
      <4> HIDE DEF acting
      <4> DEFINE lg == log
                 gr == graph
      <4>3. /\ 1 .. n \subseteq DOMAIN lg /\ OwnIds(lg) /\ Shows(gr, T) /\ Follow(T, gr, lg, n)
        BY <3>1, <4>1, <4>2
      <4> HIDE DEF lg, gr
      <4>4. Taken(gr, lg, t[1]) = {Place(t, T)}
        BY <4>3, TakenIs
      <4> QED
        BY <4>4 DEF lg, gr
    <3> QED
      BY <1>7, <2>2, <3>2
  <2> HIDE DEF acting
  <2>4. PICK s \in T : s[1] = i /\ Taken(graph, log, i) = {Place(s, T)}
    BY <1>9, <2>3
  <2>5. Cardinality(Taken(graph, log, i)) = 1
    BY <2>4, FS_Singleton
  <2>6. ASSUME NEW j \in acting, i < j, NEW a \in Taken(graph, log, i), NEW b \in Taken(graph, log, j) PROVE a < b
    <3>1. PICK t \in T : t[1] = j /\ Taken(graph, log, j) = {Place(t, T)}
      BY <2>3, <2>6
    <3>2. Place(s, T) < Place(t, T)
      BY <1>5, <2>4, <2>6, <3>1
    <3> QED
      BY <2>4, <2>6, <3>1, <3>2
  <2> QED
    BY <2>5, <2>6
<1> QED
  BY <1>8, <1>9 DEF Ordered

AllOrdered == Ordered(crate.graph, journal, crate.through)

\* That is what the property says.
LEMMA OrderedIs == ASSUME AllOrdered PROVE TimelineFollowsJournal
<1> DEFINE graph == crate.graph
           n == crate.through
           steps == {id \in Graphed : id[1] = "wfstep"}
           place(i) == {k \in {id[2] : id \in steps} :
                           Performed(i) \cap Targets(<<"wfcontrol", k>>, "object") # {}}
           performed == {i \in Seen : Performed(i) # {}}
<1>1. Graphed = DOMAIN graph /\ Seen = 1 .. n
  BY DEF Graphed, Seen
<1>2. \A id, property : Targets(id, property) = Aims(graph, id, property)
  BY DEF Targets, Links, Graphed, Aims
<1>3. \A i : Performed(i) = Acted(graph, journal, i)
  BY DEF Performed, Acted, FirstOfTask, EditId, Graphed
<1>4. OfType("HowTo") = {id \in DOMAIN graph : "HowTo" \in graph[id].types}
  BY DEF OfType, Graphed
<1>5. Ordered(graph, journal, n)
  BY DEF AllOrdered
<1> HIDE DEF graph, n
<1>6. steps = StepsOf(graph)
  BY <1>1 DEF StepsOf
<1>7. \A i : place(i) = Taken(graph, journal, i)
  BY <1>2, <1>3, <1>6 DEF Taken
<1>8. performed = Acting(graph, journal, n)
  BY <1>1, <1>3 DEF Acting
<1> HIDE DEF steps, place, performed
<1>9. Targets(Root, "mainEntity") = {FileId(AgentPath)} /\ OfType("HowTo") = {}
         => Cardinality(steps) = Cardinality(performed)
  BY <1>2, <1>4, <1>5, <1>6, <1>8 DEF Ordered
<1>10. steps # {} => \A i \in performed : /\ Cardinality(place(i)) = 1
                        /\ \A j \in performed : i < j => \A a \in place(i), b \in place(j) : a < b
  BY <1>5, <1>6, <1>7, <1>8 DEF Ordered
<1> QED
  BY <1>9, <1>10 DEF TimelineFollowsJournal, steps, place, performed

\* The crate that is written is in the order of the journal.
LEMMA OrderedWritten ==
    ASSUME TypeInv, BuiltInv, IdInv, Write PROVE AllOrdered'
<1> DEFINE m == builder.built.model
           profile == builder.built.profile
           plans == PlanFileInclusion(m)
           ids == Allocate(builder.ids, Keys(m))
           graph == Graph(m, profile, plans, ids)
           n == builder.through
<1>1. builder.open /\ journal' = journal
      /\ crate' = [through |-> n, profile |-> profile, graph |-> graph]
  BY DEF Write
<1>2. crate'.through = n /\ crate'.graph = graph
  BY <1>1
<1>3. m \in Models /\ journal \in Seq(Events) /\ n \in 0 .. Len(journal) /\ Orderly(journal)
  BY <1>1, BuiltReads DEF TypeInv, Builders, IdInv, Numbers
<1>4. Tracked(m.commands, journal, n) /\ Told(m, journal, n)
  <2>1. PICK request, files : builder.built = BuildModel(journal, n, request, files)
    BY <1>1 DEF BuiltInv
  <2> QED
    BY <1>3, <2>1, CommandsRead, ActionsRead
<1>5. Apart(m, ids)
  BY <1>1, BuiltApart
<1>6. OwnIds(journal)
  <2>1. \A k \in 1 .. minted : Uuid(k)[1] = "uuid"
    BY UuidFacts DEF TypeInv
  <2>2. \A i \in DOMAIN journal : Starts(journal[i]) => \E k \in 1 .. minted : journal[i].action = Uuid(k)
    BY DEF IdInv, Numbers
  <2>3. \A i, j \in DOMAIN journal :
           Starts(journal[i]) /\ Starts(journal[j]) /\ journal[i].action = journal[j].action => i = j
    BY DEF IdInv, Numbers
  <2> QED
    BY <2>1, <2>2, <2>3 DEF OwnIds
<1> HIDE DEF m, profile, ids, n
<1>7. Ordered(graph, journal, n)
  BY <1>3, <1>4, <1>5, <1>6, OrderedBuilt
<1> QED
  BY <1>1, <1>2, <1>7 DEF AllOrdered

\* What is recorded after the mark changes nothing in it.
LEMMA OrderedStays ==
    ASSUME TypeInv, AllOrdered, Continuing PROVE AllOrdered'
<1> DEFINE n == crate.through
<1>1. n \in 0 .. Len(journal) /\ journal \in Seq(Events) /\ crate' = crate
  BY DEF TypeInv, Continuing
<1> HIDE DEF n
<1>2. \A i \in 1 .. n : journal'[i] = journal[i]
  <2>1. CASE journal' = journal
    BY <1>1, <2>1
  <2>2. ASSUME NEW e \in Events, journal' = Append(journal, e)
        PROVE  \A i \in 1 .. n : journal'[i] = journal[i]
    BY <1>1, <2>2, Grown
  <2> QED
    BY <2>1, <2>2 DEF Continuing
<1> DEFINE log == journal
           later == journal'
<1>3. ASSUME NEW graph, Ordered(graph, log, n) PROVE Ordered(graph, later, n)
  <2>1. \A i \in 1 .. n : later[i] = log[i]
    BY <1>2
  <2> HIDE DEF log, later
  <2>2. ASSUME NEW i \in 1 .. n PROVE Acted(graph, later, i) = Acted(graph, log, i)
    <3>1. later[i] = log[i] /\ \A j \in 1 .. i - 1 : later[j] = log[j]
      <4>1. \A j \in 1 .. i - 1 : j \in 1 .. n
        BY <1>1
      <4> QED
        BY <2>1, <4>1
    <3>2. FirstOfTask(later, i) <=> FirstOfTask(log, i)
      BY <3>1 DEF FirstOfTask
    <3> QED
      BY <3>1, <3>2 DEF Acted
  <2>3. Acting(graph, later, n) = Acting(graph, log, n)
    BY <2>2 DEF Acting
  <2>4. \A i \in Acting(graph, log, n) : Taken(graph, later, i) = Taken(graph, log, i)
    BY <2>2 DEF Acting, Taken
  <2> QED
    BY <1>3, <2>3, <2>4 DEF Ordered
<1>4. Ordered(crate.graph, log, n)
  BY DEF AllOrdered, n
<1> QED
  BY <1>1, <1>3, <1>4 DEF AllOrdered, n

\* The crate is in the order of the journal, with what keeps its ids apart.
TimelineInv == TypeInv /\ BuiltInv /\ IdInv /\ AllOrdered

LEMMA TimelineInit == ASSUME Init PROVE TimelineInv
<1>1. crate.graph = <<>> /\ crate.through = 0 /\ ~builder.open
  BY DEF Init, NoCrate, Idle
<1>2. AllOrdered
  <2>1. DOMAIN crate.graph = {} /\ 1 .. crate.through = {}
    BY <1>1
  <2>2. StepsOf(crate.graph) = {} /\ Acting(crate.graph, journal, crate.through) = {}
    BY <2>1 DEF StepsOf, Acting
  <2> QED
    BY <2>2 DEF AllOrdered, Ordered
<1> QED
  BY <1>1, <1>2, TypeInit, IdInit DEF TimelineInv, BuiltInv

\* Every step keeps it.
LEMMA TimelineNext == ASSUME TimelineInv, [Next]_vars PROVE TimelineInv'
<1>1. TypeInv /\ BuiltInv /\ IdInv /\ AllOrdered
  BY DEF TimelineInv
<1>2. TypeInv' /\ BuiltInv' /\ IdInv'
  BY <1>1, TypeNext, BuiltNext, IdNext
<1>3. CASE Continuing
  BY <1>1, <1>2, <1>3, OrderedStays DEF TimelineInv
<1>4. ASSUME NEW request \in Requests, Open(request) PROVE TimelineInv'
  <2>1. journal' = journal /\ crate' = crate
    BY <1>4 DEF Open
  <2> QED
    BY <1>1, <1>2, <2>1 DEF TimelineInv, AllOrdered
<1>5. CASE Write
  BY <1>1, <1>2, <1>5, OrderedWritten DEF TimelineInv
<1> QED
  BY <1>1, <1>3, <1>4, <1>5, Phased

\* A crate whose workflow is synthesized and has no declared steps has one step for each
\* command, edit whose action it has, shell command and task of the events it was built
\* from, in the order of the journal, for any journal: actions of four families are sorted
\* together by their event's place, and no two have the same place or the same id.
THEOREM TimelinesFollowJournals == Spec => []TimelineFollowsJournal
<1>1. Init => TimelineInv
  BY TimelineInit
<1>2. TimelineInv /\ [Next]_vars => TimelineInv'
  BY TimelineNext
<1>3. TimelineInv => TimelineFollowsJournal
  BY OrderedIs DEF TimelineInv
<1> QED
  BY <1>1, <1>2, <1>3, PTL DEF Spec
=============================================================================
