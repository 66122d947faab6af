------------------------------- MODULE Forms -------------------------------
(***************************************************************************)
(* The forms of the Settings page, and the one value an operator edits in  *)
(* one of them: a tree of conditions or a pipeline, a command, the rules   *)
(* of a notification, a retry policy, a schedule, or the wizard that       *)
(* builds a tripwire in six steps.  Each action is one control of a form;  *)
(* every form hands its whole next value to its owner.                     *)
(***************************************************************************)
EXTENDS Codecs, Integers

CONSTANTS
  NoRetry,      \* see Policies
  Left,         \* see Policies
  Horizon, MaxTimer, MinutesADay,
  MaxItems,     \* bound: operands of a connective, retry steps in the wizard
  Nesting,      \* bound: nesting of a tree, per kind of tree
  MaxSteps      \* bound: steps of a schedule, and one more of a policy

Retry == INSTANCE Policies WITH None <- NoRetry
Hours == INSTANCE Schedules

VARIABLES
  form,         \* which form is open
  draft         \* the value it shows

formVars == <<form, draft>>

(* What the codecs answer when they refuse is no value, an absent argument *)
(* is no text and no tree, and the trees are looked at as deep as they are *)
(* edited, those of the wizard too.  The form's first hours are of the day. *)
FormsAssumption ==
  /\ Refused \notin Text \union {Absent, "0ms", "10s", "coords"} /\ Absent \notin Text
  /\ Height \in Nat /\ Height >= 2 /\ Absent \notin Wires[Height]
  /\ \A h \in 0..Height : Refused \notin Trees[h] \union LeafOver(Trees[h])
  /\ Nesting \in [Language -> Nat] /\ \A l \in Language : Nesting[l] < Height
  /\ Retry!PolicyAssumption /\ Hours!ScheduleAssumption /\ MinutesADay > 2

-----------------------------------------------------------------------------
(* Lists. *)

RemoveAt(list, index) ==
  [i \in 1..(Len(list) - 1) |-> IF i < index THEN list[i] ELSE list[i + 1]]

\* Out of range, the list stays as it is.
MoveAt(list, index, delta) ==
  IF {index, index + delta} \subseteq DOMAIN list
  THEN [list EXCEPT ![index] = list[index + delta], ![index + delta] = list[index]]
  ELSE list

\* What the buttons beside an entry, and the one below the list, lead to.
Reordered(list) == {MoveAt(list, i, d) : i \in DOMAIN list, d \in {-1, 1}}
Removed(list) == {RemoveAt(list, i) : i \in DOMAIN list}
Replaced(list, items) == {[list EXCEPT ![i] = item] : i \in DOMAIN list, item \in items}
Added(list, item, max) == IF Len(list) < max THEN {Append(list, item)} ELSE {}

-----------------------------------------------------------------------------
(* Trees. *)

DefaultLeaf(language) ==
  IF language = "pipeline" THEN RunsWorkflow("") ELSE Truthy("")
DefaultArgs(name) ==
  [i \in DOMAIN FindProbeSchema[name] |->
     IF FindProbeSchema[name][i] = {} THEN "" ELSE CHOOSE o \in FindProbeSchema[name][i] : TRUE]

FactLeaves == {Truthy("x"), [type |-> "equals", name |-> "", value |-> ""],
               [type |-> "includes", name |-> "x", value |-> "y"]}
ProbeLeaves == {[type |-> "probe", name |-> n, args |-> DefaultArgs(n)] : n \in DOMAIN FindProbeSchema}
               \union {[type |-> "probe", name |-> "orientation", args |-> <<"portrait">>]}
LeafEdits(language) ==
  CASE language = "fact" -> FactLeaves
    [] language = "condition" -> FactLeaves \union ProbeLeaves
    [] language = "pipeline" ->
         {RunsWorkflow("x")} \union {Condition(Leaf(l)) : l \in {Truthy(""), Truthy("x")}}

Items(tree) ==
  CASE tree.type = "leaf" -> <<tree>>
    [] tree.type = "not" -> <<tree.node>>
    [] OTHER -> tree.nodes

\* Changing a node's kind keeps what fits: all its children under another
\* connective, the first one under "not", and a first leaf as the leaf.
Retag(language, tree, kind) ==
  LET items == Items(tree) IN
  CASE kind = tree.type -> tree
    [] kind # tree.type /\ kind \in {"and", "or"} -> Node(kind, items)
    [] kind # tree.type /\ kind = "not" ->
         Not(IF items = <<>> THEN Leaf(DefaultLeaf(language)) ELSE items[1])
    [] kind # tree.type /\ kind = "leaf" ->
         IF items # <<>> /\ items[1].type = "leaf" THEN items[1] ELSE Leaf(DefaultLeaf(language))

Defect_JunctionEdits(language, nodes) ==
  Added(nodes, Leaf(DefaultLeaf(language)), MaxItems) \union Reordered(nodes) \union Removed(nodes)

\* The last operand of a connective cannot be removed.
JunctionEdits(language, nodes) ==
  Added(nodes, Leaf(DefaultLeaf(language)), MaxItems) \union Reordered(nodes)
  \union (IF Len(nodes) = 1 THEN {} ELSE Removed(nodes))

NodeEdits(edits, language, tree, depth) ==
  (IF depth = 0 THEN {} ELSE {Retag(language, tree, k) : k \in {"leaf", "and", "or", "not"}}) \union
  CASE tree.type = "leaf" -> {Leaf(l) : l \in LeafEdits(language)}
    [] tree.type = "not" -> {Not(t) : t \in edits[tree.node]}
    [] OTHER -> {Node(tree.type, n) : n \in JunctionEdits(language, tree.nodes) \union
                   UNION {{[tree.nodes EXCEPT ![i] = t] : t \in edits[tree.nodes[i]]} :
                          i \in DOMAIN tree.nodes}}

\* The edits of the trees of each depth, that of a condition's in a leaf left out.
TreeEdits(language, tree, depth) ==
  LET edits[d \in 0..depth] ==
        [t \in Trees[d + 1] |-> NodeEdits(IF d = 0 THEN <<>> ELSE edits[d - 1], language, t, d)]
  IN edits[depth][tree]

(* Commands and rules. *)
DefaultField(kind) ==
  CASE kind = "string" -> "" [] kind = "duration" -> "0ms" [] kind = "coords" -> "coords"
    [] kind = "condition" -> Leaf(Truthy(""))
CommandFor(type) ==
  [type |-> type,
   fields |-> [i \in DOMAIN CommandSchema[type] |-> DefaultField(CommandSchema[type][i])]]
\* A duration can be edited into one that its codec refuses, a negative one.
FieldEdits(kind) ==
  CASE kind = "string" -> {"", "x"} [] kind = "duration" -> {"10s", "-1s"} [] kind = "coords" -> {}
    [] kind = "condition" -> {Leaf(l) : l \in ProbeLeaves \union {Truthy("x")}}
CommandEdits(command) ==
  {CommandFor(t) : t \in DOMAIN CommandSchema} \union
  UNION {{[command EXCEPT !.fields[i] = v] : v \in FieldEdits(CommandSchema[command.type][i])} :
         i \in DOMAIN command.fields}

Toggled(list, item) ==
  LET kept[i \in 0..Len(list)] ==
        IF i = 0 THEN <<>>
        ELSE IF list[i] = item THEN kept[i - 1] ELSE Append(kept[i - 1], list[i])
  IN IF \E i \in DOMAIN list : list[i] = item THEN kept[Len(list)] ELSE Append(list, item)
DefaultNotifyRule ==
  [type |-> "slack", channel |-> "", message |-> [type |-> "template", message |-> ""],
   policy |-> <<"immediate">>]
RuleEdits(rule) ==
  {[rule EXCEPT !.policy = Toggled(@, l)] : l \in NotifyLifecycle} \union
  {[rule EXCEPT !.channel = "x"], [rule EXCEPT !.message.message = "y"]}

-----------------------------------------------------------------------------
(* The wizard. *)

Steps == <<"Fact", "Grace", "Pipeline", "Retry", "Notify", "Review">>
InitialState ==
  [step |-> 1, factName |-> "", selectedWorkflows |-> <<>>, pipelineOp |-> "or",
   retry |-> <<>>, notify |-> <<>>, saved |-> Absent]

BuildPipeline(selected, op) ==
  CASE selected = <<>> -> Leaf(RunsWorkflow(""))
    [] Len(selected) = 1 -> Leaf(RunsWorkflow(selected[1]))
    [] OTHER -> Node(op, [i \in DOMAIN selected |-> Leaf(RunsWorkflow(selected[i]))])

BuildTripwire(w) ==
  [predicate |-> Leaf(Truthy(w.factName)), retry |-> w.retry, notify |-> w.notify,
   pipeline |-> BuildPipeline(w.selectedWorkflows, w.pipelineOp)]

Defect_CanNext(w) ==
  CASE Steps[w.step] = "Fact" -> w.factName # ""
    [] Steps[w.step] = "Pipeline" -> w.selectedWorkflows # <<>>
    [] OTHER -> TRUE

CanNext(w) ==
  CASE Steps[w.step] = "Fact" -> w.factName # ""
    [] Steps[w.step] = "Pipeline" -> w.selectedWorkflows # <<>>
    [] Steps[w.step] = "Retry" -> w.retry # <<>>
    [] OTHER -> TRUE

PolicyEdits(json, max) ==
  Added(json, Retry!StepFor("constantDelay"), max) \union Removed(json) \union Reordered(json)
  \union Replaced(json, Retry!FormSteps({1, 5}))

\* What the step on show lets an operator change.
WizardEdits(w) ==
  CASE Steps[w.step] = "Fact" -> {[w EXCEPT !.factName = n] : n \in {"", "x"}}
    [] Steps[w.step] = "Pipeline" ->
         {[w EXCEPT !.selectedWorkflows = Toggled(@, n)] : n \in {"x", "y"}} \union
         {[w EXCEPT !.pipelineOp = o] : o \in {o \in {"or", "and"} : Len(w.selectedWorkflows) >= 2}}
    [] Steps[w.step] = "Retry" -> {[w EXCEPT !.retry = r] : r \in PolicyEdits(w.retry, MaxItems)}
    [] Steps[w.step] = "Notify" ->
         {[w EXCEPT !.notify = n] : n \in Added(w.notify, DefaultNotifyRule, 1) \union Removed(w.notify)}
    [] OTHER -> {}

Wizard ==
  /\ form = "wizard" /\ draft.saved = Absent
  /\ \/ draft' \in WizardEdits(draft)
     \/ /\ draft.step < Len(Steps) /\ CanNext(draft)
        /\ draft' = [draft EXCEPT !.step = @ + 1]
     \/ draft' = [draft EXCEPT !.step = IF @ = 1 THEN 1 ELSE @ - 1]
     \/ draft' = InitialState
     \/ /\ Steps[draft.step] = "Review"
        /\ draft' = [InitialState EXCEPT !.saved = BuildTripwire(draft)]
  /\ UNCHANGED form

-----------------------------------------------------------------------------
FormsInit ==
  \/ form \in Language /\ draft = Leaf(DefaultLeaf(form))
  \/ form = "command" /\ draft = CommandFor("restartApp")
  \/ form = "rule" /\ draft = DefaultNotifyRule
  \/ form \in {"policy", "schedule"} /\ draft = <<>>
  \/ form = "activation" /\ draft = [days |-> {0}, from |-> 1, to |-> 2]
  \/ form = "wizard" /\ draft = InitialState

EditTree == form \in Language /\ draft' \in TreeEdits(form, draft, Nesting[form]) /\ UNCHANGED form
EditCommand == form = "command" /\ draft' \in CommandEdits(draft) /\ UNCHANGED form
EditRule == form = "rule" /\ draft' \in RuleEdits(draft) /\ UNCHANGED form
EditPolicy == form = "policy" /\ draft' \in PolicyEdits(draft, MaxSteps + 1) /\ UNCHANGED form

\* Picking another operation keeps the verb, another verb the operation.
EditSchedule ==
  /\ form = "schedule"
  /\ draft' \in
       Added(draft, <<"union", Hours!VerbFor("always")>>, MaxSteps)
       \union Removed(draft) \union Reordered(draft)
       \union (UNION {{[draft EXCEPT ![i] = <<o, draft[i][2]>>] : o \in Hours!Op} : i \in DOMAIN draft \ {1}})
       \union (UNION {{[draft EXCEPT ![i] = <<draft[i][1], v>>] :
                         v \in UNION {Hours!VerbsOf(n) : n \in DOMAIN Hours!ScheduleStepSchema}} :
                       i \in DOMAIN draft})
  /\ UNCHANGED form

\* The days are toggles, the hours two free fields.
EditActivation ==
  /\ form = "activation"
  /\ \/ \E d \in Hours!DayNumber : draft' = [draft EXCEPT !.days = IF d \in @ THEN @ \ {d} ELSE @ \union {d}]
     \/ \E t \in 0..(MinutesADay - 1) : draft' \in {[draft EXCEPT !.from = t], [draft EXCEPT !.to = t]}
  /\ UNCHANGED form

FormsNext == EditActivation \/ EditTree \/ EditCommand \/ EditRule \/ EditPolicy \/ EditSchedule \/ Wizard

FormsSpec == FormsInit /\ [][FormsNext]_formVars

-----------------------------------------------------------------------------
(* Properties. *)

Normal(command) ==
  IF command.type = "when" /\ command.fields[3] = "" THEN [command EXCEPT !.fields[3] = Absent]
  ELSE command
HasBadDuration(command) ==
  \E i \in DOMAIN command.fields :
    CommandSchema[command.type][i] = "duration" /\ ~IsDuration(command.fields[i])

\* What a form shows, whatever the edits that led there, is written in a form
\* its codec reads back as the same value: no sequence of additions, removals
\* and changes of kind makes a tree, a command or a rule the service refuses,
\* except for a negative duration, and nothing is lost but an empty `else`.
FormsBuildWhatDecodes ==
  /\ form \in Language => ValidateTree(form, EncodeTree(draft)) = draft
  /\ form = "command" =>
       ValidateCommand(EncodeCommand(draft)) =
         IF HasBadDuration(draft) THEN Refused ELSE Normal(draft)
  /\ form = "rule" => ValidateNotifyRule(EncodeNotifyRule(draft)) = draft

\* A tripwire the wizard saves watches a fact, runs a workflow and retries, for
\* however long its steps were walked back and forth; its pipeline decodes.
WizardSavesWholeTripwires ==
  form = "wizard" /\ draft.saved # Absent =>
    LET tripwire == draft.saved IN
    /\ tripwire.predicate # Leaf(Truthy(""))
    /\ tripwire.retry # <<>>
    /\ Leaf(RunsWorkflow("")) \notin {Items(tripwire.pipeline)[i] : i \in DOMAIN Items(tripwire.pipeline)}
    /\ ValidateTree("pipeline", EncodeTree(tripwire.pipeline)) = tripwire.pipeline

\* The outcomes a loop's attempts may have: some the same, then another for good.
Outcomes == {[i \in Retry!Iteration |-> IF i < k THEN f ELSE l] :
               k \in 0..2, f \in {"no", "left"}, l \in {"no", "left", "yes"}}
PoliciesMeanTheirSteps ==
  form = "policy" =>
    /\ Retry!PolicyMeansItsSteps(draft)
    /\ Retry!CappedPoliciesSlowDown(draft)
    /\ \A outcomes \in Outcomes : Retry!LoopsRespectThePolicy(draft, outcomes)
SchedulesMeanTheirSteps ==
  /\ form = "schedule" => Hours!StepsMeanTheLastThatDecides(draft)
  /\ form = "activation" => Hours!ActivityIsItsHours(draft)

\* What a form lets an operator build is what its codec accepts and reads
\* back, and what it reads back behaves as its steps say.
FormsSayWhatTheyMean ==
  /\ FormsBuildWhatDecodes /\ WizardSavesWholeTripwires
  /\ PoliciesMeanTheirSteps /\ SchedulesMeanTheirSteps
=============================================================================
