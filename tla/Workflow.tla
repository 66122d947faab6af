------------------------------ MODULE Workflow ------------------------------
(***************************************************************************)
(* One pipeline of a recovery, or one workflow an operator runs by hand,   *)
(* on one entity, while the registry is edited, the bridge connects and    *)
(* disconnects, and facts change.                                          *)
(*                                                                         *)
(* A pipeline is a tree of workflows and conditions.  The interpreter is   *)
(* a stack of what is still to be done, and the value that was returned    *)
(* last.  A workflow is a sequence of commands; one of them may run        *)
(* another workflow, wait for a condition or branch on one.  A command for *)
(* the device asks the bridge whether the camera accepts commands, then    *)
(* reads where the camera is, then runs, and if it timed out reads which   *)
(* camera to tell the bridge of: the registry is read from its file each   *)
(* time, any of these reads may fail, and other turns run in between.      *)
(***************************************************************************)
EXTENDS Naturals, Sequences

CONSTANTS
  None,
  Camera, Host,   \* the cameras, and the hosts they may be linked to
  Registries,     \* the registry to begin with
  Workflows,      \* the workflows of the configuration: their commands by name
  Pipelines,      \* the pipelines of the policies
  Manual,         \* the workflow an operator runs
  MaxDepth,       \* MAX_WORKFLOW_DEPTH
  MaxHeight,      \* bound: the height of a pipeline
  Patience,       \* bound: the polls an await has time for
  MaxChanges      \* bound: what changes while it runs

VARIABLES
  domain,     \* "adb", "suitest-camera", or "manual": an ADB entity, chosen by an operator
  entity,     \* what the domain tracks: a host, or None for the capture device of a camera
  lookup,     \* whether there are facts of the entity to look up
  pipeline,   \* what is run
  todo,       \* the stack of what is left to do
  value,      \* the value returned last, None when there is none
  call,       \* the call of the command, or of the probe, on top
  registry,   \* the camera the capture device belongs to, and the host of each camera
  accepting,  \* what the bridge says of each camera
  fact,       \* a fact of the entity
  leaves,     \* history: the value of each leaf of the pipeline that was evaluated
  told,       \* history: what the bridge was told of last, and what it did since
  changes     \* how much of the bound is left

environment == <<registry, accepting, fact>>
workflowVars == <<domain, entity, lookup, pipeline, todo, value, call, environment, leaves, told, changes>>

-----------------------------------------------------------------------------
(* The registry as the capabilities read it: the camera an entity is, and  *)
(* where it can be reached.                                                *)
CameraAt(h) == LET at == {c \in Camera : registry.host[c] = h} IN
  IF at = {} THEN None ELSE CHOOSE c \in at : TRUE

ResolveAndroidBridgeId == IF domain = "suitest-camera" THEN registry.camera ELSE CameraAt(entity)

TargetIn(lab) ==
  IF domain # "suitest-camera" THEN entity
  ELSE IF lab.camera = None THEN None ELSE lab.host[lab.camera]

ResolveTarget == TargetIn(registry)

-----------------------------------------------------------------------------
(* Commands, and what they need.                                           *)
Gated == {"app", "wakeUp"}
Device == Gated \union {"reboot", "waitForDevice"}

(* A call: how far it is, the camera the bridge was asked of, the host the *)
(* command went to and whether that was edited since, the polls an await   *)
(* has left, and what a probe answered.                                    *)
NoCall == [at |-> "none", camera |-> None, to |-> None, moved |-> FALSE,
           polls |-> Patience, answer |-> None]

Frame(do, what) == [do |-> do, what |-> what, depth |-> 0]
Commands(name, depth) == [do |-> "commands", what |-> Workflows[name], depth |-> depth]

WorkflowInit ==
  /\ domain \in {"adb", "suitest-camera", "manual"}
  /\ pipeline \in IF domain = "manual" THEN {Manual} ELSE Pipelines
  /\ registry \in Registries
  /\ entity = IF domain = "adb" THEN registry.host[registry.camera] ELSE None
  /\ lookup = (domain # "manual")
  /\ todo = <<Frame(IF domain = "manual" THEN "start" ELSE "pipeline", pipeline)>>
  /\ value = None /\ call = NoCall
  /\ accepting = [c \in Camera |-> TRUE] /\ fact = FALSE
  /\ leaves = <<>> /\ told = None
  /\ changes = MaxChanges

Top == todo[1]
On(frame) == todo # <<>> /\ Top.do = frame /\ value = None
Does(frame) == On(frame) /\ call.at = "none"
Returned(frame) == todo # <<>> /\ Top.do = frame /\ value # None

Truth(b) == IF b THEN "true" ELSE "false"

(* The stack and the value after a step, and the step that ends the frame. *)
Push(frames) == todo' = frames \o Tail(todo) /\ value' = None
Return(v) == todo' = Tail(todo) /\ value' = v
Leaf(v) == leaves' = Append(leaves, [leaf |-> Top.what.id, value |-> v])

Elsewhere == UNCHANGED <<domain, entity, lookup, pipeline, environment, changes>>
Pure == Elsewhere /\ UNCHANGED <<call, told>>

-----------------------------------------------------------------------------
(* Conditions.  A fact needs a lookup, a probe a device that answers.      *)
Next1 == Top.what[1]

Condition ==
  IF On("pipeline") /\ Top.what.type = "condition" THEN Top.what.cond
  ELSE IF On("commands") /\ Top.what # <<>> /\ Next1.type \in {"when", "await"} THEN Next1.cond
  ELSE None

CondValues(cond) ==
  CASE cond = "fact" /\ call.at \in {"none", "await"} -> {IF lookup THEN Truth(fact) ELSE "left"}
    [] cond = "probe" /\ call.at = "answered"         -> {call.answer}
    [] OTHER                                          -> {}

(* A probe asks no gate: it reads where the device is, and runs there.     *)
ProbeAnswers(v) == call' = [call EXCEPT !.at = "answered", !.answer = v]

ProbeStarts ==
  /\ Condition = "probe" /\ call.at \in {"none", "await"}
  /\ \/ ProbeAnswers("left")
     \/ ResolveTarget # None /\ call' = [call EXCEPT !.at = "probing", !.to = ResolveTarget]
  /\ Elsewhere /\ UNCHANGED <<todo, value, leaves, told>>

(* The device answers, refuses, or does not answer in time.                *)
ProbeEnds ==
  /\ call.at = "probing"
  /\ \/ \E v \in {"true", "false", "left"} : ProbeAnswers(v)
     \/ call' = [call EXCEPT !.at = "suspect"]
  /\ Elsewhere /\ UNCHANGED <<todo, value, leaves, told>>

(* In a pipeline a condition that cannot be evaluated is false.            *)
InterpretCondition ==
  /\ On("pipeline") /\ Top.what.type = "condition"
  /\ \E v \in CondValues(Top.what.cond) : Return(Truth(v = "true")) /\ Leaf(v = "true")
  /\ call' = NoCall
  /\ Elsewhere /\ UNCHANGED told

(* The pipeline of a workflow is its commands.  One that is not configured *)
(* is an error, not a workflow that failed.                                *)
InterpretLeaf ==
  /\ Does("pipeline") /\ Top.what.type = "workflow"
  /\ IF Top.what.name \in DOMAIN Workflows
       THEN /\ Push(<<Commands(Top.what.name, 0), [Top EXCEPT !.do = "leaf"]>>)
       ELSE /\ Return("left")
  /\ UNCHANGED leaves /\ Pure

LeafEnds ==
  /\ Returned("leaf")
  /\ Return(Truth(value = "true")) /\ Leaf(value = "true")
  /\ Pure

(* `and` and `or` go through their parts in order and stop as soon as the  *)
(* result is known; an empty one is the neutral element.                   *)
Neutral(node) == Truth(node.type = "and")

(* Defect: the rest of a node is evaluated whatever came before, and the   *)
(* last one decides.                                                       *)
Defect_LastDecides(node, rest) ==
  IF rest = <<>> THEN Return(IF value = None THEN Neutral(node) ELSE value)
  ELSE Push(<<Frame("pipeline", rest[1]), Frame("node", [node EXCEPT !.parts = Tail(rest)])>>)

GoesOn(node, rest) ==
  IF value \notin {None, Neutral(node)} \/ rest = <<>>
    THEN Return(IF value = None THEN Neutral(node) ELSE value)
    ELSE Push(<<Frame("pipeline", rest[1]), Frame("node", [node EXCEPT !.parts = Tail(rest)])>>)

InterpretNode ==
  /\ \/ Does("pipeline") /\ Top.what.type \in {"and", "or"}
     \/ Returned("node")
  /\ GoesOn(Top.what, Top.what.parts)
  /\ UNCHANGED leaves /\ Pure

InterpretNot ==
  /\ \/ /\ Does("pipeline") /\ Top.what.type = "not"
        /\ Push(<<Frame("pipeline", Top.what.part), Frame("not", None)>>)
     \/ /\ Returned("not")
        /\ Return(IF value = "left" THEN "left" ELSE Truth(value = "false"))
  /\ UNCHANGED leaves /\ Pure

-----------------------------------------------------------------------------
(* Workflows: the next command.                                            *)
AtCommand(type) == Does("commands") /\ Top.what # <<>> /\ Next1.type = type

CommandsEnd ==
  /\ \/ Does("commands") /\ Top.what = <<>> /\ Return("true")
     \/ /\ Returned("commands")
        /\ IF value = "left" THEN Return("left")
           ELSE Push(<<[Top EXCEPT !.what = Tail(@)]>>)
  /\ UNCHANGED leaves /\ Pure

(* A command has come to its end: the frame sees its value.                *)
Gives(v) == todo' = todo /\ value' = v
NoValue == UNCHANGED <<todo, value>>

(* Another workflow by name, one level down, up to a depth no configuration*)
(* needs: a cycle ends there.                                              *)
RunNested(name) ==
  IF Top.depth + 1 > MaxDepth \/ name \notin DOMAIN Workflows THEN Gives("left")
  ELSE todo' = <<Commands(name, Top.depth + 1)>> \o todo /\ value' = None

InterpretRun == AtCommand("run") /\ RunNested(Next1.name) /\ UNCHANGED leaves /\ Pure

InterpretWhen ==
  /\ On("commands") /\ Top.what # <<>> /\ Next1.type = "when"
  /\ \E v \in CondValues(Next1.cond) :
       LET branch == IF v = "true" THEN Next1.then ELSE Next1.else IN
         IF v = "left" THEN Gives("left") ELSE IF branch = None THEN Gives("true") ELSE RunNested(branch)
  /\ call' = NoCall
  /\ Elsewhere /\ UNCHANGED <<leaves, told>>

Sleep == AtCommand("sleep") /\ Gives("true") /\ UNCHANGED leaves /\ Pure

(* The condition is polled until the deadline, at least once.              *)
Await ==
  /\ On("commands") /\ Top.what # <<>> /\ Next1.type = "await"
  /\ \E v \in CondValues(Next1.cond) :
       IF v # "false" \/ call.polls = 0
         THEN Gives(IF v = "true" THEN "true" ELSE "left") /\ call' = NoCall
         ELSE NoValue /\ call' = [NoCall EXCEPT !.at = "await", !.polls = call.polls - 1]
  /\ Elsewhere /\ UNCHANGED <<leaves, told>>

-----------------------------------------------------------------------------
(* Commands for the device.  Each reads the registry for itself, and what  *)
(* it cannot read fails it.                                                *)

IsDevice == Does("commands") /\ Top.what # <<>> /\ Next1.type \in Device

(* requireAccepting: a device of no camera is not refused.  A reboot asks  *)
(* nobody, and a wait only whether there is a camera.                      *)
RequireAccepting ==
  /\ IsDevice
  /\ LET id == ResolveAndroidBridgeId IN
       \/ Next1.type # "reboot" /\ Gives("left") /\ UNCHANGED call
       \/ /\ Next1.type \in Gated /\ id # None => accepting[id]
          /\ Next1.type = "waitForDevice" => id # None
          /\ NoValue
          /\ call' = [NoCall EXCEPT !.camera = IF Next1.type = "reboot" THEN None ELSE id,
                                    !.at = IF Next1.type = "waitForDevice" THEN "waiting" ELSE "gated"]
  /\ Elsewhere /\ UNCHANGED <<leaves, told>>

(* waitForDevice: until the bridge has connected the camera, or too long.  *)
WaitForDevice ==
  /\ call.at = "waiting"
  /\ \/ accepting[call.camera] /\ Gives("true")
     \/ ~ accepting[call.camera] /\ Gives("left")
  /\ call' = NoCall
  /\ Elsewhere /\ UNCHANGED <<leaves, told>>

ResolveEndpoint ==
  /\ call.at = "gated"
  /\ \/ Gives("left") /\ call' = NoCall
     \/ /\ ResolveTarget # None
        /\ NoValue /\ call' = [call EXCEPT !.at = "running", !.to = ResolveTarget]
  /\ Elsewhere /\ UNCHANGED <<leaves, told>>

(* The device answers, refuses or does not answer in time.  A reboot that  *)
(* was taken, and any command that timed out, are told to the bridge.      *)
CommandEnds ==
  /\ call.at = "running"
  /\ \/ /\ Next1.type # "reboot" /\ Gives("true") /\ call' = NoCall
     \/ Gives("left") /\ call' = NoCall
     \/ NoValue /\ call' = [call EXCEPT !.at = "suspect"]
     \/ Next1.type = "reboot" /\ NoValue /\ call' = [call EXCEPT !.at = "rebooted"]
  /\ Elsewhere /\ UNCHANGED <<leaves, told>>

(* The call is over: a probe has no answer, and a command fails unless it  *)
(* was the reboot that was asked for.                                      *)
CallEnds(event) ==
  IF Condition = "probe" THEN NoValue /\ ProbeAnswers("left")
  ELSE Gives(IF event = "rebooted" THEN "true" ELSE "left") /\ call' = NoCall

Hears(c) ==
  [event |-> call.at, camera |-> c, moved |-> call.moved, connected |-> FALSE,
   there |-> {d \in Camera : registry.host[d] = call.to}]

(* Defect: the bridge hears of the camera it was asked of before.          *)
Defect_TellsTheFirstAsked ==
  /\ call.at \in {"suspect", "rebooted"}
  /\ told' = Hears(call.camera)
  /\ IF call.camera = None THEN CallEnds(call.at) ELSE NoValue /\ call' = [call EXCEPT !.at = "telling"]
  /\ Elsewhere /\ UNCHANGED leaves

(* Which camera the bridge is to hear of the registry is asked again.  When*)
(* it cannot be read, or knows no camera, the bridge hears nothing.        *)
NotifyBridge ==
  /\ call.at \in {"suspect", "rebooted"}
  /\ \/ CallEnds(call.at) /\ UNCHANGED told
     \/ LET c == ResolveAndroidBridgeId IN
          /\ told' = Hears(c)
          /\ IF c = None THEN CallEnds(call.at) ELSE NoValue /\ call' = [call EXCEPT !.at = "telling"]
  /\ Elsewhere /\ UNCHANGED leaves

(* Defect: the call goes on before the bridge has come to it.              *)
Defect_DoesNotWait ==
  /\ call.at = "telling" /\ CallEnds(told.event)
  /\ UNCHANGED <<told, leaves>> /\ Elsewhere

(* The call waits until the bridge is done with it: whatever its machine   *)
(* was in, it is not connected now.                                        *)
BridgeHears ==
  /\ call.at = "telling"
  /\ accepting' = [accepting EXCEPT ![told.camera] = FALSE]
  /\ told' = [told EXCEPT !.connected = FALSE]
  /\ CallEnds(told.event)
  /\ UNCHANGED <<domain, entity, lookup, pipeline, registry, fact, changes, leaves>>

-----------------------------------------------------------------------------
(* By hand: the camera has to have a host, and that host to be connected.  *)
(* The facts are those of its capture device, if it has one.               *)
ManualRun ==
  /\ Does("start")
  /\ \/ \E c \in Camera :
          /\ registry.host[c] # None
          /\ entity' = registry.host[c] /\ lookup' = (registry.camera = c)
          /\ IF Manual \in DOMAIN Workflows THEN Push(<<Commands(Manual, 0)>>) ELSE Return("left")
     \/ Return("left") /\ UNCHANGED <<entity, lookup>>
  /\ UNCHANGED <<domain, pipeline, environment, changes, leaves, call, told>>

(* Meanwhile.                                                              *)
Happens ==
  /\ changes > 0 /\ changes' = changes - 1
  /\ UNCHANGED <<domain, entity, lookup, pipeline, todo, value, leaves>>

RegistryEdited ==
  /\ \/ \E c \in Camera \union {None} : registry' = [registry EXCEPT !.camera = c]
     \/ \E c \in Camera, h \in Host \union {None} : registry' = [registry EXCEPT !.host[c] = h]
  /\ registry' # registry
  /\ call' = [call EXCEPT !.moved = call.to # None /\ (@ \/ TargetIn(registry') # ResolveTarget)]
  /\ UNCHANGED <<accepting, fact, told>> /\ Happens

BridgeMoves ==
  /\ \E c \in Camera :
       /\ accepting' = [accepting EXCEPT ![c] = ~ @]
       /\ told' = IF told # None /\ told.camera = c /\ ~ accepting[c]
                  THEN [told EXCEPT !.connected = TRUE] ELSE told
  /\ UNCHANGED <<call, registry, fact>> /\ Happens

FactChanges == fact' = ~ fact /\ UNCHANGED <<call, registry, accepting, told>> /\ Happens

WorkflowNext ==
  \/ ProbeStarts \/ ProbeEnds \/ InterpretCondition \/ InterpretLeaf \/ LeafEnds \/ InterpretNode \/ InterpretNot
  \/ CommandsEnd \/ InterpretRun \/ InterpretWhen \/ Sleep \/ Await
  \/ RequireAccepting \/ WaitForDevice \/ ResolveEndpoint \/ CommandEnds \/ NotifyBridge \/ BridgeHears
  \/ ManualRun
  \/ RegistryEdited \/ BridgeMoves \/ FactChanges

WorkflowSpec == WorkflowInit /\ [][WorkflowNext]_workflowVars

-----------------------------------------------------------------------------
(* Every variable keeps its shape, and no workflow is nested too deep.     *)
WorkflowTypeOK ==
  /\ value \in {None, "true", "false", "left"}
  /\ call.at \in {"none", "await", "waiting", "gated", "running", "probing", "answered",
                  "suspect", "rebooted", "telling"}
  /\ call.polls \in 0 .. Patience
  /\ \A i \in DOMAIN todo : todo[i].depth <= MaxDepth

(* The nodes of a pipeline, level by level down to its deepest.            *)
Parts(node) ==
  IF node.type \in {"and", "or"} THEN {node.parts[i] : i \in DOMAIN node.parts}
  ELSE IF node.type = "not" THEN {node.part} ELSE {}

Nodes(root) ==
  LET down[n \in 0 .. MaxHeight] ==
        IF n = 0 THEN {root} ELSE down[n - 1] \union UNION {Parts(node) : node \in down[n - 1]}
  IN  down[MaxHeight]

(* What the formula says of values of its nodes.                           *)
FormulaHolds(of) ==
  \A node \in DOMAIN of :
    /\ node.type = "and" => of[node] = (\A part \in Parts(node) : of[part])
    /\ node.type = "or"  => of[node] = (\E part \in Parts(node) : of[part])
    /\ node.type = "not" => of[node] = ~ of[node.part]

IsLeaf(node) == node.type \in {"workflow", "condition"}
LeafIds(root) == {node.id : node \in {n \in Nodes(root) : IsLeaf(n)}}

(* The result of a pipeline is that of its formula: of the leaves that were*)
(* evaluated it has the values, and those that were skipped would not have *)
(* changed it, whatever they had given.  No leaf is evaluated twice.       *)
PipelineMeansItsFormula ==
  todo = <<>> /\ value # "left" /\ domain # "manual" =>
    /\ \A i, j \in DOMAIN leaves : leaves[i].leaf = leaves[j].leaf => i = j
    /\ \A of \in [Nodes(pipeline) -> BOOLEAN] :
         /\ FormulaHolds(of)
         /\ \A i \in DOMAIN leaves : \A node \in DOMAIN of :
              IsLeaf(node) /\ node.id = leaves[i].leaf => of[node] = leaves[i].value
         => Truth(of[pipeline]) = value

(* When a command or a probe timed out, or a reboot was taken, the bridge  *)
(* hears of a camera at the host it went to, or of none when the registry  *)
(* has none there, whatever else was edited while it ran; unless the host  *)
(* of its own device was edited, or the registry could not be read.        *)
BridgeHearsOfTheCulprit ==
  told # None /\ ~ told.moved =>
    IF told.camera = None THEN told.there = {} ELSE told.camera \in told.there

(* Once the bridge has heard of a camera, it says that the camera accepts  *)
(* commands only when it has connected it since: a wait for the device     *)
(* after a reboot does not end on the connection from before.              *)
WaitSeesTheReboot ==
  told # None /\ told.camera # None /\ call.at # "telling" =>
    (accepting[told.camera] => told.connected)

-----------------------------------------------------------------------------
(* What the theorems ask of the constants: the pipelines are formulas no   *)
(* higher than the bound, in which every leaf has a name of its own, and a *)
(* workflow is a sequence of commands.                                     *)
Commanded == UNION {{Workflows[w][i] : i \in DOMAIN Workflows[w]} : w \in DOMAIN Workflows}

IsFormula(root) ==
  LET nodes == Nodes(root) IN
  /\ root \in nodes
  /\ \A node \in nodes :
       \/ IsLeaf(node) /\ LeafIds(node) = {node.id}
       \/ /\ node \in [type : {"not"}, part : nodes]
          /\ LeafIds(node.part) \subseteq LeafIds(node)
       \/ /\ node \in [type : {"and", "or"}, parts : Seq(nodes)]
          /\ \A i \in DOMAIN node.parts :
               /\ LeafIds(node.parts[i]) \subseteq LeafIds(node)
               /\ \A j \in DOMAIN node.parts :
                    i # j => LeafIds(node.parts[i]) \intersect LeafIds(node.parts[j]) = {}

WorkflowAssumption ==
  /\ MaxDepth \in Nat /\ Patience \in Nat
  /\ None \notin {"true", "false", "left", "probe"} \union Camera \union Host
  /\ Registries \subseteq [camera : Camera \union {None}, host : [Camera -> Host \union {None}]]
  /\ \A w \in DOMAIN Workflows : Workflows[w] \in Seq(Commanded)
  /\ \A root \in Pipelines : IsFormula(root)

=============================================================================
