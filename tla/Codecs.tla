------------------------------- MODULE Codecs -------------------------------
(***************************************************************************)
(* How trees of conditions, pipelines, commands and notification rules are *)
(* written in the configuration and read back.  A written value is a       *)
(* tagged array, here a record of its tag and the rest of the array; what  *)
(* is nested in a tree is kept apart from its other arguments.             *)
(*                                                                         *)
(* A codec of trees works on one node and asks itself about the ones       *)
(* below: it is given here as that node's part of it, and the function of  *)
(* the trees of each height that this makes.                               *)
(***************************************************************************)
EXTENDS Naturals, Sequences

CONSTANTS
  Refused,      \* the answer of a codec that refuses
  Absent,       \* an argument or a field that is not there
  Height        \* bound: the height of a tree

Array(tag, args) == [tag |-> tag, args |-> args, nodes |-> <<>>]
Nested(tag, nodes) == [tag |-> tag, args |-> <<>>, nodes |-> nodes]
Arg(wire, i) == IF i \in DOMAIN wire.args THEN wire.args[i] ELSE Absent
Text == {"", "x", "y", "landscape", "portrait"}
IsString(arg) == arg \in Text
IsDuration(arg) == arg \in {"0ms", "10s"}

(* Trees. *)
Leaf(leaf) == [type |-> "leaf", leaf |-> leaf]
Node(type, nodes) == [type |-> type, nodes |-> nodes]
Not(node) == [type |-> "not", node |-> node]
Truthy(name) == [type |-> "truthy", name |-> name]
RunsWorkflow(name) == [type |-> "workflow", workflowName |-> name]

FindProbeSchema ==
  [screenOn |-> <<>>, keyguardShowing |-> <<>>, activityResumed |-> <<{}>>,
   orientation |-> <<{"landscape", "portrait"}>>]

ValidateFactLeaf(w) ==
  CASE w.tag = "truthy" /\ IsString(Arg(w, 1)) -> [type |-> "truthy", name |-> Arg(w, 1)]
    [] w.tag \in {"equals", "includes"} /\ IsString(Arg(w, 1)) /\ IsString(Arg(w, 2)) ->
         [type |-> w.tag, name |-> Arg(w, 1), value |-> Arg(w, 2)]
    [] OTHER -> Refused

EncodeFactLeaf(leaf) ==
  Array(leaf.type, IF leaf.type = "truthy" THEN <<leaf.name>> ELSE <<leaf.name, leaf.value>>)

\* As many arguments as the probe takes, each one of its options if it has any.
ValidateProbe(w) ==
  LET name == Arg(w, 1) args == Tail(w.args) IN
  IF /\ name \in DOMAIN FindProbeSchema
     /\ Len(args) = Len(FindProbeSchema[name])
     /\ \A i \in DOMAIN args : LET options == FindProbeSchema[name][i] IN
          IsString(args[i]) /\ (options # {} => args[i] \in options)
  THEN [type |-> "probe", name |-> name, args |-> args]
  ELSE Refused

\* The leaves of a pipeline are workflows and conditions; those of a condition
\* of a workflow are facts and probes, those of a predicate facts alone.
Language == {"fact", "condition", "pipeline"}
Condition(tree) == [type |-> "condition", condition |-> tree]

ValidateLeaf(validate, language, w) ==
  CASE language = "pipeline" /\ w.tag = "workflow" /\ IsString(Arg(w, 1)) -> RunsWorkflow(Arg(w, 1))
    [] language = "pipeline" /\ w.tag = "condition" /\ w.nodes # <<>> ->
         LET condition == validate[<<"condition", w.nodes[1]>>] IN
         IF condition = Refused THEN Refused ELSE Condition(condition)
    [] language = "condition" /\ w.tag = "probe" -> ValidateProbe(w)
    [] language # "pipeline" /\ w.tag # "probe" -> ValidateFactLeaf(w)
    [] OTHER -> Refused

EncodeLeaf(encode, leaf) ==
  CASE leaf.type = "workflow" -> Array("workflow", <<leaf.workflowName>>)
    [] leaf.type = "condition" -> Nested("condition", <<encode[leaf.condition]>>)
    [] leaf.type = "probe" -> Array("probe", <<leaf.name>> \o leaf.args)
    [] OTHER -> EncodeFactLeaf(leaf)

\* A connective needs an operand; "not" reads its first one and no other.
ValidateNode(validate, language, w) ==
  LET nodes == [i \in DOMAIN w.nodes |-> validate[<<language, w.nodes[i]>>]] IN
  CASE w.tag \in {"and", "or"} ->
         IF nodes = <<>> \/ \E i \in DOMAIN nodes : nodes[i] = Refused
         THEN Refused ELSE Node(w.tag, nodes)
    [] w.tag = "not" ->
         IF nodes = <<>> THEN Refused
         ELSE IF nodes[1] = Refused THEN Refused ELSE Not(nodes[1])
    [] OTHER ->
         LET leaf == ValidateLeaf(validate, language, w) IN
         IF leaf = Refused THEN Refused ELSE Leaf(leaf)

EncodeNode(encode, tree) ==
  CASE tree.type = "leaf" -> EncodeLeaf(encode, tree.leaf)
    [] tree.type = "not" -> Nested("not", <<encode[tree.node]>>)
    [] OTHER -> Nested(tree.type, [i \in DOMAIN tree.nodes |-> encode[tree.nodes[i]]])

\* The trees of each height, what they are written as, and both ways.
FlatLeaf ==
  [type : {"truthy"}, name : Text] \union [type : {"equals", "includes"}, name : Text, value : Text]
  \union [type : {"probe"}, name : DOMAIN FindProbeSchema, args : Seq(Text)]
  \union [type : {"workflow"}, workflowName : Text]

LeafOver(below) == FlatLeaf \union [type : {"condition"}, condition : below]
TreesOver(below) ==
  [type : {"leaf"}, leaf : LeafOver(below)]
  \union [type : {"not"}, node : below] \union [type : {"and", "or"}, nodes : Seq(below)]
Tag == {"truthy", "equals", "includes", "probe", "workflow", "condition", "and", "or", "not"}
Word == Text \union DOMAIN FindProbeSchema
WiresOver(below) == [tag : Tag, args : Seq(Word), nodes : Seq(below)]

Trees[h \in 0..Height] == TreesOver(IF h = 0 THEN {} ELSE Trees[h - 1])
Wires[h \in 0..Height] == WiresOver(IF h = 0 THEN {} ELSE Wires[h - 1])

Encoders[h \in 0..Height] ==
  [tree \in Trees[h] |-> EncodeNode(IF h = 0 THEN <<>> ELSE Encoders[h - 1], tree)]
Validators[h \in 0..Height] ==
  [question \in Language \X Wires[h] |->
     ValidateNode(IF h = 0 THEN <<>> ELSE Validators[h - 1], question[1], question[2])]

EncodeTree(tree) == Encoders[Height][tree]
ValidateTree(language, w) == Validators[Height][<<language, w>>]

-----------------------------------------------------------------------------
(* Commands.  The fields of a command are listed in the order they are       *)
(* written in.                                                               *)

CommandSchema ==
  [restartApp |-> <<"string">>, ensureActivity |-> <<"string", "string">>,
   launchApp |-> <<"string">>, forceStopApp |-> <<"string">>, dismissKeyguard |-> <<>>,
   openUrl |-> <<"string">>, openDeveloperSettings |-> <<>>, reboot |-> <<>>, wakeUp |-> <<>>,
   inputTap |-> <<"coords">>, waitForDevice |-> <<>>, run |-> <<"string">>,
   sleep |-> <<"duration">>, await |-> <<"condition", "duration">>,
   when |-> <<"condition", "string", "string">>]

\* Defect: the `else` of a `when` is never written.
Defect_EncodeCommand(command) ==
  Array(command.type, [i \in DOMAIN command.fields \ (IF command.type = "when" THEN {3} ELSE {}) |->
    IF CommandSchema[command.type][i] = "condition" THEN EncodeTree(command.fields[i])
    ELSE command.fields[i]])

\* An `else` that is absent, or names nothing, is left out.
EncodeCommand(command) ==
  LET written == Array(command.type, [i \in DOMAIN command.fields |->
        IF CommandSchema[command.type][i] = "condition" THEN EncodeTree(command.fields[i])
        ELSE command.fields[i]])
  IN IF command.type = "when" /\ command.fields[3] \in {"", Absent}
     THEN Array("when", SubSeq(written.args, 1, 2)) ELSE written

ValidateField(kind, arg) ==
  CASE kind = "string" -> IF IsString(arg) THEN arg ELSE Refused
    [] kind = "duration" -> IF IsDuration(arg) THEN arg ELSE Refused
    [] kind = "coords" -> IF arg = "coords" THEN arg ELSE Refused
    [] kind = "condition" -> IF arg = Absent THEN Refused ELSE ValidateTree("condition", arg)

ValidateCommand(w) ==
  LET kinds == CommandSchema[w.tag]
      optional(i) == w.tag = "when" /\ i = 3
      field(i) == IF optional(i) /\ Arg(w, i) \in {Absent, ""} THEN Absent
                  ELSE ValidateField(kinds[i], Arg(w, i))
  IN IF w.tag \notin DOMAIN CommandSchema \/ \E i \in DOMAIN kinds : field(i) = Refused THEN Refused
     ELSE [type |-> w.tag, fields |-> [i \in DOMAIN kinds |-> field(i)]]

(* Notification rules. *)
NotifyTargetSchema == {"slack"}
NotifyLifecycle == {"immediate", "exhausted"}
ValidateNotifyRule(w) ==
  IF w.type.tag \in NotifyTargetSchema /\ IsString(w.channel) /\ IsString(w.message)
     /\ \A i \in DOMAIN w.policy : w.policy[i] \in NotifyLifecycle
  THEN [type |-> w.type.tag, channel |-> w.channel, policy |-> w.policy,
        message |-> [type |-> "template", message |-> w.message]]
  ELSE Refused
EncodeNotifyRule(rule) ==
  [type |-> Array(rule.type, <<>>), channel |-> rule.channel, policy |-> rule.policy,
   message |-> rule.message.message]
=============================================================================
