---------------------------- MODULE FormsProofs ----------------------------
(***************************************************************************)
(* Proofs about Forms: that what a form shows, however long it is edited,  *)
(* is what its codec reads back and behaves as its steps say.              *)
(*                                                                         *)
(* The codecs, the edits of a tree and the decoders of steps are recursive *)
(* functions.  That each is what its definition says, and what it computes *)
(* for every tree and every list, is shown by AllAlong: of the numbers of  *)
(* 0..n where something fails there would be a smallest one.               *)
(***************************************************************************)
EXTENDS Forms, SequenceTheorems, NaturalsInduction, WellFoundedInduction, TLAPS

-----------------------------------------------------------------------------
(* Recursive functions, and lists.                                         *)

(* What holds at first, and after each step if it did before, holds all    *)
(* along.                                                                  *)
LEMMA AllAlong ==
  ASSUME NEW n \in Nat, NEW S, 0 \in S, \A i \in 1..n : i - 1 \in S => i \in S
  PROVE  0..n \subseteq S
<1> DEFINE out == {i \in Nat : i <= n /\ i \notin S}
<1>1. SUFFICES ASSUME out # {} PROVE FALSE
  OBVIOUS
<1>2. PICK m \in out : \A y \in out : ~ (<<y, m>> \in OpToRel(<, Nat))
  <2>1. out \subseteq Nat
    OBVIOUS
  <2> HIDE DEF out
  <2> QED
    BY <1>1, <2>1, NatLessThanWellFounded, WFMin
<1>3. \A y \in out : ~ (y < m)
  BY <1>2, Zenon DEF OpToRel
<1>4. m # 0 /\ m \in 1..n /\ m - 1 \in Nat /\ m - 1 < m /\ m - 1 \notin out
  BY <1>3
<1> QED
  BY <1>4

(* What is there up to each height is there for all of them.               *)
LEMMA TreesAre ==
  ASSUME FormsAssumption
  PROVE  Trees = [h \in 0..Height |-> TreesOver(IF h = 0 THEN {} ELSE Trees[h - 1])]
<1> DEFINE Over(g, h) == TreesOver(IF h = 0 THEN {} ELSE g[h - 1])
           Is(g, m) == g = [h \in 0..m |-> Over(g, h)]
           made == {m \in 0..Height : \E g : Is(g, m)}
<1>1. Height \in Nat
  BY DEF FormsAssumption
<1>2. 0 \in made
  <2> DEFINE g == [h \in 0..0 |-> TreesOver({})]
  <2>1. Is(g, 0)
    OBVIOUS
  <2> HIDE DEF Is, g
  <2> QED
    BY <1>1, <2>1
<1>3. ASSUME NEW m \in 1..Height, m - 1 \in made PROVE m \in made
  <2>1. PICK g : Is(g, m - 1)
    BY <1>3
  <2> DEFINE f == [h \in 0..m |-> IF h = m THEN Over(g, m) ELSE g[h]]
  <2>2. ASSUME NEW h \in 0..m PROVE f[h] = Over(f, h)
    <3>1. h # 0 => f[h - 1] = g[h - 1]
      BY <1>1
    <3>2. f[h] = Over(g, h)
      BY <1>1, <2>1
    <3> QED
      BY <3>1, <3>2
  <2>3. Is(f, m)
    BY <2>2
  <2> HIDE DEF Is
  <2> QED
    BY <2>3
<1>4. 0..Height \subseteq made
  <2> HIDE DEF made
  <2> QED
    BY <1>1, <1>2, <1>3, AllAlong
<1>5. \E g : Is(g, Height)
  <2> HIDE DEF Is
  <2> QED
    BY <1>1, <1>4
<1>6. Trees = CHOOSE g : Is(g, Height)
  BY DEF Trees
<1>7. Is(Trees, Height)
  <2> HIDE DEF Is
  <2> QED
    BY <1>5, <1>6
<1> QED
  BY <1>7

LEMMA WiresAre ==
  ASSUME FormsAssumption
  PROVE  Wires = [h \in 0..Height |-> WiresOver(IF h = 0 THEN {} ELSE Wires[h - 1])]
<1> DEFINE Over(g, h) == WiresOver(IF h = 0 THEN {} ELSE g[h - 1])
           Is(g, m) == g = [h \in 0..m |-> Over(g, h)]
           made == {m \in 0..Height : \E g : Is(g, m)}
<1>1. Height \in Nat
  BY DEF FormsAssumption
<1>2. 0 \in made
  <2> DEFINE g == [h \in 0..0 |-> WiresOver({})]
  <2>1. Is(g, 0)
    OBVIOUS
  <2> HIDE DEF Is, g
  <2> QED
    BY <1>1, <2>1
<1>3. ASSUME NEW m \in 1..Height, m - 1 \in made PROVE m \in made
  <2>1. PICK g : Is(g, m - 1)
    BY <1>3
  <2> DEFINE f == [h \in 0..m |-> IF h = m THEN Over(g, m) ELSE g[h]]
  <2>2. ASSUME NEW h \in 0..m PROVE f[h] = Over(f, h)
    <3>1. h # 0 => f[h - 1] = g[h - 1]
      BY <1>1
    <3>2. f[h] = Over(g, h)
      BY <1>1, <2>1
    <3> QED
      BY <3>1, <3>2
  <2>3. Is(f, m)
    BY <2>2
  <2> HIDE DEF Is
  <2> QED
    BY <2>3
<1>4. 0..Height \subseteq made
  <2> HIDE DEF made
  <2> QED
    BY <1>1, <1>2, <1>3, AllAlong
<1>5. \E g : Is(g, Height)
  <2> HIDE DEF Is
  <2> QED
    BY <1>1, <1>4
<1>6. Wires = CHOOSE g : Is(g, Height)
  BY DEF Wires
<1>7. Is(Wires, Height)
  <2> HIDE DEF Is
  <2> QED
    BY <1>5, <1>6
<1> QED
  BY <1>7

LEMMA EncodersAre ==
  ASSUME FormsAssumption
  PROVE  Encoders = [h \in 0..Height |->
           [tree \in Trees[h] |-> EncodeNode(IF h = 0 THEN <<>> ELSE Encoders[h - 1], tree)]]
<1> DEFINE Over(g, h) == [tree \in Trees[h] |-> EncodeNode(IF h = 0 THEN <<>> ELSE g[h - 1], tree)]
           Is(g, m) == g = [h \in 0..m |-> Over(g, h)]
           made == {m \in 0..Height : \E g : Is(g, m)}
<1>1. Height \in Nat
  BY DEF FormsAssumption
<1>2. 0 \in made
  <2> DEFINE g == [h \in 0..0 |-> [tree \in Trees[0] |-> EncodeNode(<<>>, tree)]]
  <2>1. Is(g, 0)
    OBVIOUS
  <2> HIDE DEF Is, g
  <2> QED
    BY <1>1, <2>1
<1>3. ASSUME NEW m \in 1..Height, m - 1 \in made PROVE m \in made
  <2>1. PICK g : Is(g, m - 1)
    BY <1>3
  <2> DEFINE f == [h \in 0..m |-> IF h = m THEN Over(g, m) ELSE g[h]]
  <2>2. ASSUME NEW h \in 0..m PROVE f[h] = Over(f, h)
    <3>1. h # 0 => f[h - 1] = g[h - 1]
      BY <1>1
    <3>2. f[h] = Over(g, h)
      <4> HIDE DEF Over
      <4> QED
        BY <1>1, <2>1
    <3> QED
      BY <3>1, <3>2
  <2>3. Is(f, m)
    BY <2>2
  <2> HIDE DEF Is
  <2> QED
    BY <2>3
<1>4. 0..Height \subseteq made
  <2> HIDE DEF made
  <2> QED
    BY <1>1, <1>2, <1>3, AllAlong
<1>5. \E g : Is(g, Height)
  <2> HIDE DEF Is
  <2> QED
    BY <1>1, <1>4
<1>6. Encoders = CHOOSE g : Is(g, Height)
  BY DEF Encoders
<1>7. Is(Encoders, Height)
  <2> HIDE DEF Is
  <2> QED
    BY <1>5, <1>6
<1> QED
  BY <1>7

LEMMA ValidatorsAre ==
  ASSUME FormsAssumption
  PROVE  Validators = [h \in 0..Height |->
           [question \in Language \X Wires[h] |->
              ValidateNode(IF h = 0 THEN <<>> ELSE Validators[h - 1], question[1], question[2])]]
<1> DEFINE Over(g, h) == [question \in Language \X Wires[h] |->
                            ValidateNode(IF h = 0 THEN <<>> ELSE g[h - 1], question[1], question[2])]
           Is(g, m) == g = [h \in 0..m |-> Over(g, h)]
           made == {m \in 0..Height : \E g : Is(g, m)}
<1>1. Height \in Nat
  BY DEF FormsAssumption
<1>2. 0 \in made
  <2> DEFINE g == [h \in 0..0 |-> [question \in Language \X Wires[0] |->
                     ValidateNode(<<>>, question[1], question[2])]]
  <2>1. Is(g, 0)
    OBVIOUS
  <2> HIDE DEF Is, g
  <2> QED
    BY <1>1, <2>1
<1>3. ASSUME NEW m \in 1..Height, m - 1 \in made PROVE m \in made
  <2>1. PICK g : Is(g, m - 1)
    BY <1>3
  <2> DEFINE f == [h \in 0..m |-> IF h = m THEN Over(g, m) ELSE g[h]]
  <2>2. ASSUME NEW h \in 0..m PROVE f[h] = Over(f, h)
    <3>1. h # 0 => f[h - 1] = g[h - 1]
      BY <1>1
    <3>2. f[h] = Over(g, h)
      <4> HIDE DEF Over
      <4> QED
        BY <1>1, <2>1
    <3> QED
      BY <3>1, <3>2
  <2>3. Is(f, m)
    BY <2>2
  <2> HIDE DEF Is
  <2> QED
    BY <2>3
<1>4. 0..Height \subseteq made
  <2> HIDE DEF made
  <2> QED
    BY <1>1, <1>2, <1>3, AllAlong
<1>5. \E g : Is(g, Height)
  <2> HIDE DEF Is
  <2> QED
    BY <1>1, <1>4
<1>6. Validators = CHOOSE g : Is(g, Height)
  BY DEF Validators
<1>7. Is(Validators, Height)
  <2> HIDE DEF Is
  <2> QED
    BY <1>5, <1>6
<1> QED
  BY <1>7

(* What a form's list becomes under its buttons.                           *)
LEMMA ListIs ==
  ASSUME NEW T, NEW list \in Seq(T)
  PROVE  /\ Len(list) \in Nat /\ DOMAIN list = 1..Len(list)
         /\ \A i \in DOMAIN list : list[i] \in T
         /\ list = <<>> <=> Len(list) = 0
OBVIOUS

LEMMA ListMade ==
  ASSUME NEW T, NEW n \in Nat, NEW list \in [1..n -> T]
  PROVE  list \in Seq(T) /\ Len(list) = n
OBVIOUS

LEMMA ListReordered ==
  ASSUME NEW T, NEW list \in Seq(T), NEW new \in Reordered(list)
  PROVE  new \in Seq(T) /\ Len(new) = Len(list)
<1>1. PICK i \in DOMAIN list, d \in {-1, 1} : new = MoveAt(list, i, d)
  BY DEF Reordered
<1>2. new \in [1..Len(list) -> T]
  <2>1. CASE new = list
    BY <2>1, ListIs
  <2>2. CASE /\ {i, i + d} \subseteq DOMAIN list
             /\ new = [list EXCEPT ![i] = list[i + d], ![i + d] = list[i]]
    BY <2>2, ListIs
  <2> QED
    BY <1>1, <2>1, <2>2 DEF MoveAt
<1> QED
  BY <1>2, ListIs, ListMade

LEMMA ListRemoved ==
  ASSUME NEW T, NEW list \in Seq(T), NEW new \in Removed(list)
  PROVE  new \in Seq(T) /\ Len(new) = Len(list) - 1
<1>1. PICK i \in DOMAIN list : new = RemoveAt(list, i)
  BY DEF Removed
<1>2. Len(list) \in Nat /\ Len(list) # 0 /\ i \in 1..Len(list)
  BY <1>1, ListIs
<1>3. new \in [1..(Len(list) - 1) -> T]
  BY <1>1, <1>2, ListIs DEF RemoveAt
<1> QED
  BY <1>2, <1>3, ListMade

LEMMA ListReplaced ==
  ASSUME NEW T, NEW list \in Seq(T), NEW i \in DOMAIN list, NEW item \in T
  PROVE  [list EXCEPT ![i] = item] \in Seq(T) /\ Len([list EXCEPT ![i] = item]) = Len(list)
OBVIOUS

LEMMA ListAdded ==
  ASSUME NEW T, NEW list \in Seq(T), NEW item \in T, NEW max, NEW new \in Added(list, item, max)
  PROVE  new \in Seq(T) /\ Len(new) = Len(list) + 1
<1>1. new = Append(list, item)
  BY DEF Added
<1> QED
  BY <1>1, AppendProperties

-----------------------------------------------------------------------------
(* Trees: leaves.                                                          *)

(* The leaves of each language that have no tree below.                    *)
FactLeaf ==
  [type : {"truthy"}, name : Text] \union [type : {"equals", "includes"}, name : Text, value : Text]
ProbeLeaf ==
  {leaf \in [type : {"probe"}, name : DOMAIN FindProbeSchema, args : Seq(Text)] :
     /\ Len(leaf.args) = Len(FindProbeSchema[leaf.name])
     /\ \A i \in DOMAIN leaf.args : LET options == FindProbeSchema[leaf.name][i] IN
          options # {} => leaf.args[i] \in options}
WorkflowLeaf == [type : {"workflow"}, workflowName : Text]
FlatOf(l) ==
  CASE l = "fact" -> FactLeaf [] l = "condition" -> FactLeaf \union ProbeLeaf
    [] l = "pipeline" -> WorkflowLeaf

LEMMA Probes ==
  /\ DOMAIN FindProbeSchema = {"screenOn", "keyguardShowing", "activityResumed", "orientation"}
  /\ FindProbeSchema["screenOn"] = <<>> /\ FindProbeSchema["keyguardShowing"] = <<>>
  /\ FindProbeSchema["activityResumed"] = <<{}>>
  /\ FindProbeSchema["orientation"] = <<{"landscape", "portrait"}>>
BY DEF FindProbeSchema

LEMMA ListIsItself ==
  ASSUME NEW T, NEW list \in Seq(T)
  PROVE  list = [i \in 1..Len(list) |-> list[i]]
OBVIOUS

(* A head put before a list is what its head and its tail give back.       *)
LEMMA HeadAndTail ==
  ASSUME NEW T, NEW x \in T, NEW s \in Seq(T)
  PROVE  /\ <<x>> \o s \in Seq(T) /\ 1 \in DOMAIN (<<x>> \o s) /\ (<<x>> \o s)[1] = x
         /\ Tail(<<x>> \o s) = s
<1> DEFINE c == <<x>> \o s
<1>1. c \in Seq(T) /\ Len(c) = Len(s) + 1 /\ c[1] = x
  OBVIOUS
<1>2. \A i \in 1..Len(s) : c[i + 1] = s[i]
  OBVIOUS
<1> HIDE DEF c
<1>3. Tail(c) \in Seq(T) /\ Len(Tail(c)) = Len(s) /\ \A i \in 1..Len(s) : Tail(c)[i] = c[i + 1]
  BY <1>1, HeadTailProperties
<1>4. s = [i \in 1..Len(s) |-> s[i]] /\ Tail(c) = [i \in 1..Len(s) |-> Tail(c)[i]]
  <2> DEFINE t == Tail(c)
  <2>1. t \in Seq(T) /\ Len(t) = Len(s)
    BY <1>3
  <2> HIDE DEF t
  <2>2. t = [i \in 1..Len(t) |-> t[i]] /\ s = [i \in 1..Len(s) |-> s[i]]
    BY <2>1, ListIsItself
  <2> QED
    BY <2>1, <2>2 DEF t
<1>5. Tail(c) = s
  BY <1>2, <1>3, <1>4
<1> QED
  BY <1>1, <1>5 DEF c

(* What one leaf is written as, and that it is read back.                  *)
LEMMA FactReads ==
  ASSUME FormsAssumption, NEW leaf \in FactLeaf
  PROVE  /\ EncodeFactLeaf(leaf).tag = leaf.type
         /\ EncodeFactLeaf(leaf) \in [tag : Tag, args : Seq(Word), nodes : {<<>>}]
         /\ ValidateFactLeaf(EncodeFactLeaf(leaf)) = leaf
<1>1. CASE leaf \in [type : {"truthy"}, name : Text]
  <2>1. leaf = [type |-> "truthy", name |-> leaf.name] /\ leaf.name \in Text
    BY <1>1
  <2>2. EncodeFactLeaf(leaf) = [tag |-> "truthy", args |-> <<leaf.name>>, nodes |-> <<>>]
    BY <2>1 DEF EncodeFactLeaf, Array
  <2>3. Arg(EncodeFactLeaf(leaf), 1) = leaf.name
    BY <2>2 DEF Arg
  <2>4. <<leaf.name>> \in Seq(Word)
    BY <2>1 DEF Word
  <2>5. ValidateFactLeaf(EncodeFactLeaf(leaf)) = [type |-> "truthy", name |-> leaf.name]
    BY <2>1, <2>2, <2>3 DEF ValidateFactLeaf, IsString
  <2> QED
    BY <2>1, <2>2, <2>4, <2>5 DEF Tag
<1>2. CASE leaf \in [type : {"equals", "includes"}, name : Text, value : Text]
  <2>1. /\ leaf = [type |-> leaf.type, name |-> leaf.name, value |-> leaf.value]
        /\ leaf.name \in Text /\ leaf.value \in Text /\ leaf.type \in {"equals", "includes"}
    BY <1>2
  <2>2. EncodeFactLeaf(leaf) = [tag |-> leaf.type, args |-> <<leaf.name, leaf.value>>, nodes |-> <<>>]
    BY <2>1 DEF EncodeFactLeaf, Array
  <2>3. Arg(EncodeFactLeaf(leaf), 1) = leaf.name /\ Arg(EncodeFactLeaf(leaf), 2) = leaf.value
    BY <2>2 DEF Arg
  <2>4. <<leaf.name, leaf.value>> \in Seq(Word)
    BY <2>1 DEF Word
  <2>5. ValidateFactLeaf(EncodeFactLeaf(leaf)) =
          [type |-> leaf.type, name |-> leaf.name, value |-> leaf.value]
    BY <2>1, <2>2, <2>3 DEF ValidateFactLeaf, IsString
  <2> QED
    BY <2>1, <2>2, <2>4, <2>5 DEF Tag
<1> QED
  BY <1>1, <1>2 DEF FactLeaf

LEMMA ProbeReads ==
  ASSUME FormsAssumption, NEW leaf \in ProbeLeaf
  PROVE  LET w == Array("probe", <<leaf.name>> \o leaf.args) IN
         /\ w \in [tag : {"probe"}, args : Seq(Word), nodes : {<<>>}]
         /\ ValidateProbe(w) = leaf
<1> DEFINE args == <<leaf.name>> \o leaf.args
           w == Array("probe", args)
<1>1. /\ leaf = [type |-> "probe", name |-> leaf.name, args |-> leaf.args]
      /\ leaf.name \in DOMAIN FindProbeSchema /\ leaf.args \in Seq(Text)
      /\ Len(leaf.args) = Len(FindProbeSchema[leaf.name])
      /\ \A i \in DOMAIN leaf.args : FindProbeSchema[leaf.name][i] # {} =>
           leaf.args[i] \in FindProbeSchema[leaf.name][i]
  BY DEF ProbeLeaf
<1>2. leaf.name \in Word /\ leaf.args \in Seq(Word)
  BY <1>1 DEF Word
<1>3. args \in Seq(Word) /\ 1 \in DOMAIN args /\ args[1] = leaf.name /\ Tail(args) = leaf.args
  <2> HIDE DEF args
  <2> QED
    BY <1>2, HeadAndTail DEF args
<1> HIDE DEF args
<1>4. w = [tag |-> "probe", args |-> args, nodes |-> <<>>]
  BY DEF Array
<1> HIDE DEF w
<1>5. Arg(w, 1) = leaf.name /\ Tail(w.args) = leaf.args
  BY <1>3, <1>4 DEF Arg
<1>6. \A i \in DOMAIN leaf.args : IsString(leaf.args[i])
  BY <1>1 DEF IsString
<1>7. ValidateProbe(w) = [type |-> "probe", name |-> leaf.name, args |-> leaf.args]
  BY <1>1, <1>5, <1>6 DEF ValidateProbe
<1>8. w \in [tag : {"probe"}, args : Seq(Word), nodes : {<<>>}]
  BY <1>3, <1>4
<1> QED
  BY <1>1, <1>7, <1>8 DEF w, args

LEMMA ShortLists == \A T : <<>> \in Seq(T) /\ \A x \in T : <<x>> \in Seq(T)
OBVIOUS

LEMMA ListWithin ==
  ASSUME NEW T, NEW list \in Seq(T), NEW U, \A i \in DOMAIN list : list[i] \in U
  PROVE  list \in Seq(U)
<1>1. list \in [1..Len(list) -> U] /\ Len(list) \in Nat
  OBVIOUS
<1> QED
  BY <1>1, ListMade

LEMMA WireIs ==
  ASSUME NEW wires, NEW tag \in Tag, NEW args \in Seq(Word), NEW nodes \in Seq(wires)
  PROVE  [tag |-> tag, args |-> args, nodes |-> nodes] \in WiresOver(wires)
BY DEF WiresOver

(* A leaf without a tree below, whatever is asked about the trees below.   *)
LEMMA FlatReads ==
  ASSUME FormsAssumption, NEW l \in Language, NEW leaf \in FlatOf(l), NEW encode, NEW validate,
         NEW trees, NEW wires
  PROVE  /\ Leaf(leaf) \in TreesOver(trees)
         /\ EncodeNode(encode, Leaf(leaf)) \in WiresOver(wires)
         /\ ValidateNode(validate, l, EncodeNode(encode, Leaf(leaf))) = Leaf(leaf)
<1> DEFINE w == EncodeLeaf(encode, leaf)
<1>1. EncodeNode(encode, Leaf(leaf)) = w
  BY DEF EncodeNode, Leaf
<1>2. leaf \in FlatLeaf
  BY DEF FlatOf, Language, FlatLeaf, FactLeaf, ProbeLeaf, WorkflowLeaf
<1>3. leaf # Refused
  BY <1>2 DEF FormsAssumption, LeafOver
<1>4. /\ w \in [tag : {"truthy", "equals", "includes", "probe", "workflow"}, args : Seq(Word), nodes : {<<>>}]
      /\ ValidateLeaf(validate, l, w) = leaf
  <2>1. CASE l # "pipeline" /\ leaf \in FactLeaf
    <3>1. leaf.type \in {"truthy", "equals", "includes"}
      BY <2>1 DEF FactLeaf
    <3>2. w = EncodeFactLeaf(leaf)
      BY <3>1 DEF EncodeLeaf
    <3>3. /\ w.tag = leaf.type /\ w \in [tag : Tag, args : Seq(Word), nodes : {<<>>}]
          /\ ValidateFactLeaf(w) = leaf
      BY <2>1, <3>2, FactReads
    <3>4. ValidateLeaf(validate, l, w) = ValidateFactLeaf(w)
      BY <2>1, <3>1, <3>3 DEF ValidateLeaf
    <3> QED
      BY <3>1, <3>3, <3>4
  <2>2. CASE l = "condition" /\ leaf \in ProbeLeaf
    <3>1. leaf.type = "probe"
      BY <2>2 DEF ProbeLeaf
    <3>2. w = Array("probe", <<leaf.name>> \o leaf.args)
      BY <3>1 DEF EncodeLeaf
    <3>3. w \in [tag : {"probe"}, args : Seq(Word), nodes : {<<>>}] /\ ValidateProbe(w) = leaf
      BY <2>2, <3>2, ProbeReads
    <3> HIDE DEF w
    <3>4. w.tag = "probe"
      BY <3>3
    <3>5. ValidateLeaf(validate, l, w) = ValidateProbe(w)
      BY <2>2, <3>4 DEF ValidateLeaf
    <3> QED
      BY <3>3, <3>5
  <2>3. CASE l = "pipeline" /\ leaf \in WorkflowLeaf
    <3>1. leaf = [type |-> "workflow", workflowName |-> leaf.workflowName] /\ leaf.workflowName \in Text
      BY <2>3 DEF WorkflowLeaf
    <3>2. w = [tag |-> "workflow", args |-> <<leaf.workflowName>>, nodes |-> <<>>]
      BY <3>1 DEF EncodeLeaf, Array
    <3>3. Arg(w, 1) = leaf.workflowName /\ w.tag = "workflow"
      BY <3>2 DEF Arg
    <3>4. ValidateLeaf(validate, l, w) = leaf
      BY <2>3, <3>1, <3>3 DEF ValidateLeaf, IsString, RunsWorkflow
    <3>5. <<leaf.workflowName>> \in Seq(Word)
      BY <3>1 DEF Word
    <3> QED
      BY <3>2, <3>4, <3>5
  <2> QED
    BY <2>1, <2>2, <2>3 DEF FlatOf, Language
<1> HIDE DEF w
<1>5. w \in WiresOver(wires)
  <2>1. <<>> \in Seq(wires)
    BY ShortLists
  <2>2. w = [tag |-> w.tag, args |-> w.args, nodes |-> <<>>] /\ w.tag \in Tag /\ w.args \in Seq(Word)
    BY <1>4 DEF Tag
  <2> QED
    BY <2>1, <2>2, WireIs
<1>6. ValidateNode(validate, l, w) = Leaf(leaf)
  <2>1. w.tag \notin {"and", "or", "not"}
    BY <1>4
  <2> QED
    BY <1>3, <1>4, <2>1 DEF ValidateNode
<1>7. Leaf(leaf) \in TreesOver(trees)
  BY <1>2 DEF TreesOver, LeafOver, Leaf
<1> QED
  BY <1>1, <1>5, <1>6, <1>7

(* A connective over trees that are read back.                             *)
AllRead(S, l, encode, validate, trees, wires) ==
  \A t \in S : /\ t \in trees /\ encode[t] \in wires /\ validate[<<l, encode[t]>>] = t
               /\ t # Refused
Connectives(S) ==
  {Not(t) : t \in S} \union {Node(k, n) : k \in {"and", "or"}, n \in Seq(S) \ {<<>>}}

LEMMA NodesRead ==
  ASSUME NEW l, NEW encode, NEW validate, NEW trees, NEW wires, NEW S,
         AllRead(S, l, encode, validate, trees, wires), NEW t \in Connectives(S)
  PROVE  /\ t \in TreesOver(trees)
         /\ EncodeNode(encode, t) \in WiresOver(wires)
         /\ ValidateNode(validate, l, EncodeNode(encode, t)) = t
<1>0. \A u \in S : /\ u \in trees /\ encode[u] \in wires /\ validate[<<l, encode[u]>>] = u
                   /\ u # Refused
  BY DEF AllRead
<1>1. CASE t \in {Not(u) : u \in S}
  <2>1. PICK u \in S : t = Not(u)
    BY <1>1
  <2> DEFINE w == Nested("not", <<encode[u]>>)
  <2>2. EncodeNode(encode, t) = w
    BY <2>1 DEF EncodeNode, Not
  <2>3. w = [tag |-> "not", args |-> <<>>, nodes |-> <<encode[u]>>]
    BY DEF Nested
  <2>4. w \in WiresOver(wires)
    <3>1. <<encode[u]>> \in Seq(wires) /\ <<>> \in Seq(Word)
      BY <1>0, ShortLists
    <3>2. "not" \in Tag
      BY DEF Tag
    <3> QED
      BY <2>3, <3>1, <3>2, WireIs
  <2>5. ValidateNode(validate, l, w) = Not(u)
    <3> DEFINE nodes == [i \in DOMAIN w.nodes |-> validate[<<l, w.nodes[i]>>]]
    <3>1. w.tag = "not" /\ DOMAIN w.nodes = {1} /\ w.nodes[1] = encode[u]
      BY <2>3
    <3> HIDE DEF w
    <3>2. nodes[1] = u /\ nodes # <<>>
      <4>1. validate[<<l, encode[u]>>] = u
        BY <1>0
      <4>2. nodes[1] = u /\ DOMAIN nodes = {1}
        BY <3>1, <4>1
      <4>3. DOMAIN <<>> = {}
        OBVIOUS
      <4> HIDE DEF nodes
      <4> QED
        BY <4>2, <4>3
    <3>3. ValidateNode(validate, l, w) =
            IF nodes = <<>> THEN Refused ELSE IF nodes[1] = Refused THEN Refused ELSE Not(nodes[1])
      BY <3>1 DEF ValidateNode
    <3> HIDE DEF nodes
    <3> QED
      BY <1>0, <3>2, <3>3
  <2>6. t \in TreesOver(trees)
    BY <1>0, <2>1 DEF TreesOver, Not
  <2> QED
    BY <2>1, <2>2, <2>4, <2>5, <2>6
<1>2. CASE \E k \in {"and", "or"}, n \in Seq(S) \ {<<>>} : t = Node(k, n)
  <2>1. PICK k \in {"and", "or"}, n \in Seq(S) \ {<<>>} : t = Node(k, n)
    BY <1>2
  <2> DEFINE written == [i \in DOMAIN n |-> encode[n[i]]]
             w == Nested(k, written)
  <2>2. EncodeNode(encode, t) = w
    BY <2>1 DEF EncodeNode, Node
  <2>3. w = [tag |-> k, args |-> <<>>, nodes |-> written]
    BY DEF Nested
  <2>4. Len(n) \in Nat /\ Len(n) # 0 /\ DOMAIN n = 1..Len(n) /\ \A i \in DOMAIN n : n[i] \in S
    BY ListIs
  <2>5. written \in Seq(wires) /\ DOMAIN written = DOMAIN n
    <3>1. written \in [1..Len(n) -> wires]
      BY <1>0, <2>4
    <3> HIDE DEF written
    <3> QED
      BY <2>4, <3>1, ListMade
  <2>6. w \in WiresOver(wires)
    <3> HIDE DEF written, w
    <3>1. k \in Tag /\ <<>> \in Seq(Word)
      BY ShortLists DEF Tag
    <3> QED
      BY <2>3, <2>5, <3>1, WireIs
  <2>7. ValidateNode(validate, l, w) = Node(k, n)
    <3> DEFINE nodes == [i \in DOMAIN w.nodes |-> validate[<<l, w.nodes[i]>>]]
    <3>1. w.tag = k /\ w.nodes = written
      BY <2>3
    <3>2. nodes = n
      <4>1. \A i \in DOMAIN n : written[i] = encode[n[i]] /\ validate[<<l, encode[n[i]]>>] = n[i]
        BY <1>0, <2>4
      <4>2. n = [i \in DOMAIN n |-> n[i]]
        BY ListIsItself, <2>4
      <4> HIDE DEF w, written
      <4> QED
        BY <2>5, <3>1, <4>1, <4>2
    <3>3. n # <<>> /\ \A i \in DOMAIN n : n[i] # Refused
      BY <1>0, <2>4
    <3> HIDE DEF w
    <3>4. ValidateNode(validate, l, w) =
            IF nodes = <<>> \/ \E i \in DOMAIN nodes : nodes[i] = Refused THEN Refused ELSE Node(w.tag, nodes)
      BY <3>1 DEF ValidateNode
    <3> HIDE DEF nodes
    <3> QED
      BY <3>1, <3>2, <3>3, <3>4
  <2>8. t \in TreesOver(trees)
    <3>1. n \in Seq(trees)
      BY <1>0, <2>4, ListWithin
    <3> QED
      BY <2>1, <3>1 DEF TreesOver, Node
  <2> QED
    BY <2>1, <2>2, <2>6, <2>7, <2>8
<1> QED
  BY <1>1, <1>2 DEF Connectives

-----------------------------------------------------------------------------
(* Trees: what is shown, written and read.                                 *)

(* The trees of a language that a form may come to show: of its leaves and *)
(* of connectives that have an operand, by how deep they are nested.       *)
LeafOf(l) ==
  IF l = "pipeline" THEN WorkflowLeaf \union {Condition(Leaf(x)) : x \in FactLeaf} ELSE FlatOf(l)
ShownOver(l, below) ==
  {Leaf(x) : x \in LeafOf(l)} \union Connectives(below)
Shown[d \in 0..Height] ==
  [l \in Language |-> ShownOver(l, IF d = 0 THEN {} ELSE Shown[d - 1][l])]

LEMMA ShownAre ==
  ASSUME FormsAssumption
  PROVE  Shown = [d \in 0..Height |->
                    [l \in Language |-> ShownOver(l, IF d = 0 THEN {} ELSE Shown[d - 1][l])]]
<1> DEFINE Over(g, h) == [l \in Language |-> ShownOver(l, IF h = 0 THEN {} ELSE g[h - 1][l])]
           Is(g, m) == g = [h \in 0..m |-> Over(g, h)]
           made == {m \in 0..Height : \E g : Is(g, m)}
<1>1. Height \in Nat
  BY DEF FormsAssumption
<1>2. 0 \in made
  <2> DEFINE g == [h \in 0..0 |-> [l \in Language |-> ShownOver(l, {})]]
  <2>1. Is(g, 0)
    OBVIOUS
  <2> HIDE DEF Is, g
  <2> QED
    BY <1>1, <2>1
<1>3. ASSUME NEW m \in 1..Height, m - 1 \in made PROVE m \in made
  <2>1. PICK g : Is(g, m - 1)
    BY <1>3
  <2> DEFINE f == [h \in 0..m |-> IF h = m THEN Over(g, m) ELSE g[h]]
  <2>2. ASSUME NEW h \in 0..m PROVE f[h] = Over(f, h)
    <3>1. h # 0 => f[h - 1] = g[h - 1]
      BY <1>1
    <3>2. f[h] = Over(g, h)
      <4> HIDE DEF Over
      <4> QED
        BY <1>1, <2>1
    <3> QED
      BY <3>1, <3>2
  <2>3. Is(f, m)
    BY <2>2
  <2> HIDE DEF Is
  <2> QED
    BY <2>3
<1>4. 0..Height \subseteq made
  <2> HIDE DEF made
  <2> QED
    BY <1>1, <1>2, <1>3, AllAlong
<1>5. \E g : Is(g, Height)
  <2> HIDE DEF Is
  <2> QED
    BY <1>1, <1>4
<1>6. Shown = CHOOSE g : Is(g, Height)
  BY DEF Shown
<1>7. Is(Shown, Height)
  <2> HIDE DEF Is
  <2> QED
    BY <1>5, <1>6
<1> QED
  BY <1>7

Under(d, l) == IF d = 0 THEN {} ELSE Shown[d - 1][l]

LEMMA ShownIs ==
  ASSUME FormsAssumption, NEW d \in 0..Height, NEW l \in Language
  PROVE  Shown[d][l] = ShownOver(l, Under(d, l))
BY ShownAre DEF Under

(* What is shown at a depth may be shown at every greater one.             *)
LEMMA ShownGrows ==
  ASSUME FormsAssumption, NEW d \in 1..Height, NEW l \in Language
  PROVE  Shown[d - 1][l] \subseteq Shown[d][l]
<1> DEFINE grown == {e \in 0..Height : Under(e, l) \subseteq Shown[e][l]}
<1>1. Height \in Nat
  BY DEF FormsAssumption
<1>2. 0 \in grown
  BY <1>1 DEF Under
<1>3. ASSUME NEW e \in 1..Height, e - 1 \in grown PROVE e \in grown
  <2>1. Under(e, l) = Shown[e - 1][l] /\ e - 1 \in 0..Height
    BY <1>1 DEF Under
  <2>2. Shown[e][l] = ShownOver(l, Under(e, l)) /\ Shown[e - 1][l] = ShownOver(l, Under(e - 1, l))
    BY <1>1, <2>1, ShownIs
  <2>3. Under(e - 1, l) \subseteq Under(e, l)
    BY <1>3, <2>1
  <2>4. Seq(Under(e - 1, l)) \subseteq Seq(Under(e, l))
    BY <2>3, ListWithin, ListIs
  <2>5. ShownOver(l, Under(e - 1, l)) \subseteq ShownOver(l, Under(e, l))
    BY <2>3, <2>4 DEF ShownOver, Connectives
  <2> QED
    BY <1>1, <2>1, <2>2, <2>5
<1>4. 0..Height \subseteq grown
  <2> HIDE DEF grown
  <2> QED
    BY <1>1, <1>2, <1>3, AllAlong
<1> QED
  BY <1>1, <1>4 DEF Under

LEMMA ShownDeeper ==
  ASSUME FormsAssumption, NEW d \in 0..Height, NEW e \in d..Height, NEW l \in Language
  PROVE  Shown[d][l] \subseteq Shown[e][l]
<1> DEFINE S == {k \in 0..(e - d) : Shown[d][l] \subseteq Shown[d + k][l]}
<1>1. Height \in Nat /\ d \in Nat /\ e \in Nat /\ e - d \in Nat
  BY DEF FormsAssumption
<1>2. 0 \in S
  BY <1>1
<1>3. ASSUME NEW k \in 1..(e - d), k - 1 \in S PROVE k \in S
  <2>1. d + k \in 1..Height /\ d + (k - 1) = (d + k) - 1
    BY <1>1
  <2>2. Shown[(d + k) - 1][l] \subseteq Shown[d + k][l]
    BY <2>1, ShownGrows
  <2> QED
    BY <1>1, <1>3, <2>1, <2>2
<1>4. 0..(e - d) \subseteq S
  <2> HIDE DEF S
  <2> QED
    BY <1>1, <1>2, <1>3, AllAlong
<1>5. e - d \in S /\ d + (e - d) = e
  BY <1>1, <1>4
<1> QED
  BY <1>5

(* What is written at a height, and what is read back.                     *)
Below(f, h) == IF h = 0 THEN <<>> ELSE f[h - 1]

LEMMA AtHeight ==
  ASSUME FormsAssumption, NEW h \in 0..Height
  PROVE  /\ Trees[h] = TreesOver(IF h = 0 THEN {} ELSE Trees[h - 1])
         /\ Wires[h] = WiresOver(IF h = 0 THEN {} ELSE Wires[h - 1])
         /\ \A t \in Trees[h] : Encoders[h][t] = EncodeNode(Below(Encoders, h), t)
         /\ \A l \in Language, w \in Wires[h] :
              Validators[h][<<l, w>>] = ValidateNode(Below(Validators, h), l, w)
<1>1. Trees[h] = TreesOver(IF h = 0 THEN {} ELSE Trees[h - 1])
  BY TreesAre
<1>2. Wires[h] = WiresOver(IF h = 0 THEN {} ELSE Wires[h - 1])
  BY WiresAre
<1>3. \A t \in Trees[h] : Encoders[h][t] = EncodeNode(Below(Encoders, h), t)
  BY EncodersAre DEF Below
<1>4. ASSUME NEW l \in Language, NEW w \in Wires[h]
      PROVE  Validators[h][<<l, w>>] = ValidateNode(Below(Validators, h), l, w)
  <2> DEFINE q == <<l, w>>
  <2>1. q \in Language \X Wires[h] /\ q[1] = l /\ q[2] = w
    OBVIOUS
  <2>2. Validators[h] = [question \in Language \X Wires[h] |->
                           ValidateNode(Below(Validators, h), question[1], question[2])]
    BY ValidatorsAre DEF Below
  <2> HIDE DEF q
  <2> QED
    BY <2>1, <2>2 DEF q
<1> QED
  BY <1>1, <1>2, <1>3, <1>4

(* A tree is read back from what it is written as.                         *)
ReadsBack(h, l, t) ==
  t \in Trees[h] /\ Encoders[h][t] \in Wires[h] /\ Validators[h][<<l, Encoders[h][t]>>] = t

LEMMA ReadsAtHeight ==
  ASSUME FormsAssumption, NEW h \in 0..Height, NEW l \in Language, NEW t,
         /\ t \in TreesOver(IF h = 0 THEN {} ELSE Trees[h - 1])
         /\ EncodeNode(Below(Encoders, h), t) \in WiresOver(IF h = 0 THEN {} ELSE Wires[h - 1])
         /\ ValidateNode(Below(Validators, h), l, EncodeNode(Below(Encoders, h), t)) = t
  PROVE  ReadsBack(h, l, t)
BY AtHeight DEF ReadsBack

LEMMA FlatsRead ==
  ASSUME FormsAssumption, NEW h \in 0..Height, NEW l \in Language, NEW leaf \in FlatOf(l)
  PROVE  ReadsBack(h, l, Leaf(leaf))
BY FlatReads, ReadsAtHeight

LEMMA ConditionsRead ==
  ASSUME FormsAssumption, NEW h \in 1..Height, NEW fact \in FactLeaf
  PROVE  ReadsBack(h, "pipeline", Leaf(Condition(Leaf(fact))))
<1> DEFINE inner == Leaf(fact)
           leaf == Condition(inner)
           encode == Below(Encoders, h)
           validate == Below(Validators, h)
           w == EncodeNode(encode, Leaf(leaf))
<1>1. h # 0 /\ h - 1 \in 0..Height /\ h \in 0..Height
  BY DEF FormsAssumption
<1>2. ReadsBack(h - 1, "condition", inner)
  <2>1. fact \in FlatOf("condition") /\ "condition" \in Language
    BY DEF FlatOf, Language
  <2> QED
    BY <1>1, <2>1, FlatsRead
<1>3. /\ inner \in Trees[h - 1] /\ encode[inner] \in Wires[h - 1]
      /\ validate[<<"condition", encode[inner]>>] = inner
  BY <1>1, <1>2 DEF ReadsBack, Below
<1>4. leaf = [type |-> "condition", condition |-> inner] /\ leaf.type = "condition" /\ leaf.condition = inner
  BY DEF Condition
<1>5. inner # Refused /\ leaf # Refused
  <2>1. leaf \in LeafOver(Trees[h - 1])
    BY <1>3, <1>4 DEF LeafOver
  <2> QED
    BY <1>1, <1>3, <2>1 DEF FormsAssumption
<1> HIDE DEF inner, leaf, encode, validate
<1>6. w = Nested("condition", <<encode[inner]>>)
  BY <1>4 DEF EncodeNode, EncodeLeaf, Leaf
<1>7. w = [tag |-> "condition", args |-> <<>>, nodes |-> <<encode[inner]>>]
  BY <1>6 DEF Nested
<1>8. w \in WiresOver(Wires[h - 1])
  <2>1. "condition" \in Tag /\ <<>> \in Seq(Word) /\ <<encode[inner]>> \in Seq(Wires[h - 1])
    BY <1>3, ShortLists DEF Tag
  <2> HIDE DEF w
  <2> QED
    BY <1>7, <2>1, WireIs
<1>9. ValidateLeaf(validate, "pipeline", w) = leaf
  <2>1. w.tag = "condition" /\ w.nodes # <<>> /\ w.nodes[1] = encode[inner]
    BY <1>7
  <2> HIDE DEF w
  <2> QED
    BY <1>3, <1>4, <1>5, <2>1 DEF ValidateLeaf, Condition
<1>10. ValidateNode(validate, "pipeline", w) = Leaf(leaf)
  <2>1. w.tag = "condition"
    BY <1>7
  <2> HIDE DEF w
  <2> QED
    BY <1>5, <1>9, <2>1 DEF ValidateNode
<1>11. Leaf(leaf) \in TreesOver(Trees[h - 1])
  BY <1>3, <1>4 DEF TreesOver, LeafOver, Leaf
<1>12. "pipeline" \in Language
  BY DEF Language
<1> QED
  BY <1>1, <1>8, <1>10, <1>11, <1>12, ReadsAtHeight DEF inner, leaf, encode, validate

LEMMA ShownReads ==
  ASSUME FormsAssumption, NEW d \in 0..(Height - 1), NEW l \in Language, NEW t \in Shown[d][l]
  PROVE  ReadsBack(d + 1, l, t)
<1> DEFINE good == {e \in 0..(Height - 1) : \A u \in Shown[e][l] : ReadsBack(e + 1, l, u)}
<1>1. Height \in Nat /\ Height - 1 \in Nat
  BY DEF FormsAssumption
<1>2. ASSUME NEW h \in 1..Height, NEW x \in LeafOf(l) PROVE ReadsBack(h, l, Leaf(x))
  <2>1. h \in 0..Height
    BY <1>1
  <2>2. CASE l # "pipeline"
    BY <1>2, <2>1, <2>2, FlatsRead DEF LeafOf
  <2>3. CASE l = "pipeline"
    <3>1. CASE x \in WorkflowLeaf
      <4>1. x \in FlatOf(l)
        BY <2>3, <3>1 DEF FlatOf
      <4> QED
        BY <2>1, <4>1, FlatsRead
    <3>2. CASE x \in {Condition(Leaf(f)) : f \in FactLeaf}
      BY <2>3, <3>2, ConditionsRead
    <3> QED
      BY <1>2, <2>3, <3>1, <3>2 DEF LeafOf
  <2> QED
    BY <2>2, <2>3
<1>3. 0 \in good
  <2>1. Shown[0][l] = {Leaf(x) : x \in LeafOf(l)}
    <3>1. Shown[0][l] = ShownOver(l, {})
      BY <1>1, ShownIs DEF Under
    <3>2. \A s \in Seq({}) : s = <<>>
      BY ListIs
    <3> QED
      BY <3>1, <3>2 DEF ShownOver, Connectives
  <2> QED
    BY <1>1, <1>2, <2>1
<1>4. ASSUME NEW e \in 1..(Height - 1), e - 1 \in good PROVE e \in good
  <2>1. SUFFICES ASSUME NEW u \in Shown[e][l] PROVE ReadsBack(e + 1, l, u)
    BY <1>1
  <2> DEFINE S == Shown[e - 1][l]
             h == e + 1
  <2>2. e \in 0..Height /\ h \in 1..Height /\ h \in 0..Height /\ h # 0 /\ h - 1 = e
    BY <1>1
  <2>3. u \in ShownOver(l, S)
    BY <1>1, <2>1, <2>2, ShownIs DEF Under
  <2>4. \A v \in S : ReadsBack(e, l, v)
    BY <1>1, <1>4
  <2>5. \A v \in S : /\ v \in Trees[e] /\ Encoders[e][v] \in Wires[e]
                     /\ Validators[e][<<l, Encoders[e][v]>>] = v /\ v # Refused
    BY <2>2, <2>4 DEF ReadsBack, FormsAssumption
  <2>6. CASE u \in {Leaf(x) : x \in LeafOf(l)}
    BY <1>2, <2>2, <2>6
  <2>7. CASE u \in Connectives(S)
    <3>1. /\ u \in TreesOver(Trees[e])
          /\ EncodeNode(Encoders[e], u) \in WiresOver(Wires[e])
          /\ ValidateNode(Validators[e], l, EncodeNode(Encoders[e], u)) = u
      <4> DEFINE trees == Trees[e]
                 wires == Wires[e]
                 encode == Encoders[e]
                 validate == Validators[e]
      <4>1. AllRead(S, l, encode, validate, trees, wires)
        BY <2>5 DEF AllRead
      <4> HIDE DEF S, trees, wires, encode, validate
      <4>2. /\ u \in TreesOver(trees) /\ EncodeNode(encode, u) \in WiresOver(wires)
            /\ ValidateNode(validate, l, EncodeNode(encode, u)) = u
        BY <2>7, <4>1, NodesRead
      <4> QED
        BY <4>2 DEF trees, wires, encode, validate
    <3>2. Below(Encoders, h) = Encoders[e] /\ Below(Validators, h) = Validators[e]
      BY <2>2 DEF Below
    <3> HIDE DEF h
    <3> QED
      BY <2>2, <3>1, <3>2, ReadsAtHeight DEF h
  <2> QED
    BY <2>3, <2>6, <2>7 DEF ShownOver
<1>5. 0..(Height - 1) \subseteq good
  <2> HIDE DEF good
  <2> QED
    BY <1>1, <1>3, <1>4, AllAlong
<1> QED
  BY <1>5

-----------------------------------------------------------------------------
(* Trees: edits.                                                           *)

(* The arguments of a probe's leaf are one text, or none.                  *)
LEMMA OneText ==
  ASSUME NEW x \in Text, NEW a, a = [i \in 1..1 |-> x]
  PROVE  a \in Seq(Text) /\ Len(a) = 1 /\ DOMAIN a = 1..1 /\ a[1] = x
<1> DEFINE n == 1
<1>1. n \in Nat /\ a \in [1..n -> Text]
  OBVIOUS
<1> HIDE DEF n
<1>2. a \in Seq(Text) /\ Len(a) = n
  BY <1>1, ListMade
<1> QED
  BY <1>2 DEF n

LEMMA DefaultOfOne ==
  ASSUME NEW n, DOMAIN FindProbeSchema[n] = 1..1
  PROVE  /\ DefaultArgs(n) = [i \in 1..1 |-> DefaultArgs(n)[1]]
         /\ FindProbeSchema[n][1] = {} => DefaultArgs(n)[1] = ""
         /\ FindProbeSchema[n][1] # {} => DefaultArgs(n)[1] \in FindProbeSchema[n][1]
<1> DEFINE s == FindProbeSchema[n]
           o(S) == CHOOSE x \in S : TRUE
           a == [i \in 1..1 |-> IF s[i] = {} THEN "" ELSE o(s[i])]
<1>1. DefaultArgs(n) = a
  BY Zenon DEF DefaultArgs
<1>2. \A S : S # {} => o(S) \in S
  OBVIOUS
<1> HIDE DEF s, o
<1>3. a[1] = IF s[1] = {} THEN "" ELSE o(s[1])
  OBVIOUS
<1>4. a = [i \in 1..1 |-> a[1]]
  OBVIOUS
<1> HIDE DEF a
<1> QED
  BY <1>1, <1>2, <1>3, <1>4 DEF s

(* The leaves a form offers are leaves it may show.                        *)
LEMMA LeavesOffered ==
  ASSUME NEW l \in Language
  PROVE  LeafEdits(l) \subseteq LeafOf(l) /\ DefaultLeaf(l) \in LeafOf(l)
<1>1. "" \in Text /\ "x" \in Text /\ "y" \in Text /\ "landscape" \in Text /\ "portrait" \in Text
  BY DEF Text
<1>2. FactLeaves \subseteq FactLeaf /\ \A n \in Text : Truthy(n) \in FactLeaf
  <2>1. \A n \in Text : Truthy(n) \in FactLeaf
    BY DEF Truthy, FactLeaf
  <2>2. \A k \in {"equals", "includes"}, n, v \in Text : [type |-> k, name |-> n, value |-> v] \in FactLeaf
    BY DEF FactLeaf
  <2>3. \A x \in FactLeaves : \/ x = Truthy("x")
                             \/ x = [type |-> "equals", name |-> "", value |-> ""]
                             \/ x = [type |-> "includes", name |-> "x", value |-> "y"]
    BY DEF FactLeaves
  <2> QED
    BY <1>1, <2>1, <2>2, <2>3
<1>3. ProbeLeaves \subseteq ProbeLeaf
  <2> DEFINE probe(n, a) == [type |-> "probe", name |-> n, args |-> a]
  <2>1. ASSUME NEW n \in DOMAIN FindProbeSchema, NEW a \in Seq(Text),
               Len(a) = Len(FindProbeSchema[n]),
               \A i \in DOMAIN a : FindProbeSchema[n][i] # {} => a[i] \in FindProbeSchema[n][i]
        PROVE  probe(n, a) \in ProbeLeaf
    BY <2>1 DEF ProbeLeaf
  <2> HIDE DEF probe
  <2>2. ASSUME NEW n \in DOMAIN FindProbeSchema PROVE probe(n, DefaultArgs(n)) \in ProbeLeaf
    <3> DEFINE a == DefaultArgs(n)
    <3>1. CASE n \in {"screenOn", "keyguardShowing"}
      <4>1. FindProbeSchema[n] = <<>>
        BY <3>1, Probes
      <4>2. a = <<>>
        BY <4>1 DEF DefaultArgs
      <4>3. <<>> \in Seq(Text) /\ Len(<<>>) = 0 /\ DOMAIN <<>> = {}
        BY ShortLists
      <4> HIDE DEF a
      <4> QED
        BY <2>1, <4>1, <4>2, <4>3 DEF a
    <3>2. CASE n = "activityResumed"
      <4>1. DOMAIN FindProbeSchema[n] = 1..1 /\ Len(FindProbeSchema[n]) = 1 /\ FindProbeSchema[n][1] = {}
        BY <3>2, Probes
      <4>2. \E x \in Text : a = [i \in 1..1 |-> x]
        BY ZenonT(40), <1>1, <4>1, DefaultOfOne
      <4> HIDE DEF a
      <4>3. a \in Seq(Text) /\ Len(a) = 1 /\ DOMAIN a = 1..1
        BY <4>2, OneText
      <4>4. \A i \in DOMAIN a : i = 1
        BY <4>3
      <4> QED
        BY <2>1, <4>1, <4>3, <4>4 DEF a
    <3>3. CASE n = "orientation"
      <4>1. /\ DOMAIN FindProbeSchema[n] = 1..1 /\ Len(FindProbeSchema[n]) = 1
            /\ FindProbeSchema[n][1] = {"landscape", "portrait"}
        BY <3>3, Probes
      <4>2. \E x \in {"landscape", "portrait"} : a = [i \in 1..1 |-> x]
        BY <4>1, DefaultOfOne
      <4> HIDE DEF a
      <4>3. PICK x \in {"landscape", "portrait"} : a = [i \in 1..1 |-> x]
        BY <4>2
      <4>4. a \in Seq(Text) /\ Len(a) = 1 /\ DOMAIN a = 1..1 /\ a[1] = x
        BY ZenonT(40), <1>1, <4>3, OneText
      <4>5. \A i \in DOMAIN a : i = 1
        BY <4>4
      <4>6. \A i \in DOMAIN a : a[i] \in FindProbeSchema[n][i]
        BY <4>1, <4>4, <4>5
      <4> QED
        BY <2>1, <4>1, <4>4, <4>6 DEF a
    <3> QED
      BY <3>1, <3>2, <3>3, Probes
  <2>3. probe("orientation", <<"portrait">>) \in ProbeLeaf
    <3> DEFINE n == "orientation"
               a == <<"portrait">>
    <3>1. a \in Seq(Text) /\ Len(a) = 1 /\ DOMAIN a = 1..1 /\ a[1] = "portrait"
      <4>1. a = [i \in 1..1 |-> "portrait"]
        OBVIOUS
      <4> HIDE DEF a
      <4> QED
        BY <1>1, <4>1, OneText
    <3>2. /\ n \in DOMAIN FindProbeSchema /\ Len(FindProbeSchema[n]) = 1
          /\ FindProbeSchema[n][1] = {"landscape", "portrait"}
      BY Probes
    <3> HIDE DEF n, a
    <3>3. probe(n, a) \in ProbeLeaf
      BY <2>1, <3>1, <3>2
    <3> QED
      BY <3>3 DEF n, a
  <2> QED
    BY <2>2, <2>3 DEF ProbeLeaves, probe
<1>4. \A n \in Text : RunsWorkflow(n) \in WorkflowLeaf
  BY DEF RunsWorkflow, WorkflowLeaf
<1>5. CASE l = "fact"
  BY <1>1, <1>2, <1>5 DEF LeafEdits, DefaultLeaf, LeafOf, FlatOf
<1>6. CASE l = "condition"
  BY <1>1, <1>2, <1>3, <1>6 DEF LeafEdits, DefaultLeaf, LeafOf, FlatOf
<1>7. CASE l = "pipeline"
  BY <1>1, <1>2, <1>4, <1>7 DEF LeafEdits, DefaultLeaf, LeafOf
<1> QED
  BY <1>5, <1>6, <1>7 DEF Language

LEMMA Kinds ==
  ASSUME NEW S, NEW l, NEW t \in ShownOver(l, S)
  PROVE  \/ t.type = "leaf" /\ \E x \in LeafOf(l) : t = Leaf(x)
         \/ t.type = "not" /\ t.node \in S /\ t = Not(t.node)
         \/ t.type \in {"and", "or"} /\ t.nodes \in Seq(S) /\ t.nodes # <<>> /\ t = Node(t.type, t.nodes)
BY DEF ShownOver, Connectives, Leaf, Not, Node

(* One edit of a tree leaves a tree that may be shown, if those of the     *)
(* trees below do.                                                         *)
LEMMA NodeStaysShown ==
  ASSUME FormsAssumption, NEW d \in 0..(Height - 1), NEW l \in Language, NEW t \in Shown[d][l],
         NEW edits, d # 0 => \A u \in Shown[d - 1][l] : edits[u] \subseteq Shown[d - 1][l],
         NEW new \in NodeEdits(edits, l, t, d)
  PROVE  new \in Shown[d][l]
<1> DEFINE S == Under(d, l)
           default == Leaf(DefaultLeaf(l))
<1>1. Height \in Nat /\ d \in 0..Height
  BY DEF FormsAssumption
<1>2. Shown[d][l] = ShownOver(l, S)
  BY <1>1, ShownIs
<1>3. \A u \in S : edits[u] \subseteq S
  BY DEF Under
<1>4. d # 0 => \A x \in LeafOf(l) : Leaf(x) \in S
  <2> SUFFICES ASSUME d # 0, NEW x \in LeafOf(l) PROVE Leaf(x) \in S
    OBVIOUS
  <2>1. S = ShownOver(l, Under(d - 1, l))
    BY <1>1, ShownIs DEF Under
  <2> QED
    BY <2>1 DEF ShownOver
<1>5. d = 0 => S = {}
  BY DEF Under
<1>6. \A x \in LeafEdits(l) : Leaf(x) \in ShownOver(l, S)
  BY LeavesOffered DEF ShownOver
<1>7. default \in ShownOver(l, S) /\ (d # 0 => default \in S)
  BY <1>4, LeavesOffered DEF ShownOver
<1>8. \A u \in S : u.type = "leaf" => u \in ShownOver(l, S)
  <2> SUFFICES ASSUME NEW u \in S, u.type = "leaf" PROVE u \in ShownOver(l, S)
    OBVIOUS
  <2>1. d # 0 /\ S = Shown[d - 1][l] /\ d - 1 \in 0..Height
    BY <1>1 DEF Under
  <2>2. u \in ShownOver(l, Under(d - 1, l))
    BY <2>1, ShownIs
  <2>3. \E x \in LeafOf(l) : u = Leaf(x)
    BY <2>2, Kinds
  <2> QED
    BY <2>3 DEF ShownOver
<1>9. \A u \in S : Not(u) \in ShownOver(l, S)
  BY DEF ShownOver, Connectives
<1>10. \A k \in {"and", "or"}, n \in Seq(S) : n # <<>> => Node(k, n) \in ShownOver(l, S)
  BY DEF ShownOver, Connectives
<1>11. t \in ShownOver(l, S)
  BY <1>2
<1> HIDE DEF S, default
<1>12. ASSUME d # 0, NEW k \in {"leaf", "and", "or", "not"}, new = Retag(l, t, k)
       PROVE  new \in ShownOver(l, S)
  <2> DEFINE items == Items(t)
  <2>1. items \in Seq(S) /\ items # <<>> /\ items[1] \in S
    <3>1. CASE t.type = "leaf" /\ \E x \in LeafOf(l) : t = Leaf(x)
      <4>1. items = <<t>> /\ t \in S
        BY <1>4, <1>12, <3>1 DEF Items
      <4> QED
        BY <4>1, ShortLists
    <3>2. CASE t.type = "not" /\ t.node \in S
      <4>1. items = <<t.node>>
        BY <3>2 DEF Items
      <4> QED
        BY <3>2, <4>1, ShortLists
    <3>3. CASE t.type \in {"and", "or"} /\ t.nodes \in Seq(S) /\ t.nodes # <<>>
      <4>1. items = t.nodes
        BY <3>3 DEF Items
      <4>2. 1 \in DOMAIN t.nodes
        BY <3>3, ListIs
      <4> QED
        BY <3>3, <4>1, <4>2, ListIs
    <3> QED
      BY <1>11, <3>1, <3>2, <3>3, Kinds
  <2> HIDE DEF items
  <2>2. CASE k = t.type
    BY <1>11, <1>12, <2>2 DEF Retag
  <2>3. CASE k # t.type /\ k \in {"and", "or"}
    <3>1. new = Node(k, items)
      BY <1>12, <2>3 DEF Retag, items
    <3> QED
      BY <1>10, <2>1, <2>3, <3>1
  <2>4. CASE k # t.type /\ k = "not"
    <3>1. new = Not(items[1])
      BY <1>12, <2>1, <2>4 DEF Retag, items
    <3> QED
      BY <1>9, <2>1, <3>1
  <2>5. CASE k # t.type /\ k = "leaf"
    <3>1. new = IF items # <<>> /\ items[1].type = "leaf" THEN items[1] ELSE default
      BY <1>12, <2>5 DEF Retag, items, default
    <3> QED
      BY <1>7, <1>8, <2>1, <3>1
  <2> QED
    BY <1>12, <2>2, <2>3, <2>4, <2>5
<1>13. ASSUME t.type = "leaf", new \in {Leaf(x) : x \in LeafEdits(l)} PROVE new \in ShownOver(l, S)
  BY <1>6, <1>13
<1>14. ASSUME t.type = "not", t.node \in S, new \in {Not(u) : u \in edits[t.node]}
       PROVE  new \in ShownOver(l, S)
  BY <1>3, <1>9, <1>14
<1>15. ASSUME t.type \in {"and", "or"}, t.nodes \in Seq(S), t.nodes # <<>>,
              NEW n \in JunctionEdits(l, t.nodes) \union
                UNION {{[t.nodes EXCEPT ![i] = u] : u \in edits[t.nodes[i]]} : i \in DOMAIN t.nodes},
              new = Node(t.type, n)
       PROVE  new \in ShownOver(l, S)
  <2>1. Len(t.nodes) \in Nat /\ Len(t.nodes) # 0 /\ \A i \in DOMAIN t.nodes : t.nodes[i] \in S
    BY <1>15, ListIs
  <2>2. d # 0 /\ default \in S
    BY <1>5, <1>7, <1>15, <2>1, ListIs
  <2>3. n \in Seq(S) /\ Len(n) # 0
    <3>1. CASE n \in Added(t.nodes, default, MaxItems)
      BY <1>15, <2>1, <2>2, <3>1, ListAdded
    <3>2. CASE n \in Reordered(t.nodes)
      BY <1>15, <2>1, <3>2, ListReordered
    <3>3. CASE Len(t.nodes) # 1 /\ n \in Removed(t.nodes)
      <4>1. n \in Seq(S) /\ Len(n) = Len(t.nodes) - 1
        BY <1>15, <3>3, ListRemoved
      <4> QED
        BY <2>1, <3>3, <4>1
    <3>4. CASE \E i \in DOMAIN t.nodes : \E u \in edits[t.nodes[i]] : n = [t.nodes EXCEPT ![i] = u]
      BY <1>3, <1>15, <2>1, <3>4, ListReplaced
    <3> QED
      BY <1>15, <3>1, <3>2, <3>3, <3>4 DEF JunctionEdits, default
  <2>4. n # <<>>
    BY <2>3, ListIs
  <2> QED
    BY <1>10, <1>15, <2>3, <2>4
<1>16. CASE d # 0 /\ new \in {Retag(l, t, k) : k \in {"leaf", "and", "or", "not"}}
  BY <1>2, <1>12, <1>16
<1>17. CASE new \in
         CASE t.type = "leaf" -> {Leaf(x) : x \in LeafEdits(l)}
           [] t.type = "not" -> {Not(u) : u \in edits[t.node]}
           [] OTHER -> {Node(t.type, n) : n \in JunctionEdits(l, t.nodes) \union
                          UNION {{[t.nodes EXCEPT ![i] = u] : u \in edits[t.nodes[i]]} :
                                 i \in DOMAIN t.nodes}}
  <2>1. CASE t.type = "leaf"
    BY <1>2, <1>13, <1>17, <2>1
  <2>2. CASE t.type = "not" /\ t.node \in S
    BY <1>2, <1>14, <1>17, <2>2
  <2>3. CASE t.type \in {"and", "or"} /\ t.nodes \in Seq(S) /\ t.nodes # <<>>
    <3>1. PICK n \in JunctionEdits(l, t.nodes) \union
                 UNION {{[t.nodes EXCEPT ![i] = u] : u \in edits[t.nodes[i]]} : i \in DOMAIN t.nodes} :
            new = Node(t.type, n)
      BY <1>17, <2>3
    <3> QED
      BY <1>2, <1>15, <2>3, <3>1
  <2> QED
    BY <1>11, <2>1, <2>2, <2>3, Kinds
<1> QED
  BY <1>16, <1>17 DEF NodeEdits

(* So no edit of a form's tree leads out of the trees it may show.         *)
LEMMA TreesStayShown ==
  ASSUME FormsAssumption, NEW depth \in 0..(Height - 1), NEW l \in Language, NEW t \in Shown[depth][l],
         NEW new \in TreeEdits(l, t, depth)
  PROVE  new \in Shown[depth][l]
<1> DEFINE Over(g, d) == [u \in Trees[d + 1] |-> NodeEdits(IF d = 0 THEN <<>> ELSE g[d - 1], l, u, d)]
           Is(g, m) == g = [d \in 0..m |-> Over(g, d)]
           made == {m \in 0..depth : \E g : Is(g, m)}
<1>1. depth \in Nat /\ Height \in Nat
  BY DEF FormsAssumption
<1>2. 0 \in made
  <2> DEFINE g == [h \in 0..0 |-> [u \in Trees[h + 1] |-> NodeEdits(<<>>, l, u, h)]]
  <2>1. Is(g, 0)
    OBVIOUS
  <2> HIDE DEF Is, g
  <2> QED
    BY <1>1, <2>1
<1>3. ASSUME NEW m \in 1..depth, m - 1 \in made PROVE m \in made
  <2>1. PICK g : Is(g, m - 1)
    BY <1>3
  <2> DEFINE f == [h \in 0..m |-> IF h = m THEN Over(g, m) ELSE g[h]]
  <2>2. ASSUME NEW h \in 0..m PROVE f[h] = Over(f, h)
    <3>1. h # 0 => f[h - 1] = g[h - 1]
      BY <1>1
    <3>2. f[h] = Over(g, h)
      <4> HIDE DEF Over
      <4> QED
        BY <1>1, <2>1
    <3> QED
      BY <3>1, <3>2
  <2>3. Is(f, m)
    BY <2>2
  <2> HIDE DEF Is
  <2> QED
    BY <2>3
<1>4. 0..depth \subseteq made
  <2> HIDE DEF made
  <2> QED
    BY <1>1, <1>2, <1>3, AllAlong
<1>5. \E g : Is(g, depth)
  <2> HIDE DEF Is
  <2> QED
    BY <1>1, <1>4
<1> DEFINE edits == CHOOSE g : Is(g, depth)
<1>6. Is(edits, depth)
  <2> HIDE DEF Is
  <2> QED
    BY <1>5
<1>7. TreeEdits(l, t, depth) = edits[depth][t]
  BY DEF TreeEdits
<1> HIDE DEF edits
<1>12. \A d \in 0..depth : edits[d] = Over(edits, d)
  <2> HIDE DEF Over
  <2> QED
    BY <1>6
<1> DEFINE stay == {d \in 0..depth : \A u \in Shown[d][l] : edits[d][u] \subseteq Shown[d][l]}
<1>8. ASSUME NEW d \in 0..depth,
             d # 0 => \A u \in Shown[d - 1][l] : edits[d - 1][u] \subseteq Shown[d - 1][l]
      PROVE  d \in stay
  <2> SUFFICES ASSUME NEW u \in Shown[d][l], NEW v \in edits[d][u] PROVE v \in Shown[d][l]
    OBVIOUS
  <2>1. d \in 0..(Height - 1)
    BY <1>1
  <2>2. u \in Trees[d + 1]
    BY <2>1, ShownReads DEF ReadsBack
  <2> DEFINE below == IF d = 0 THEN <<>> ELSE edits[d - 1]
  <2>3. edits[d][u] = NodeEdits(below, l, u, d)
    BY <1>12, <2>2
  <2>4. d # 0 => \A x \in Shown[d - 1][l] : below[x] \subseteq Shown[d - 1][l]
    BY <1>8
  <2> HIDE DEF below
  <2> QED
    BY <2>1, <2>3, <2>4, NodeStaysShown
<1>9. 0 \in stay
  BY <1>1, <1>8
<1>10. ASSUME NEW d \in 1..depth, d - 1 \in stay PROVE d \in stay
  BY <1>1, <1>8, <1>10
<1>11. 0..depth \subseteq stay
  <2> HIDE DEF stay
  <2> QED
    BY <1>1, <1>9, <1>10, AllAlong
<1> QED
  BY <1>1, <1>7, <1>11

-----------------------------------------------------------------------------
(* Commands.                                                               *)

(* The values of a command's fields, and the commands of the form.         *)
Kind == {"string", "duration", "coords", "condition"}
FieldOf(kind) ==
  CASE kind = "string" -> {"", "x"} [] kind = "duration" -> {"0ms", "10s", "-1s"}
    [] kind = "coords" -> {"coords"}
    [] kind = "condition" -> {Leaf(x) : x \in ProbeLeaves \union {Truthy(""), Truthy("x")}}
FieldsOf(kinds) ==
  {fields \in [DOMAIN kinds -> UNION {FieldOf(k) : k \in Kind}] :
     \A i \in DOMAIN kinds : fields[i] \in FieldOf(kinds[i])}
CommandShown ==
  UNION {[type : {t}, fields : FieldsOf(CommandSchema[t])] : t \in DOMAIN CommandSchema}

LEMMA CommandKinds ==
  /\ \A t \in DOMAIN CommandSchema : \A i \in DOMAIN CommandSchema[t] : CommandSchema[t][i] \in Kind
  /\ CommandSchema["when"] = <<"condition", "string", "string">>
  /\ "restartApp" \in DOMAIN CommandSchema
BY DEF CommandSchema, Kind

LEMMA FieldsMade ==
  ASSUME NEW kinds, \A i \in DOMAIN kinds : kinds[i] \in Kind, NEW fields,
         fields = [i \in DOMAIN kinds |-> fields[i]],
         \A i \in DOMAIN kinds : fields[i] \in FieldOf(kinds[i])
  PROVE  fields \in FieldsOf(kinds)
<1>1. \A i \in DOMAIN kinds : fields[i] \in UNION {FieldOf(k) : k \in Kind}
  OBVIOUS
<1> QED
  BY <1>1 DEF FieldsOf

(* No control of the form leads out of them.                               *)
LEMMA CommandsMade ==
  ASSUME NEW t \in DOMAIN CommandSchema
  PROVE  CommandFor(t) \in CommandShown
<1> DEFINE kinds == CommandSchema[t]
           fields == [i \in DOMAIN kinds |-> DefaultField(kinds[i])]
<1>1. \A k \in Kind : DefaultField(k) \in FieldOf(k)
  BY DEF DefaultField, FieldOf, Kind
<1>2. \A i \in DOMAIN kinds : kinds[i] \in Kind
  BY CommandKinds
<1>3. CommandFor(t) = [type |-> t, fields |-> fields]
  BY DEF CommandFor
<1>4. fields \in FieldsOf(kinds)
  <2>1. \A i \in DOMAIN kinds : fields[i] \in FieldOf(kinds[i])
    BY <1>1, <1>2
  <2>2. fields = [i \in DOMAIN kinds |-> fields[i]]
    OBVIOUS
  <2> HIDE DEF fields, kinds
  <2> QED
    BY <1>2, <2>1, <2>2, FieldsMade
<1> HIDE DEF fields, kinds
<1> QED
  BY <1>3, <1>4 DEF CommandShown, kinds

LEMMA CommandsStayShown ==
  ASSUME NEW command \in CommandShown, NEW new \in CommandEdits(command)
  PROVE  new \in CommandShown
<1> DEFINE kinds == CommandSchema[command.type]
<1>1. /\ command.type \in DOMAIN CommandSchema /\ command.fields \in FieldsOf(kinds)
      /\ command = [type |-> command.type, fields |-> command.fields]
  BY DEF CommandShown
<1>2. DOMAIN command.fields = DOMAIN kinds
  BY <1>1 DEF FieldsOf
<1>3. CASE \E t \in DOMAIN CommandSchema : new = CommandFor(t)
  BY <1>3, CommandsMade
<1>4. CASE \E i \in DOMAIN command.fields : \E v \in FieldEdits(kinds[i]) :
             new = [command EXCEPT !.fields[i] = v]
  <2>1. PICK i \in DOMAIN kinds : \E v \in FieldEdits(kinds[i]) : new = [command EXCEPT !.fields[i] = v]
    BY <1>2, <1>4
  <2>2. PICK v \in FieldEdits(kinds[i]) : new = [command EXCEPT !.fields[i] = v]
    BY <2>1
  <2> DEFINE fields == [command.fields EXCEPT ![i] = v]
  <2>3. new = [type |-> command.type, fields |-> fields]
    BY <1>1, <2>2
  <2>4. \A j \in DOMAIN kinds : kinds[j] \in Kind
    BY <1>1, CommandKinds
  <2>5. v \in FieldOf(kinds[i])
    <3>1. \A k \in Kind : FieldEdits(k) \subseteq FieldOf(k)
      BY DEF FieldEdits, FieldOf, Kind
    <3> QED
      BY <2>2, <2>4, <3>1
  <2>6. \A j \in DOMAIN kinds : command.fields[j] \in FieldOf(kinds[j])
    BY <1>1 DEF FieldsOf
  <2>7. fields \in FieldsOf(kinds)
    <3>1. \A j \in DOMAIN kinds : fields[j] \in FieldOf(kinds[j])
      BY <1>2, <2>5, <2>6
    <3>2. fields = [j \in DOMAIN kinds |-> fields[j]]
      BY <1>2
    <3> HIDE DEF fields, kinds
    <3> QED
      BY <2>4, <3>1, <3>2, FieldsMade
  <2> HIDE DEF fields
  <2> QED
    BY <1>1, <2>3, <2>7 DEF CommandShown
<1> QED
  BY <1>3, <1>4 DEF CommandEdits

(* A condition in a command is a flat one.                                 *)
LEMMA FieldTrees ==
  ASSUME FormsAssumption, NEW t \in FieldOf("condition")
  PROVE  /\ EncodeTree(t) # Absent /\ ValidateTree("condition", EncodeTree(t)) = t
         /\ t # Refused
<1>1. Height \in 0..Height /\ "condition" \in Language
  BY DEF FormsAssumption, Language
<1>2. ProbeLeaves \union {Truthy(""), Truthy("x")} \subseteq FlatOf("condition")
  BY <1>1, LeavesOffered DEF LeafEdits, DefaultLeaf, LeafOf, FactLeaves
<1>3. PICK x \in FlatOf("condition") : t = Leaf(x)
  BY <1>2 DEF FieldOf
<1>4. ReadsBack(Height, "condition", t)
  BY <1>1, <1>3, FlatsRead
<1> QED
  BY <1>1, <1>4 DEF ReadsBack, EncodeTree, ValidateTree, FormsAssumption

(* What is written of each field, and what is read.                        *)
Written(kind, value) == IF kind = "condition" THEN EncodeTree(value) ELSE value
ReadOf(kind, value) == IF kind = "duration" /\ ~ IsDuration(value) THEN Refused ELSE value

LEMMA FieldReads ==
  ASSUME FormsAssumption, NEW kind \in Kind, NEW value \in FieldOf(kind)
  PROVE  /\ ValidateField(kind, Written(kind, value)) = ReadOf(kind, value)
         /\ ReadOf(kind, value) = Refused <=> kind = "duration" /\ ~ IsDuration(value)
<1>1. CASE kind = "string"
  BY <1>1 DEF FieldOf, ValidateField, Written, ReadOf, IsString, Text, FormsAssumption
<1>2. CASE kind = "duration"
  BY <1>2 DEF FieldOf, ValidateField, Written, ReadOf, IsDuration, FormsAssumption
<1>3. CASE kind = "coords"
  BY <1>3 DEF FieldOf, ValidateField, Written, ReadOf, FormsAssumption
<1>4. CASE kind = "condition"
  BY <1>4, FieldTrees DEF ValidateField, Written, ReadOf
<1> QED
  BY <1>1, <1>2, <1>3, <1>4 DEF Kind

(* What ValidateCommand reads of one argument.                             *)
FieldRead(w, i) ==
  IF w.tag = "when" /\ i = 3 /\ Arg(w, i) \in {Absent, ""} THEN Absent
  ELSE ValidateField(CommandSchema[w.tag][i], Arg(w, i))

LEMMA CommandRead ==
  ASSUME NEW w, w.tag \in DOMAIN CommandSchema
  PROVE  ValidateCommand(w) =
           IF \E i \in DOMAIN CommandSchema[w.tag] : FieldRead(w, i) = Refused THEN Refused
           ELSE [type |-> w.tag, fields |-> [i \in DOMAIN CommandSchema[w.tag] |-> FieldRead(w, i)]]
BY ZenonT(40) DEF ValidateCommand, FieldRead

LEMMA FirstTwo ==
  ASSUME NEW S, NEW f \in [1..3 -> S]
  PROVE  LET short == SubSeq(f, 1, 2) IN
         DOMAIN short = 1..2 /\ short[1] = f[1] /\ short[2] = f[2]
<1> DEFINE n == 3
<1>1. n \in Nat /\ f \in [1..n -> S]
  OBVIOUS
<1> HIDE DEF n
<1>2. f \in Seq(S) /\ Len(f) = n
  BY <1>1, ListMade
<1>3. f \in Seq(S) /\ Len(f) = 3
  BY <1>2 DEF n
<1> QED
  BY <1>3

LEMMA CommandReads ==
  ASSUME FormsAssumption, NEW command \in CommandShown
  PROVE  ValidateCommand(EncodeCommand(command)) =
           IF HasBadDuration(command) THEN Refused ELSE Normal(command)
<1> DEFINE type == command.type
           fields == command.fields
           kinds == CommandSchema[type]
           args == [i \in DOMAIN kinds |-> Written(kinds[i], fields[i])]
           w == EncodeCommand(command)
<1>1. /\ type \in DOMAIN CommandSchema /\ fields \in FieldsOf(kinds)
      /\ command = [type |-> type, fields |-> fields]
  BY DEF CommandShown
<1>2. /\ DOMAIN fields = DOMAIN kinds /\ fields = [i \in DOMAIN kinds |-> fields[i]]
      /\ \A i \in DOMAIN kinds : kinds[i] \in Kind /\ fields[i] \in FieldOf(kinds[i])
  BY <1>1, CommandKinds DEF FieldsOf
<1>3. HasBadDuration(command) <=>
        \E i \in DOMAIN kinds : kinds[i] = "duration" /\ ~ IsDuration(fields[i])
  BY <1>2 DEF HasBadDuration
<1>4. w = IF type = "when" /\ fields[3] \in {"", Absent}
          THEN Array("when", SubSeq(Array(type, args).args, 1, 2)) ELSE Array(type, args)
  BY <1>2 DEF EncodeCommand, Written
<1>5. type = "when" => /\ DOMAIN kinds = 1..3 /\ fields[3] \in {"", "x"}
                       /\ kinds[1] = "condition" /\ kinds[2] = "string" /\ kinds[3] = "string"
  <2>1. SUFFICES ASSUME type = "when"
                 PROVE  /\ DOMAIN kinds = 1..3 /\ fields[3] \in {"", "x"}
                        /\ kinds[1] = "condition" /\ kinds[2] = "string" /\ kinds[3] = "string"
    OBVIOUS
  <2>2. kinds = <<"condition", "string", "string">>
    BY <2>1, CommandKinds
  <2>3. DOMAIN kinds = 1..3 /\ kinds[1] = "condition" /\ kinds[2] = "string" /\ kinds[3] = "string"
    BY <2>2
  <2>4. 3 \in DOMAIN kinds
    BY <2>3
  <2> HIDE DEF kinds, fields
  <2> QED
    BY <1>2, <2>3, <2>4 DEF FieldOf
<1>6. Absent \notin {"", "x"} /\ Refused # Absent
  BY DEF FormsAssumption, Text
<1> HIDE DEF type, fields, kinds, args
<1>7. CASE type = "when" /\ fields[3] = ""
  <2>0. DOMAIN kinds = 1..3 /\ kinds[1] = "condition" /\ kinds[2] = "string" /\ kinds[3] = "string"
    BY <1>5, <1>7
  <2>1. w = Array("when", SubSeq(args, 1, 2))
    BY <1>4, <1>7 DEF Array
  <2> DEFINE short == SubSeq(args, 1, 2)
  <2>2. DOMAIN short = 1..2 /\ short[1] = args[1] /\ short[2] = args[2]
    <3>1. args \in [1..3 -> {args[i] : i \in 1..3}]
      BY <1>5, <1>7 DEF args
    <3> HIDE DEF short
    <3> QED
      BY <3>1, FirstTwo DEF short
  <2> HIDE DEF short
  <2>3. w.tag = "when" /\ w.args = short
    BY <2>1 DEF short, Array
  <2> HIDE DEF w
  <2>4. \A i \in {1, 2} : FieldRead(w, i) = ReadOf(kinds[i], fields[i])
    <3> SUFFICES ASSUME NEW i \in {1, 2} PROVE FieldRead(w, i) = ReadOf(kinds[i], fields[i])
      OBVIOUS
    <3>1. i \in DOMAIN kinds /\ i \in DOMAIN short /\ short[i] = args[i] /\ i # 3
      BY <2>0, <2>2
    <3>2. Arg(w, i) = Written(kinds[i], fields[i])
      BY <2>3, <3>1 DEF Arg, args
    <3>3. FieldRead(w, i) = ValidateField(kinds[i], Arg(w, i))
      BY <1>7, <2>3, <3>1 DEF FieldRead, kinds
    <3> QED
      BY <1>2, <3>1, <3>2, <3>3, FieldReads
  <2>5. FieldRead(w, 3) = Absent
    BY <2>2, <2>3 DEF FieldRead, Arg
  <2>6. /\ ~ HasBadDuration(command)
        /\ \A i \in {1, 2} : ReadOf(kinds[i], fields[i]) = fields[i] /\ fields[i] # Refused
    <3>1. \A i \in DOMAIN kinds : kinds[i] # "duration"
      BY <2>0
    <3>2. \A i \in DOMAIN kinds : ReadOf(kinds[i], fields[i]) = fields[i] /\ fields[i] # Refused
      BY <1>2, <3>1, FieldReads DEF ReadOf
    <3>3. {1, 2} \subseteq DOMAIN kinds
      BY <2>0
    <3> QED
      BY <1>3, <3>1, <3>2, <3>3
  <2>7. [i \in DOMAIN kinds |-> FieldRead(w, i)] = [fields EXCEPT ![3] = Absent]
    <3>1. \A i \in 1..3 : FieldRead(w, i) = IF i = 3 THEN Absent ELSE fields[i]
      BY <2>4, <2>5, <2>6
    <3>2. fields = [i \in 1..3 |-> fields[i]]
      BY <1>2, <2>0
    <3> QED
      BY <2>0, <3>1, <3>2
  <2>8. Normal(command) = [type |-> type, fields |-> [fields EXCEPT ![3] = Absent]]
    BY <1>1, <1>7 DEF Normal, type, fields
  <2>9. ValidateCommand(w) = [type |-> "when", fields |-> [i \in DOMAIN kinds |-> FieldRead(w, i)]]
    <3>1. w.tag \in DOMAIN CommandSchema /\ CommandSchema[w.tag] = kinds
      BY <1>1, <1>7, <2>3 DEF kinds, type
    <3>2. \A i \in 1..3 : FieldRead(w, i) # Refused
      <4>1. \A i \in 1..3 : i \in {1, 2} \/ i = 3
        OBVIOUS
      <4>2. \A i \in {1, 2} : FieldRead(w, i) # Refused
        BY <2>4, <2>6
      <4>3. FieldRead(w, 3) # Refused
        BY <1>6, <2>5
      <4> QED
        BY <4>1, <4>2, <4>3
    <3> QED
      BY <2>0, <2>3, <3>1, <3>2, CommandRead
  <2> QED
    BY <1>7, <2>6, <2>7, <2>8, <2>9 DEF w
<1>8. CASE ~ (type = "when" /\ fields[3] = "")
  <2>1. w = Array(type, args)
    BY <1>4, <1>5, <1>6, <1>8
  <2>2. w.tag = type /\ w.args = args /\ DOMAIN args = DOMAIN kinds
    BY <2>1 DEF Array, args
  <2> HIDE DEF w
  <2>3. \A i \in DOMAIN kinds : FieldRead(w, i) = ReadOf(kinds[i], fields[i])
    <3> SUFFICES ASSUME NEW i \in DOMAIN kinds PROVE FieldRead(w, i) = ReadOf(kinds[i], fields[i])
      OBVIOUS
    <3>1. Arg(w, i) = Written(kinds[i], fields[i])
      BY <2>2 DEF Arg, args
    <3>2. type = "when" /\ i = 3 => Arg(w, i) = "x"
      BY <1>5, <1>8, <3>1 DEF Written
    <3>3. FieldRead(w, i) = ValidateField(kinds[i], Arg(w, i))
      BY <1>6, <2>2, <3>2 DEF FieldRead, kinds
    <3> QED
      BY <1>2, <3>1, <3>3, FieldReads
  <2>4. \A i \in DOMAIN kinds :
          ReadOf(kinds[i], fields[i]) = Refused <=> kinds[i] = "duration" /\ ~ IsDuration(fields[i])
    BY <1>2, FieldReads
  <2>5. ValidateCommand(w) =
          IF \E i \in DOMAIN kinds : FieldRead(w, i) = Refused THEN Refused
          ELSE [type |-> type, fields |-> [i \in DOMAIN kinds |-> FieldRead(w, i)]]
    BY <1>1, <2>2, CommandRead DEF kinds
  <2>6. CASE HasBadDuration(command)
    BY <1>3, <2>3, <2>4, <2>5, <2>6 DEF w
  <2>7. CASE ~ HasBadDuration(command)
    <3>1. \A i \in DOMAIN kinds : FieldRead(w, i) = fields[i] /\ FieldRead(w, i) # Refused
      BY <1>3, <2>3, <2>4, <2>7 DEF ReadOf
    <3>2. [i \in DOMAIN kinds |-> FieldRead(w, i)] = fields
      BY <1>2, <3>1
    <3>3. ValidateCommand(w) = [type |-> type, fields |-> fields]
      BY <2>5, <3>1, <3>2
    <3>4. Normal(command) = command
      BY <1>8 DEF Normal, type, fields
    <3> QED
      BY <1>1, <2>7, <3>3, <3>4 DEF w
  <2> QED
    BY <2>6, <2>7
<1> QED
  BY <1>7, <1>8

-----------------------------------------------------------------------------
(* Retry policies.                                                         *)

(* A step taken for each number up to n gives a function: what is there    *)
(* before each of the steps.                                               *)
LEMMA StepsTaken ==
  ASSUME NEW S, NEW first \in S, NEW n \in Nat, NEW step \in [1..n -> [S -> S]]
  PROVE  \E f \in [0..n -> S] : f[0] = first /\ \A i \in 1..n : f[i] = step[i][f[i - 1]]
<1> DEFINE Made(m) == \E f \in [0..m -> S] : f[0] = first /\ \A i \in 1..m : f[i] = step[i][f[i - 1]]
           made == {m \in 0..n : Made(m)}
<1>1. 0 \in made
  <2> DEFINE f == [i \in 0..0 |-> first]
  <2>1. f \in [0..0 -> S] /\ f[0] = first /\ \A i \in 1..0 : f[i] = step[i][f[i - 1]]
    OBVIOUS
  <2>2. Made(0)
    BY <2>1
  <2> HIDE DEF Made
  <2> QED
    BY <2>2
<1>2. ASSUME NEW k \in 1..n, k - 1 \in made PROVE k \in made
  <2> DEFINE m == k - 1
  <2>1. k = m + 1 /\ m \in Nat /\ m + 1 <= n
    OBVIOUS
  <2>2. PICK f \in [0..m -> S] : f[0] = first /\ \A i \in 1..m : f[i] = step[i][f[i - 1]]
    BY <1>2
  <2> HIDE DEF m
  <2> DEFINE g == [i \in 0..(m + 1) |-> IF i = m + 1 THEN step[m + 1][f[m]] ELSE f[i]]
  <2>3. step[m + 1] \in [S -> S] /\ f[m] \in S
    BY <2>1, <2>2
  <2>4. g \in [0..(m + 1) -> S]
    BY <2>1, <2>2, <2>3
  <2>5. g[0] = first
    BY <2>1, <2>2
  <2>6. ASSUME NEW i \in 1..(m + 1) PROVE g[i] = step[i][g[i - 1]]
    <3>1. CASE i = m + 1
      BY <2>1, <3>1
    <3>2. CASE i # m + 1
      BY <2>1, <2>2, <3>2
    <3> QED
      BY <3>1, <3>2
  <2> HIDE DEF g
  <2>7. Made(m + 1)
    BY <2>4, <2>5, <2>6
  <2> QED
    BY SMTT(30), <2>1, <2>7
<1>3. 0..n \subseteq made
  <2> HIDE DEF made
  <2> QED
    BY <1>1, <1>2, AllAlong
<1>4. Made(n)
  BY <1>3
<1> QED
  BY <1>4

LEMMA PowersAreNaturals ==
  ASSUME Retry!PolicyAssumption
  PROVE  Retry!PowerOfTwo \in [Retry!Iteration -> Nat]
<1> DEFINE n == Horizon
           Is(g) == g = [i \in Retry!Iteration |-> IF i = 0 THEN 1 ELSE 2 * g[i - 1]]
           step == [i \in 1..n |-> [x \in Nat |-> 2 * x]]
<1>1. n \in Nat /\ Retry!Iteration = 0..n
  BY DEF Retry!PolicyAssumption, Retry!Iteration
<1>2. PICK f \in [0..n -> Nat] : f[0] = 1 /\ \A i \in 1..n : f[i] = step[i][f[i - 1]]
  <2>1. step \in [1..n -> [Nat -> Nat]]
    OBVIOUS
  <2> DEFINE N == Nat
             one == 1
  <2>2. one \in N /\ step \in [1..n -> [N -> N]]
    BY <2>1
  <2> HIDE DEF step, n, N, one
  <2>3. \E f \in [0..n -> N] : f[0] = one /\ \A i \in 1..n : f[i] = step[i][f[i - 1]]
    BY <1>1, <2>2, StepsTaken DEF n
  <2> QED
    BY <2>3 DEF N, one
<1>3. Is(f)
  <2>1. ASSUME NEW i \in 1..n PROVE f[i] = 2 * f[i - 1]
    <3>1. i - 1 \in 0..n
      BY <1>1
    <3>2. f[i] = step[i][f[i - 1]]
      BY <1>2
    <3> QED
      BY <1>2, <3>1, <3>2
  <2> QED
    BY <1>1, <1>2, <2>1
<1>4. Retry!PowerOfTwo = CHOOSE g : Is(g)
  BY DEF Retry!PowerOfTwo
<1>5. Is(Retry!PowerOfTwo)
  <2> HIDE DEF Is
  <2> QED
    BY <1>3, <1>4
<1> DEFINE c == Retry!PowerOfTwo
           S == {i \in 0..n : c[i] \in Nat}
<1> HIDE DEF c
<1>6. 0..n \subseteq S
  <2>1. 0 \in S
    BY <1>1, <1>5 DEF c
  <2>2. ASSUME NEW i \in 1..n, i - 1 \in S PROVE i \in S
    BY <1>1, <1>5, <2>2 DEF c
  <2> HIDE DEF S
  <2> QED
    BY <1>1, <2>1, <2>2, AllAlong
<1>7. c = [i \in Retry!Iteration |-> c[i]]
  BY <1>5 DEF c
<1> QED
  BY <1>1, <1>6, <1>7 DEF c

(* The steps of a policy: a name, and a number where one is needed.        *)
PolicySteps(json) ==
  /\ Len(json) \in Nat /\ DOMAIN json = 1..Len(json) /\ (json = <<>> <=> Len(json) = 0)
  /\ \A i \in DOMAIN json :
       json[i][1] \in Retry!Primitives \/ Len(json[i]) # 1 => json[i][2] \in Nat

Policy == [Retry!Iteration -> Nat \union {NoRetry}]
Decoded == Policy \union {NoRetry, Left}

LEMMA StepsDecode ==
  ASSUME Retry!PolicyAssumption, NEW acc \in Decoded, NEW step,
         step[1] \in Retry!Primitives \/ Len(step) # 1 => step[2] \in Nat
  PROVE  Retry!DecodeStep(acc, step) \in Decoded
<1>1. ASSUME step[1] \in Retry!Primitives PROVE Retry!Primitive(step) \in Policy
  <2>1. step[2] \in Nat
    BY <1>1
  <2>2. \A a \in Nat : Retry!ConstantDelay(a) \in Policy
    BY DEF Retry!ConstantDelay, Policy
  <2>3. \A a \in Nat : Retry!LimitRetries(a) \in Policy
    BY DEF Retry!LimitRetries, Policy
  <2>4. \A a \in Nat : Retry!ExponentialBackoff(a) \in Policy
    BY PowersAreNaturals DEF Retry!ExponentialBackoff, Policy
  <2> QED
    BY <1>1, <2>1, <2>2, <2>3, <2>4 DEF Retry!Primitive, Retry!Primitives, Retry!PolicyStepSchema
<1>2. ASSUME NEW a \in Policy, NEW b \in Policy PROVE Retry!Concat(a, b) \in Policy
  BY DEF Retry!Concat, Policy, Retry!Larger
<1>3. ASSUME NEW a \in Policy, NEW m \in Nat PROVE Retry!CapDelay(m, a) \in Policy
  BY DEF Retry!CapDelay, Policy, Retry!Smaller
<1> QED
  BY <1>1, <1>2, <1>3 DEF Retry!DecodeStep, Decoded

(* What a list decodes to, step by step.                                   *)
LEMMA DecodingIs ==
  ASSUME Retry!PolicyAssumption, NEW json, PolicySteps(json)
  PROVE  \E after \in [0..Len(json) -> Decoded] :
           /\ json # <<>> => Retry!DecodePolicy(json) = after[Len(json)]
           /\ after[0] = NoRetry
           /\ \A i \in 1..Len(json) : after[i] = Retry!DecodeStep(after[i - 1], json[i])
<1> DEFINE n == Len(json)
           Is(g) == g = [i \in 0..n |-> IF i = 0 THEN NoRetry ELSE Retry!DecodeStep(g[i - 1], json[i])]
           step == [i \in 1..n |-> [acc \in Decoded |-> Retry!DecodeStep(acc, json[i])]]
<1>1. n \in Nat
  BY DEF PolicySteps
<1>2. ASSUME NEW i \in 1..n, NEW acc \in Decoded PROVE Retry!DecodeStep(acc, json[i]) \in Decoded
  BY <1>2, StepsDecode DEF PolicySteps
<1> HIDE DEF n
<1>3. PICK f \in [0..n -> Decoded] : f[0] = NoRetry /\ \A i \in 1..n : f[i] = step[i][f[i - 1]]
  <2>1. step \in [1..n -> [Decoded -> Decoded]]
    BY <1>2
  <2>2. NoRetry \in Decoded
    BY DEF Decoded
  <2> DEFINE T == Decoded
             none == NoRetry
  <2>3. none \in T /\ step \in [1..n -> [T -> T]]
    BY <2>1, <2>2
  <2> HIDE DEF step, T, none
  <2>4. \E f \in [0..n -> T] : f[0] = none /\ \A i \in 1..n : f[i] = step[i][f[i - 1]]
    BY <1>1, <2>3, StepsTaken
  <2> QED
    BY <2>4 DEF T, none
<1>4. Is(f)
  <2>1. ASSUME NEW i \in 1..n PROVE f[i] = Retry!DecodeStep(f[i - 1], json[i])
    <3>1. f[i - 1] \in Decoded
      BY <1>1, <1>3
    <3>2. f[i] = step[i][f[i - 1]]
      BY <1>3
    <3> QED
      BY <3>1, <3>2
  <2> QED
    BY <1>1, <1>3, <2>1
<1> DEFINE c == CHOOSE g : Is(g)
<1>5. Is(c)
  <2> HIDE DEF Is
  <2> QED
    BY <1>4
<1>6. json # <<>> => Retry!DecodePolicy(json) = c[n]
  BY DEF Retry!DecodePolicy, n
<1> HIDE DEF c
<1>7. c[0] = NoRetry /\ \A i \in 1..n : c[i] = Retry!DecodeStep(c[i - 1], json[i])
  BY <1>1, <1>5
<1> DEFINE S == {i \in 0..n : c[i] \in Decoded}
<1>8. 0..n \subseteq S
  <2>1. 0 \in S
    BY <1>1, <1>7 DEF Decoded
  <2>2. ASSUME NEW i \in 1..n, i - 1 \in S PROVE i \in S
    BY <1>1, <1>2, <1>7, <2>2
  <2> HIDE DEF S
  <2> QED
    BY <1>1, <2>1, <2>2, AllAlong
<1>9. c = [i \in 0..n |-> c[i]]
  BY <1>5
<1>10. c \in [0..n -> Decoded]
  BY <1>8, <1>9
<1> QED
  BY <1>6, <1>7, <1>10 DEF n

(* A list that cannot be decoded is refused, wherever it is wrong.         *)
LEMMA UndecodableIsRefused ==
  ASSUME Retry!PolicyAssumption, NEW json, PolicySteps(json), Retry!Undecodable(json)
  PROVE  Retry!DecodePolicy(json) = Left
<1>1. CASE json = <<>>
  BY <1>1 DEF Retry!DecodePolicy
<1>2. CASE json # <<>>
  <2> DEFINE n == Len(json)
             Wrong(i) == \/ json[i][1] \notin Retry!PolicyStepSchema
                         \/ json[i][1] \in Retry!Modifiers /\ Len(json[i]) = 1
                         \/ i = 1 /\ json[1][1] \in Retry!Modifiers
  <2>1. PICK after \in [0..n -> Decoded] :
          /\ Retry!DecodePolicy(json) = after[n] /\ after[0] = NoRetry
          /\ \A i \in 1..n : after[i] = Retry!DecodeStep(after[i - 1], json[i])
    BY <1>2, DecodingIs
  <2>2. n \in Nat /\ n # 0 /\ DOMAIN json = 1..n
    BY <1>2 DEF PolicySteps
  <2>3. PICK w \in 1..n : Wrong(w)
    BY <1>2, <2>2 DEF Retry!Undecodable
  <2> HIDE DEF n
  <2>4. NoRetry # Left
    BY DEF Retry!PolicyAssumption
  <2>5. after[w] = Left
    <3>1. ASSUME NEW acc, NEW step,
                 \/ step[1] \notin Retry!PolicyStepSchema
                 \/ step[1] \in Retry!Modifiers /\ Len(step) = 1
                 \/ step[1] \in Retry!Modifiers /\ acc = NoRetry
          PROVE  Retry!DecodeStep(acc, step) = Left
      BY <3>1 DEF Retry!DecodeStep, Retry!PolicyStepSchema, Retry!Primitives, Retry!Modifiers
    <3>2. after[w] = Retry!DecodeStep(after[w - 1], json[w])
      BY <2>1
    <3>3. w = 1 => after[w - 1] = NoRetry
      BY <2>1
    <3> QED
      BY <2>3, <3>1, <3>2, <3>3
  <2> DEFINE S == {i \in 0..n : i >= w => after[i] = Left}
  <2>6. 0..n \subseteq S
    <3>1. 0 \in S
      BY <2>2
    <3>2. ASSUME NEW i \in 1..n, i - 1 \in S PROVE i \in S
      <4>1. CASE i <= w
        BY <2>2, <2>5, <4>1
      <4>2. CASE i > w
        <5>1. after[i - 1] = Left
          BY <2>2, <3>2, <4>2
        <5>2. after[i] = Retry!DecodeStep(Left, json[i])
          BY <2>1, <5>1
        <5>3. after[i] = Left
          BY <5>2 DEF Retry!DecodeStep
        <5> QED
          BY <2>2, <5>3
      <4> QED
        BY <2>2, <4>1, <4>2
    <3> HIDE DEF S
    <3> QED
      BY <2>2, <3>1, <3>2, AllAlong
  <2> QED
    BY <2>1, <2>2, <2>6
<1> QED
  BY <1>1, <1>2

(* The delays a primitive has to choose from among the steps up to m, and  *)
(* what the steps up to m mean at an iteration.                            *)
Choices(json, k, i, m) ==
  {Retry!OwnDelay(json[k], i)} \union {json[j][2] : j \in {j \in (k + 1)..m : json[j][1] \in Retry!Modifiers}}

MeansAt(json, m, i, delay) ==
  IF \E j \in 1..m : json[j][1] = "limitRetries" /\ i >= json[j][2] THEN delay = NoRetry
  ELSE /\ delay \in Nat
       /\ \A k \in 1..m : json[k][1] \in Retry!Primitives =>
            \E e \in Choices(json, k, i, m) : e <= delay
       /\ \E k \in 1..m : json[k][1] \in Retry!Primitives /\ \A e \in Choices(json, k, i, m) : delay <= e

LEMMA OwnDelayIs ==
  ASSUME Retry!PolicyAssumption, NEW step, step[1] \in Retry!Primitives, step[2] \in Nat, NEW i \in Retry!Iteration
  PROVE  /\ Retry!Primitive(step) \in Policy
         /\ Retry!OwnDelay(step, i) \in Nat
         /\ Retry!Primitive(step)[i] = IF step[1] = "limitRetries" /\ i >= step[2] THEN NoRetry ELSE Retry!OwnDelay(step, i)
<1>1. Retry!PowerOfTwo[i] \in Nat
  BY PowersAreNaturals
<1>2. ASSUME NEW a \in Nat
      PROVE  /\ Retry!ConstantDelay(a) \in Policy /\ Retry!ConstantDelay(a)[i] = a
             /\ Retry!LimitRetries(a) \in Policy /\ Retry!LimitRetries(a)[i] = IF i >= a THEN NoRetry ELSE 0
  BY DEF Retry!ConstantDelay, Retry!LimitRetries, Policy
<1>3. ASSUME NEW a \in Nat
      PROVE  Retry!ExponentialBackoff(a) \in Policy /\ Retry!ExponentialBackoff(a)[i] = a * Retry!PowerOfTwo[i]
  BY PowersAreNaturals DEF Retry!ExponentialBackoff, Policy
<1>4. CASE step[1] = "constantDelay"
  BY <1>2, <1>4 DEF Retry!Primitive, Retry!OwnDelay
<1>5. CASE step[1] = "limitRetries"
  BY <1>2, <1>5 DEF Retry!Primitive, Retry!OwnDelay
<1>6. CASE step[1] = "exponentialBackoff"
  BY <1>1, <1>3, <1>6 DEF Retry!Primitive, Retry!OwnDelay
<1> QED
  BY <1>4, <1>5, <1>6 DEF Retry!Primitives, Retry!PolicyStepSchema

(* One step more: a cap lowers every choice, a primitive adds its own.     *)
LEMMA OneStepMore ==
  ASSUME Retry!PolicyAssumption, NEW json, PolicySteps(json), ~Retry!Undecodable(json),
         NEW m \in Nat, m + 1 \in 1..Len(json), NEW i \in Retry!Iteration,
         NEW acc, m = 0 => acc = NoRetry, m # 0 => acc \in Policy /\ MeansAt(json, m, i, acc[i])
  PROVE  /\ Retry!DecodeStep(acc, json[m + 1]) \in Policy
         /\ MeansAt(json, m + 1, i, Retry!DecodeStep(acc, json[m + 1])[i])
<1> DEFINE k == m + 1
           step == json[k]
           Limited(j) == json[j][1] = "limitRetries" /\ i >= json[j][2]
           Chosen(j, q) == {json[x][2] : x \in {x \in (j + 1)..q : json[x][1] \in Retry!Modifiers}}
<1>1. /\ step[1] \in Retry!PolicyStepSchema /\ ~ (step[1] \in Retry!Modifiers /\ Len(step) = 1)
      /\ m = 0 => step[1] \notin Retry!Modifiers
      /\ step[1] \in Retry!Primitives \/ Len(step) # 1 => step[2] \in Nat
  BY DEF Retry!Undecodable, PolicySteps
<1>2. NoRetry \notin Nat /\ NoRetry # Left /\ acc # Left /\ (m # 0 => acc # NoRetry)
  BY DEF Retry!PolicyAssumption, Policy
<1>3. i \in Nat
  BY DEF Retry!Iteration, Retry!PolicyAssumption
<1>4. \A j : Choices(json, j, i, m) = {Retry!OwnDelay(json[j], i)} \union Chosen(j, m)
             /\ Choices(json, j, i, k) = {Retry!OwnDelay(json[j], i)} \union Chosen(j, k)
  BY DEF Choices
<1>5. CASE step[1] \in Retry!Modifiers
  <2>1. step[2] \in Nat /\ m # 0 /\ acc \in Policy
    BY <1>1, <1>5
  <2>2. step[1] \notin Retry!Primitives /\ step[1] # "limitRetries"
    BY <1>5 DEF Retry!Modifiers, Retry!Primitives
  <2>3. Retry!DecodeStep(acc, step) = Retry!CapDelay(step[2], acc)
    <3>1. acc # NoRetry /\ Len(step) # 1
      BY <1>1, <1>2, <1>5, <2>1
    <3> HIDE DEF step
    <3> QED
      BY <1>2, <1>5, <2>2, <3>1 DEF Retry!DecodeStep
  <2>4. /\ Retry!CapDelay(step[2], acc) \in Policy
        /\ Retry!CapDelay(step[2], acc)[i] = IF acc[i] = NoRetry THEN NoRetry ELSE Retry!Smaller(step[2], acc[i])
    BY <2>1 DEF Retry!CapDelay, Policy, Retry!Smaller
  <2>5. \A j \in 1..m : Chosen(j, k) = Chosen(j, m) \union {step[2]}
    <3> TAKE j \in 1..m
    <3>1. {x \in (j + 1)..k : json[x][1] \in Retry!Modifiers} =
            {x \in (j + 1)..m : json[x][1] \in Retry!Modifiers} \union {k}
      BY <1>5
    <3> QED
      BY <3>1
  <2>6. (\E j \in 1..k : Limited(j)) <=> (\E j \in 1..m : Limited(j))
    BY <2>2
  <2> DEFINE old == acc[i]
             new == Retry!Smaller(step[2], old)
  <2>7. CASE \E j \in 1..m : Limited(j)
    <3>1. old = NoRetry
      BY <2>1, <2>7 DEF MeansAt
    <3> QED
      BY <2>3, <2>4, <2>6, <2>7, <3>1 DEF MeansAt
  <2>8. CASE ~ \E j \in 1..m : Limited(j)
    <3>1. /\ old \in Nat
          /\ \A j \in 1..m : json[j][1] \in Retry!Primitives => \E e \in Choices(json, j, i, m) : e <= old
          /\ \E j \in 1..m : json[j][1] \in Retry!Primitives /\ \A e \in Choices(json, j, i, m) : old <= e
      BY <2>1, <2>8 DEF MeansAt
    <3>2. new \in Nat /\ new <= old /\ new <= step[2] /\ (new = old \/ new = step[2])
      BY <2>1, <3>1 DEF Retry!Smaller
    <3>3. \A j \in 1..m : Choices(json, j, i, k) = Choices(json, j, i, m) \union {step[2]}
      <4> HIDE DEF Chosen
      <4> QED
        BY <1>4, <2>5
    <3> HIDE DEF old, new
    <3>4. ASSUME NEW j \in 1..m, json[j][1] \in Retry!Primitives
          PROVE  \E e \in Choices(json, j, i, k) : e <= new
      <4>1. PICK e \in Choices(json, j, i, m) : e <= old
        BY <3>1, <3>4
      <4> QED
        BY <3>2, <3>3, <4>1
    <3>5. PICK j \in 1..m : json[j][1] \in Retry!Primitives /\ \A e \in Choices(json, j, i, m) : old <= e
      BY <3>1
    <3>6. ASSUME NEW e \in Choices(json, j, i, k) PROVE new <= e
      <4>1. CASE e = step[2]
        BY <3>2, <4>1
      <4>2. CASE e \in Choices(json, j, i, m)
        <5>1. e \in Nat
          <6>1. Retry!OwnDelay(json[j], i) \in Nat
            BY <3>5, OwnDelayIs DEF PolicySteps
          <6>2. \A x \in (j + 1)..m : json[x][1] \in Retry!Modifiers => json[x][2] \in Nat
            BY <1>1 DEF Retry!Undecodable, PolicySteps
          <6> QED
            BY <1>4, <4>2, <6>1, <6>2
        <5> QED
          BY <3>1, <3>2, <3>5, <4>2, <5>1
      <4> QED
        BY <3>3, <4>1, <4>2
    <3>7. \A j1 \in 1..k : json[j1][1] \in Retry!Primitives => j1 \in 1..m
      BY <2>2
    <3>8. j \in 1..k
      OBVIOUS
    <3>9. Retry!DecodeStep(acc, step)[i] = new
      BY <1>2, <2>3, <2>4, <3>1 DEF new, old
    <3> HIDE DEF k, step
    <3>10. MeansAt(json, k, i, new)
      BY <2>6, <2>8, <3>2, <3>4, <3>5, <3>6, <3>7, <3>8 DEF MeansAt
    <3> QED
      BY <2>3, <2>4, <3>9, <3>10 DEF k, step
  <2> QED
    BY <2>7, <2>8
<1>6. CASE step[1] \in Retry!Primitives
  <2> DEFINE p == Retry!Primitive(step)
             own == Retry!OwnDelay(step, i)
  <2>1. step[2] \in Nat
    BY <1>1, <1>6
  <2>2. p \in Policy /\ own \in Nat
        /\ p[i] = IF step[1] = "limitRetries" /\ i >= step[2] THEN NoRetry ELSE own
    BY <1>6, <2>1, OwnDelayIs
  <2>3. step[1] \notin Retry!Modifiers
    BY <1>6 DEF Retry!Modifiers, Retry!Primitives
  <2>4. Retry!DecodeStep(acc, step) = IF m = 0 THEN p ELSE Retry!Concat(p, acc)
    BY <1>2, <1>6, <2>3 DEF Retry!DecodeStep
  <2>5. m # 0 => /\ Retry!Concat(p, acc) \in Policy
                 /\ Retry!Concat(p, acc)[i] = IF NoRetry \in {acc[i], p[i]} THEN NoRetry ELSE Retry!Larger(acc[i], p[i])
    BY <2>2 DEF Retry!Concat, Policy, Retry!Larger
  <2>6. Retry!DecodeStep(acc, step) \in Policy
    BY <2>2, <2>4, <2>5
  <2>7. \A j \in 1..m : Choices(json, j, i, k) = Choices(json, j, i, m)
    <3>1. \A j \in 1..m : {x \in (j + 1)..k : json[x][1] \in Retry!Modifiers} =
                          {x \in (j + 1)..m : json[x][1] \in Retry!Modifiers}
      BY <2>3
    <3> QED
      BY <3>1 DEF Choices
  <2>8. Choices(json, k, i, k) = {own}
    <3>1. {x \in (k + 1)..k : json[x][1] \in Retry!Modifiers} = {}
      OBVIOUS
    <3> QED
      BY <3>1 DEF Choices
  <2>9. (\E j \in 1..k : Limited(j)) <=> (\E j \in 1..m : Limited(j)) \/ Limited(k)
    OBVIOUS
  <2> DEFINE d == Retry!DecodeStep(acc, step)[i]
  <2>10. CASE \E j \in 1..k : Limited(j)
    <3>1. d = NoRetry
      <4>1. CASE Limited(k)
        BY <2>2, <2>4, <2>5, <4>1
      <4>2. CASE \E j \in 1..m : Limited(j)
        <5>1. m # 0 /\ acc[i] = NoRetry
          BY <4>2 DEF MeansAt
        <5> QED
          BY <2>4, <2>5, <5>1
      <4> QED
        BY <2>9, <2>10, <4>1, <4>2
    <3> HIDE DEF d
    <3>2. MeansAt(json, k, i, d)
      BY <2>10, <3>1 DEF MeansAt
    <3> QED
      BY <2>6, <3>2 DEF d
  <2>11. CASE ~ \E j \in 1..k : Limited(j)
    <3>1. p[i] = own /\ ~ \E j \in 1..m : Limited(j)
      BY <2>2, <2>9, <2>11
    <3> DEFINE Low(q, e0) == \A j \in 1..q : json[j][1] \in Retry!Primitives =>
                               \E e \in Choices(json, j, i, q) : e <= e0
               High(q, e0) == \E j \in 1..q : json[j][1] \in Retry!Primitives /\
                                \A e \in Choices(json, j, i, q) : e0 <= e
    <3>2. CASE m = 0
      <4>1. d = own
        BY <2>4, <3>1, <3>2
      <4>2. \A j \in 1..k : j = k
        BY <3>2
      <4>3. k \in 1..k
        OBVIOUS
      <4> HIDE DEF d, own, step, k
      <4>4. own <= own
        BY <2>2
      <4>5. Low(k, d)
        BY <2>8, <4>1, <4>2, <4>4
      <4>6. High(k, d)
        BY <1>6, <2>8, <4>1, <4>3, <4>4 DEF step
      <4>7. MeansAt(json, k, i, d)
        BY <2>2, <2>11, <4>1, <4>5, <4>6 DEF MeansAt
      <4> QED
        BY <2>6, <4>7 DEF d, step, k
    <3>3. CASE m # 0
      <4> DEFINE old == acc[i]
      <4>1. old \in Nat /\ Low(m, old) /\ High(m, old)
        BY <3>1, <3>3 DEF MeansAt
      <4>2. d = Retry!Larger(old, own)
        BY <1>2, <2>2, <2>4, <2>5, <3>1, <3>3, <4>1
      <4> HIDE DEF old, d, own
      <4>3. d \in Nat /\ old <= d /\ own <= d /\ (d = old \/ d = own)
        BY <2>2, <4>1, <4>2 DEF Retry!Larger
      <4>4. ASSUME NEW j \in 1..k, json[j][1] \in Retry!Primitives
            PROVE  \E e \in Choices(json, j, i, k) : e <= d
        <5>1. CASE j = k
          BY <2>8, <4>3, <5>1
        <5>2. CASE j # k
          <6>1. j \in 1..m
            BY <5>2
          <6>2. PICK e \in Choices(json, j, i, m) : e <= old
            BY <4>1, <4>4, <6>1
          <6>3. e \in Nat
            <7>1. Retry!OwnDelay(json[j], i) \in Nat
              BY <4>4, <6>1, OwnDelayIs DEF PolicySteps
            <7>2. \A x \in (j + 1)..m : json[x][1] \in Retry!Modifiers => json[x][2] \in Nat
              BY <6>1 DEF Retry!Undecodable, PolicySteps
            <7> QED
              BY <1>4, <6>2, <7>1, <7>2
          <6> QED
            BY <2>7, <4>1, <4>3, <6>1, <6>2, <6>3
        <5> QED
          BY <5>1, <5>2
      <4>5. High(k, d)
        <5>1. CASE d = own
          <6>1. k \in 1..k /\ json[k][1] \in Retry!Primitives
            BY <1>6
          <6>2. \A e \in Choices(json, k, i, k) : d <= e
            BY <2>8, <4>3, <5>1
          <6> HIDE DEF k
          <6> QED
            BY <6>1, <6>2
        <5>2. CASE d = old
          <6>1. PICK j \in 1..m : json[j][1] \in Retry!Primitives /\ \A e \in Choices(json, j, i, m) : old <= e
            BY <4>1
          <6>2. j \in 1..k /\ Choices(json, j, i, k) = Choices(json, j, i, m)
            BY <2>7
          <6> QED
            BY <5>2, <6>1, <6>2
        <5> QED
          BY <4>3, <5>1, <5>2
      <4> HIDE DEF k, step
      <4>6. MeansAt(json, k, i, d)
        BY <2>11, <4>3, <4>4, <4>5 DEF MeansAt
      <4> QED
        BY <2>6, <4>6 DEF d, step, k
    <3> QED
      BY <3>2, <3>3
  <2> QED
    BY <2>10, <2>11
<1> QED
  BY <1>1, <1>5, <1>6 DEF Retry!PolicyStepSchema, Retry!Primitives, Retry!Modifiers

(* Smallest and largest elements.                                          *)
LEMMA SmallestIs ==
  ASSUME NEW S, S \subseteq Nat, S # {}
  PROVE  Retry!Min(S) \in S /\ \A x \in S : Retry!Min(S) <= x
<1>1. PICK m \in S : \A y \in S : ~ (<<y, m>> \in OpToRel(<, Nat))
  BY NatLessThanWellFounded, WFMin
<1>2. \A y \in S : ~ (y < m)
  BY <1>1, Zenon DEF OpToRel
<1>3. \A y \in S : m <= y
  BY <1>2
<1> QED
  BY <1>3 DEF Retry!Min

LEMMA LargestIs ==
  ASSUME NEW S, S \subseteq Nat, NEW m \in S, \A x \in S : x <= m
  PROVE  Retry!Max(S) = m
<1>1. \A z \in S : (\A y \in S : z >= y) => z = m
  OBVIOUS
<1>2. \E x \in S : \A y \in S : x >= y
  OBVIOUS
<1>3. Retry!Max(S) \in S /\ \A y \in S : Retry!Max(S) >= y
  BY <1>2 DEF Retry!Max
<1> QED
  BY <1>1, <1>3

(* Every list that can be decoded means what its steps up to the last one  *)
(* mean, by induction over the steps.                                      *)
LEMMA DecodedMeans ==
  ASSUME Retry!PolicyAssumption, NEW json, PolicySteps(json), ~Retry!Undecodable(json)
  PROVE  /\ Retry!DecodePolicy(json) \in Policy
         /\ \A i \in Retry!Iteration : MeansAt(json, Len(json), i, Retry!DecodePolicy(json)[i])
<1> DEFINE n == Len(json)
<1>1. json # <<>> /\ n \in Nat /\ n # 0
  BY DEF Retry!Undecodable, PolicySteps
<1>2. PICK after \in [0..n -> Decoded] :
        /\ Retry!DecodePolicy(json) = after[n] /\ after[0] = NoRetry
        /\ \A i \in 1..n : after[i] = Retry!DecodeStep(after[i - 1], json[i])
  BY <1>1, DecodingIs
<1> HIDE DEF n
<1> DEFINE S == {m \in 0..n : m # 0 => /\ after[m] \in Policy
                                      /\ \A i \in Retry!Iteration : MeansAt(json, m, i, after[m][i])}
<1>3. 0 \in S
  BY <1>1
<1>4. ASSUME NEW k \in 1..n, k - 1 \in S PROVE k \in S
  <2> DEFINE m == k - 1
  <2>1. m \in Nat /\ m + 1 = k /\ m + 1 \in 1..Len(json)
    BY <1>1 DEF n
  <2>2. after[k] = Retry!DecodeStep(after[m], json[m + 1])
    BY <1>2, <2>1
  <2>3. m = 0 => after[m] = NoRetry
    BY <1>2
  <2>4. m # 0 => after[m] \in Policy /\ \A i \in Retry!Iteration : MeansAt(json, m, i, after[m][i])
    BY <1>4
  <2>5. 0 \in Retry!Iteration
    BY DEF Retry!Iteration, Retry!PolicyAssumption
  <2> HIDE DEF m
  <2>6. ASSUME NEW i \in Retry!Iteration
        PROVE  after[k] \in Policy /\ MeansAt(json, m + 1, i, after[k][i])
    BY <2>1, <2>2, <2>3, <2>4, OneStepMore
  <2> QED
    BY <1>1, <2>1, <2>5, <2>6
<1>5. 0..n \subseteq S
  <2> HIDE DEF S
  <2> QED
    BY <1>1, <1>3, <1>4, AllAlong
<1> QED
  BY <1>1, <1>2, <1>5 DEF n

(* The delays of the primitives are natural numbers and the smallest of    *)
(* the choices is one of them.                                             *)
LEMMA CappedIs ==
  ASSUME Retry!PolicyAssumption, NEW json, PolicySteps(json), ~Retry!Undecodable(json),
         NEW i \in Retry!Iteration, NEW k \in Retry!Named(json, Retry!Primitives)
  PROVE  /\ Choices(json, k, i, Len(json)) = {Retry!OwnDelay(json[k], i)} \union Retry!Caps(json, k)
         /\ Choices(json, k, i, Len(json)) \subseteq Nat
         /\ Retry!Capped(json, k, i) \in Choices(json, k, i, Len(json))
         /\ \A e \in Choices(json, k, i, Len(json)) : Retry!Capped(json, k, i) <= e
<1>1. k \in DOMAIN json /\ json[k][1] \in Retry!Primitives
  BY DEF Retry!Named
<1>2. DOMAIN json = 1..Len(json) /\ Len(json) \in Nat
  BY DEF PolicySteps
<1>3. Retry!OwnDelay(json[k], i) \in Nat
  BY <1>1, OwnDelayIs DEF PolicySteps
<1>4. \A j \in DOMAIN json : json[j][1] \in Retry!Modifiers => json[j][2] \in Nat
  BY DEF Retry!Undecodable, PolicySteps
<1>5. {j \in (k + 1)..Len(json) : json[j][1] \in Retry!Modifiers} = {j \in Retry!Named(json, Retry!Modifiers) : j > k}
  BY <1>1, <1>2 DEF Retry!Named
<1>6. Choices(json, k, i, Len(json)) = {Retry!OwnDelay(json[k], i)} \union Retry!Caps(json, k)
  BY <1>5 DEF Choices, Retry!Caps
<1>7. Retry!Caps(json, k) \subseteq Nat
  BY <1>4 DEF Retry!Caps, Retry!Named
<1> DEFINE C == Choices(json, k, i, Len(json))
<1>8. C \subseteq Nat /\ C # {}
  BY <1>3, <1>6, <1>7
<1>9. Retry!Capped(json, k, i) = Retry!Min(C)
  BY <1>6 DEF Retry!Capped
<1> HIDE DEF C
<1>10. Retry!Min(C) \in C /\ \A e \in C : Retry!Min(C) <= e
  BY <1>8, SmallestIs
<1> QED
  BY <1>6, <1>8, <1>9, <1>10 DEF C

(* decodePolicy: whatever list of steps a policy is written as, of any     *)
(* length and with any delays and counts, it stops at its smallest limit   *)
(* and waits as long as its slowest primitive under the caps after it, or  *)
(* is refused for one of the four reasons there are.                       *)
THEOREM PoliciesAlwaysMeanTheirSteps ==
  ASSUME Retry!PolicyAssumption, NEW json, PolicySteps(json)
  PROVE  Retry!PolicyMeansItsSteps(json)
<1>1. CASE Retry!Undecodable(json)
  BY <1>1, UndecodableIsRefused DEF Retry!PolicyMeansItsSteps
<1>2. CASE ~Retry!Undecodable(json)
  <2> DEFINE n == Len(json)
  <2>1. ASSUME NEW i \in Retry!Iteration
        PROVE  Retry!DecodePolicy(json)[i] =
                 IF \E c \in Retry!Counts(json) : i >= c THEN NoRetry
                 ELSE Retry!Max({Retry!Capped(json, k, i) : k \in Retry!Named(json, Retry!Primitives)})
    <3> DEFINE d == Retry!DecodePolicy(json)[i]
               All == {Retry!Capped(json, k, i) : k \in Retry!Named(json, Retry!Primitives)}
    <3>1. MeansAt(json, n, i, d)
      BY <1>2, DecodedMeans
    <3>2. DOMAIN json = 1..n
      BY DEF PolicySteps
    <3>3. (\E c \in Retry!Counts(json) : i >= c) <=>
             \E j \in 1..n : json[j][1] = "limitRetries" /\ i >= json[j][2]
      BY <3>2 DEF Retry!Counts, Retry!Named
    <3>4. CASE \E c \in Retry!Counts(json) : i >= c
      BY <3>1, <3>3, <3>4 DEF MeansAt
    <3>5. CASE ~ \E c \in Retry!Counts(json) : i >= c
      <4> HIDE DEF d, n
      <4>1. /\ d \in Nat
            /\ \A k \in 1..n : json[k][1] \in Retry!Primitives => \E e \in Choices(json, k, i, n) : e <= d
            /\ \E k \in 1..n : json[k][1] \in Retry!Primitives /\ \A e \in Choices(json, k, i, n) : d <= e
        BY <3>1, <3>3, <3>5 DEF MeansAt
      <4>2. \A k \in Retry!Named(json, Retry!Primitives) :
              /\ k \in 1..n /\ json[k][1] \in Retry!Primitives
              /\ Choices(json, k, i, n) \subseteq Nat
              /\ Retry!Capped(json, k, i) \in Choices(json, k, i, n)
              /\ \A e \in Choices(json, k, i, n) : Retry!Capped(json, k, i) <= e
        BY <1>2, <3>2, CappedIs DEF Retry!Named, n
      <4>3. All \subseteq Nat
        BY <4>2
      <4>4. \A x \in All : x <= d
        <5> SUFFICES ASSUME NEW k \in Retry!Named(json, Retry!Primitives) PROVE Retry!Capped(json, k, i) <= d
          OBVIOUS
        <5>1. PICK e \in Choices(json, k, i, n) : e <= d
          BY <4>1, <4>2
        <5>2. e \in Nat /\ Retry!Capped(json, k, i) \in Nat /\ Retry!Capped(json, k, i) <= e
          BY <4>2
        <5> QED
          BY <4>1, <5>1, <5>2
      <4>5. d \in All
        <5>1. PICK k \in 1..n : json[k][1] \in Retry!Primitives /\ \A e \in Choices(json, k, i, n) : d <= e
          BY <4>1
        <5>2. k \in Retry!Named(json, Retry!Primitives)
          BY <3>2, <5>1 DEF Retry!Named
        <5>3. Retry!Capped(json, k, i) \in Nat /\ d <= Retry!Capped(json, k, i)
          BY <4>2, <5>1, <5>2
        <5>4. Retry!Capped(json, k, i) \in All
          BY <5>2
        <5> QED
          BY <4>1, <4>4, <5>3, <5>4
      <4> HIDE DEF All
      <4>6. Retry!Max(All) = d
        BY <4>3, <4>4, <4>5, LargestIs
      <4> QED
        BY <3>5, <4>6 DEF d, All
    <3> QED
      BY <3>4, <3>5
  <2> QED
    BY <1>2, <2>1 DEF Retry!PolicyMeansItsSteps
<1> QED
  BY <1>1, <1>2

(* A list refused is one that cannot be decoded.                           *)
LEMMA RefusedIsUndecodable ==
  ASSUME Retry!PolicyAssumption, NEW json, PolicySteps(json), Retry!DecodePolicy(json) # Left
  PROVE  ~Retry!Undecodable(json)
BY UndecodableIsRefused

(* A policy whose last backoff is capped at what a timer can hold never    *)
(* asks for a delay that a timer of Node would turn into one millisecond.  *)
THEOREM CappedPoliciesAlwaysSlowDown ==
  ASSUME Retry!PolicyAssumption, NEW json, PolicySteps(json)
  PROVE  Retry!CappedPoliciesSlowDown(json)
<1> SUFFICES ASSUME Retry!DecodePolicy(json) # Left,
                    \A k \in Retry!Named(json, Retry!Primitives) :
                      \/ json[k][1] # "exponentialBackoff" /\ json[k][2] <= MaxTimer
                      \/ \E j \in Retry!Named(json, Retry!Modifiers) : j > k /\ json[j][2] <= MaxTimer,
                    NEW i \in Retry!Iteration, Retry!DecodePolicy(json)[i] # NoRetry
             PROVE  Retry!Slept(Retry!DecodePolicy(json)[i]) = Retry!DecodePolicy(json)[i]
  BY DEF Retry!CappedPoliciesSlowDown
<1>1. ~Retry!Undecodable(json)
  BY RefusedIsUndecodable
<1> DEFINE d == Retry!DecodePolicy(json)[i]
           n == Len(json)
<1>2. MeansAt(json, n, i, d)
  BY <1>1, DecodedMeans
<1> HIDE DEF d
<1>3. d \in Nat /\ \E k \in 1..n : json[k][1] \in Retry!Primitives /\ \A e \in Choices(json, k, i, n) : d <= e
  BY <1>2 DEF MeansAt, d
<1>4. PICK k \in 1..n : json[k][1] \in Retry!Primitives /\ \A e \in Choices(json, k, i, n) : d <= e
  BY <1>3
<1>5. k \in Retry!Named(json, Retry!Primitives)
  BY <1>4 DEF Retry!Named, PolicySteps
<1>6. /\ Choices(json, k, i, n) = {Retry!OwnDelay(json[k], i)} \union Retry!Caps(json, k)
      /\ Choices(json, k, i, n) \subseteq Nat
  BY <1>1, <1>5, CappedIs
<1>7. MaxTimer \in Nat
  BY DEF Retry!PolicyAssumption
<1>8. \E e \in Choices(json, k, i, n) : e <= MaxTimer
  <2>1. CASE json[k][1] # "exponentialBackoff" /\ json[k][2] <= MaxTimer
    <3>1. json[k][2] \in Nat
      BY <1>4 DEF PolicySteps
    <3>2. Retry!OwnDelay(json[k], i) <= MaxTimer
      BY <1>7, <2>1, <3>1 DEF Retry!OwnDelay
    <3> QED
      BY <1>6, <3>2
  <2>2. CASE \E j \in Retry!Named(json, Retry!Modifiers) : j > k /\ json[j][2] <= MaxTimer
    <3>1. \E e \in Retry!Caps(json, k) : e <= MaxTimer
      BY <2>2 DEF Retry!Caps
    <3> QED
      BY <1>6, <3>1
  <2> QED
    BY <1>5, <2>1, <2>2
<1>9. d <= MaxTimer
  <2>1. PICK e \in Choices(json, k, i, n) : e <= MaxTimer
    BY <1>8
  <2>2. e \in Nat /\ d <= e
    BY <1>4, <1>6
  <2> QED
    BY <1>3, <1>7, <2>1, <2>2
<1> QED
  BY <1>3, <1>7, <1>9 DEF Retry!Slept, d

(* retrying, retryingWhile and retryingUntil, whatever their attempts      *)
(* give: one attempt more than the smallest limit at most, none after one  *)
(* that is not tried again, and an end for a reason.                       *)
THEOREM LoopsAlwaysRespectThePolicy ==
  ASSUME Retry!PolicyAssumption, NEW json, PolicySteps(json), NEW outcomes
  PROVE  Retry!LoopsRespectThePolicy(json, outcomes)
<1> SUFFICES ASSUME Retry!DecodePolicy(json) # Left,
                    NEW loop \in {"retrying", "retryingWhile", "retryingUntil"}
             PROVE  LET ran == Retry!Run(loop, Retry!DecodePolicy(json), outcomes) IN
                    /\ \A c \in Retry!Counts(json) : ran.attempts <= c + 1
                    /\ \A i \in 0..(ran.attempts - 2) : Retry!Retries(loop, outcomes[i])
                    /\ ran.answer # "yes" => \/ ~Retry!Retries(loop, ran.answer) \/ ran.attempts = Horizon + 1
                                             \/ ran.attempts - 1 \in Retry!Counts(json)
  BY DEF Retry!LoopsRespectThePolicy
<1> DEFINE policy == Retry!DecodePolicy(json)
           Over(i) == ~Retry!Retries(loop, outcomes[i]) \/ policy[i] = NoRetry \/ i = Horizon
           ends == {i \in Retry!Iteration : Over(i)}
           last == Retry!Min(ends)
           n == Len(json)
<1>1. ~Retry!Undecodable(json)
  BY RefusedIsUndecodable
<1>2. Horizon \in Nat /\ Retry!Iteration = 0..Horizon
  BY DEF Retry!PolicyAssumption, Retry!Iteration
<1>3. last \in ends /\ \A i \in ends : last <= i
  <2>1. ends \subseteq Nat /\ Horizon \in ends
    BY <1>2
  <2> HIDE DEF ends
  <2> QED
    BY <2>1, SmallestIs
<1>4. /\ Retry!Run(loop, policy, outcomes).attempts = last + 1
      /\ Retry!Run(loop, policy, outcomes).answer = outcomes[last]
  BY DEF Retry!Run
<1>5. \A i \in Retry!Iteration : policy[i] = NoRetry <=> \E c \in Retry!Counts(json) : i >= c
  <2> TAKE i \in Retry!Iteration
  <2>1. MeansAt(json, n, i, policy[i])
    BY <1>1, DecodedMeans
  <2>2. (\E c \in Retry!Counts(json) : i >= c) <=>
             \E j \in 1..n : json[j][1] = "limitRetries" /\ i >= json[j][2]
    BY DEF Retry!Counts, Retry!Named, PolicySteps
  <2>3. NoRetry \notin Nat
    BY DEF Retry!PolicyAssumption
  <2> HIDE DEF policy
  <2> QED
    BY <2>1, <2>2, <2>3 DEF MeansAt
<1>6. Retry!Counts(json) \subseteq Nat
  BY DEF Retry!Counts, Retry!Named, PolicySteps, Retry!Primitives, Retry!PolicyStepSchema
<1> HIDE DEF policy, last
<1>7. last \in 0..Horizon /\ Over(last) /\ \A i \in 0..Horizon : Over(i) => last <= i
  BY <1>2, <1>3
<1>8. \A c \in Retry!Counts(json) : last <= c
  <2> TAKE c \in Retry!Counts(json)
  <2>1. c \in Nat
    BY <1>6
  <2>2. CASE c <= Horizon
    <3>1. policy[c] = NoRetry
      BY <1>2, <1>5, <2>1, <2>2
    <3> QED
      BY <1>2, <1>7, <2>1, <2>2, <3>1
  <2>3. CASE c > Horizon
    BY <1>2, <1>7, <2>1, <2>3
  <2> QED
    BY <1>2, <2>1, <2>2, <2>3
<1>9. \A i \in 0..(last - 1) : Retry!Retries(loop, outcomes[i])
  BY <1>2, <1>7
<1>10. \/ ~Retry!Retries(loop, outcomes[last]) \/ last = Horizon \/ last \in Retry!Counts(json)
  <2> SUFFICES ASSUME policy[last] = NoRetry PROVE last \in Retry!Counts(json)
    BY <1>7
  <2>1. PICK c \in Retry!Counts(json) : last >= c
    BY <1>2, <1>5, <1>7
  <2>2. last <= c /\ c \in Nat /\ last \in Nat
    BY <1>2, <1>6, <1>7, <1>8
  <2> QED
    BY <2>1, <2>2
<1>11. last \in Nat
  BY <1>2, <1>7
<1> QED
  BY <1>4, <1>6, <1>8, <1>9, <1>10, <1>11 DEF policy

-----------------------------------------------------------------------------
(* Schedules.                                                              *)

(* Naturals that have the first, and the next of each they have, are all.  *)
LEMMA AllNaturals ==
  ASSUME NEW S, 0 \in S, \A n \in Nat : n \in S => n + 1 \in S
  PROVE  Nat \subseteq S
<1> DEFINE out == Nat \ S
<1>1. SUFFICES ASSUME out # {} PROVE FALSE
  OBVIOUS
<1>2. PICK n \in out : \A y \in out : ~ (<<y, n>> \in OpToRel(<, Nat))
  <2>1. out \subseteq Nat
    OBVIOUS
  <2> HIDE DEF out
  <2> QED
    BY <1>1, <2>1, NatLessThanWellFounded, WFMin
<1>3. \A y \in out : ~ (y < n)
  BY <1>2, Zenon DEF OpToRel
<1>4. n # 0 /\ n - 1 \in Nat /\ n - 1 < n /\ n - 1 \notin out
  BY <1>3
<1> QED
  BY <1>4

(* A verb is a schedule or refused.                                        *)
LEMMA VerbsAreSchedules ==
  ASSUME NEW verb PROVE Hours!DecodeVerb(verb) \in (SUBSET Hours!MinuteOfWeek) \union {Refused}
<1>1. /\ \A from, to : Hours!TimeRange(from, to) \subseteq Hours!MinuteOfWeek
      /\ \A d, from, to : Hours!Block(d, from, to) \subseteq Hours!MinuteOfWeek
      /\ \A d : Hours!Day(d) \subseteq Hours!MinuteOfWeek
      /\ \A a, b : Hours!Recurring(a, b) \subseteq Hours!MinuteOfWeek
  BY DEF Hours!TimeRange, Hours!Block, Hours!Day, Hours!Recurring
<1>2. /\ \A start, amount : Hours!Duration(start, amount) \subseteq Hours!MinuteOfWeek
      /\ \A from, to : Hours!Weekdays(from, to) \subseteq Hours!MinuteOfWeek
      /\ \A from, to : Hours!Weekend(from, to) \subseteq Hours!MinuteOfWeek
      /\ Hours!Always \subseteq Hours!MinuteOfWeek /\ Hours!Never \subseteq Hours!MinuteOfWeek
  BY <1>1 DEF Hours!Duration, Hours!Weekdays, Hours!Weekend, Hours!Always, Hours!Never
<1> QED
  BY <1>1, <1>2 DEF Hours!DecodeVerb

(* The steps of a schedule: an operation and a verb, whatever the verb.    *)
ScheduleSteps(json) ==
  /\ Len(json) \in Nat /\ DOMAIN json = 1..Len(json) /\ (json = <<>> <=> Len(json) = 0)
  /\ \A i \in DOMAIN json : json[i][1] \in Hours!Op

LEMMA ComposeIs ==
  ASSUME NEW json, ScheduleSteps(json), ~Hours!Refuses(json)
  PROVE  /\ Hours!Compose(json) \in [1..Len(json) -> SUBSET Hours!MinuteOfWeek]
         /\ \A i \in 1..Len(json) : Hours!Compose(json)[i] =
              IF i = 1 THEN Hours!Verb(json, i)
              ELSE Hours!ApplyOp(Hours!Compose(json)[i - 1], Hours!Verb(json, i), json[i][1])
<1> DEFINE n == Len(json)
           Next(i, acc) == IF i = 1 THEN Hours!Verb(json, i) ELSE Hours!ApplyOp(acc, Hours!Verb(json, i), json[i][1])
           Is(g) == g = [i \in 1..n |-> Next(i, g[i - 1])]
           step == [i \in 1..n |-> [acc \in SUBSET Hours!MinuteOfWeek |-> Next(i, acc)]]
<1>1. \A i \in 1..n : Hours!Verb(json, i) \in SUBSET Hours!MinuteOfWeek
  BY VerbsAreSchedules DEF Hours!Refuses, Hours!Verb, ScheduleSteps
<1>2. ASSUME NEW i \in 1..n, NEW acc \in SUBSET Hours!MinuteOfWeek PROVE Next(i, acc) \in SUBSET Hours!MinuteOfWeek
  BY <1>1, <1>2 DEF Hours!ApplyOp, Hours!Subtract, Hours!Invert, ScheduleSteps, Hours!Op
<1>3. n \in Nat
  BY DEF ScheduleSteps
<1> HIDE DEF Next, n
<1>4. step \in [1..n -> [SUBSET Hours!MinuteOfWeek -> SUBSET Hours!MinuteOfWeek]]
  BY <1>2
<1>5. PICK f \in [0..n -> SUBSET Hours!MinuteOfWeek] : \A i \in 1..n : f[i] = step[i][f[i - 1]]
  <2> DEFINE T == SUBSET Hours!MinuteOfWeek
  <2>1. {} \in T /\ step \in [1..n -> [T -> T]]
    BY <1>4
  <2> HIDE DEF step, T
  <2>2. \E f \in [0..n -> T] : f[0] = {} /\ \A i \in 1..n : f[i] = step[i][f[i - 1]]
    BY <1>3, <2>1, StepsTaken
  <2> QED
    BY <2>2 DEF T
<1>6. \E g : Is(g)
  <2> DEFINE g == [i \in 1..n |-> f[i]]
  <2>1. ASSUME NEW i \in 1..n PROVE g[i] = Next(i, g[i - 1])
    <3>1. f[i - 1] \in SUBSET Hours!MinuteOfWeek /\ f[i] = Next(i, f[i - 1])
      <4>1. f[i - 1] \in SUBSET Hours!MinuteOfWeek /\ f[i] = step[i][f[i - 1]]
        <5>1. i - 1 \in 0..n
          BY <1>3
        <5> HIDE DEF step
        <5> QED
          BY <1>5, <5>1
      <4>2. step[i] = [acc \in SUBSET Hours!MinuteOfWeek |-> Next(i, acc)]
        OBVIOUS
      <4> HIDE DEF step
      <4> QED
        BY <4>1, <4>2
    <3>2. CASE i = 1
      BY <3>1, <3>2 DEF Next
    <3>3. CASE i # 1
      BY <1>3, <3>1, <3>3
    <3> QED
      BY <3>2, <3>3
  <2>2. Is(g)
    BY <2>1
  <2> QED
    BY <2>2
<1>7. Hours!Compose(json) = CHOOSE g : Is(g)
  BY DEF Hours!Compose, Next, n
<1>8. Is(Hours!Compose(json))
  <2> HIDE DEF Is
  <2> QED
    BY <1>6, <1>7
<1> DEFINE c == Hours!Compose(json)
<1> HIDE DEF c
<1>9. \A i \in 1..n : c[i] = Next(i, c[i - 1])
  BY <1>8 DEF c
<1>10. c = [i \in 1..n |-> c[i]]
  BY <1>8 DEF c
<1>11. \A i \in 1..n : c[i] \in SUBSET Hours!MinuteOfWeek
  <2> DEFINE good == {m \in Nat : m + 1 \in 1..n => c[m + 1] \in SUBSET Hours!MinuteOfWeek}
  <2>1. 0 \in good
    BY <1>1, <1>9 DEF Next, n
  <2>2. ASSUME NEW m \in Nat, m \in good PROVE m + 1 \in good
    <3>1. SUFFICES ASSUME m + 2 \in 1..n PROVE c[m + 2] \in SUBSET Hours!MinuteOfWeek
      BY <1>3
    <3>2. m + 1 \in 1..n /\ c[m + 1] \in SUBSET Hours!MinuteOfWeek
      BY <1>3, <2>2, <3>1
    <3>3. c[m + 2] = Next(m + 2, c[m + 1])
      BY <1>9, <3>1
    <3> QED
      BY <1>2, <3>1, <3>2, <3>3
  <2>3. Nat \subseteq good
    <3> HIDE DEF good
    <3> QED
      BY <2>1, <2>2, AllNaturals
  <2>4. ASSUME NEW i \in 1..n PROVE c[i] \in SUBSET Hours!MinuteOfWeek
    <3>1. i - 1 \in Nat /\ (i - 1) + 1 = i
      BY <1>3
    <3> QED
      BY <2>3, <3>1
  <2> QED
    BY <2>4
<1>12. c \in [1..n -> SUBSET Hours!MinuteOfWeek]
  BY <1>10, <1>11
<1> QED
  BY <1>9, <1>12 DEF Next, n, c

(* decodeSchedule: a list of steps means, of each minute of the week, what *)
(* the last step that settles it says; by induction over the steps that    *)
(* are already composed.                                                   *)
THEOREM SchedulesMeanTheLast ==
  ASSUME Hours!ScheduleAssumption, NEW json, ScheduleSteps(json)
  PROVE  Hours!StepsMeanTheLastThatDecides(json)
<1>1. CASE Hours!Refuses(json)
  BY <1>1 DEF Hours!StepsMeanTheLastThatDecides, Hours!DecodeSchedule
<1>2. CASE ~Hours!Refuses(json) /\ json = <<>>
  BY <1>2 DEF Hours!StepsMeanTheLastThatDecides, Hours!DecodeSchedule, Hours!Never
<1>3. CASE ~Hours!Refuses(json) /\ json # <<>>
  <2> DEFINE n == Len(json)
             c == Hours!Compose(json)
             Settles(i, s) == i > 1 /\ (s \in Hours!Verb(json, i) <=> json[i][1] # "intersection")
             Deciding(m, s) == {i \in 1..m : Settles(i, s)}
             Says(m, s) == IF Deciding(m, s) = {} THEN s \in Hours!Verb(json, 1)
                           ELSE \E i \in Deciding(m, s) :
                                  json[i][1] = "union" /\ \A j \in Deciding(m, s) : j <= i
             good == {m \in Nat : m + 1 \in 1..n => \A s \in Hours!MinuteOfWeek : s \in c[m + 1] <=> Says(m + 1, s)}
  <2>1. n \in Nat /\ n # 0 /\ DOMAIN json = 1..n
    BY <1>3 DEF ScheduleSteps
  <2>2. \A i \in 1..n : c[i] =
          IF i = 1 THEN Hours!Verb(json, i) ELSE Hours!ApplyOp(c[i - 1], Hours!Verb(json, i), json[i][1])
    BY <1>3, ComposeIs
  <2>3. \A i \in 1..n : json[i][1] \in {"union", "intersection", "subtract"}
    BY DEF ScheduleSteps, Hours!Op
  <2>4. c \in [1..n -> SUBSET Hours!MinuteOfWeek]
    BY <1>3, ComposeIs
  <2> HIDE DEF c, n
  <2>5. 0 \in good
    <3>1. \A s : Deciding(1, s) = {}
      OBVIOUS
    <3>2. c[1] = Hours!Verb(json, 1)
      BY <2>1, <2>2
    <3> QED
      BY <3>1, <3>2
  <2>6. ASSUME NEW m \in Nat, m \in good PROVE m + 1 \in good
    <3>1. SUFFICES ASSUME m + 2 \in 1..n, NEW s \in Hours!MinuteOfWeek
                   PROVE  s \in c[m + 2] <=> Says(m + 2, s)
      BY <2>1
    <3>2. s \in c[m + 1] <=> Says(m + 1, s)
      BY <2>1, <2>6, <3>1
    <3> DEFINE k == m + 2
    <3>3. c[k] = Hours!ApplyOp(c[m + 1], Hours!Verb(json, k), json[k][1])
      BY <2>2, <3>1
    <3>4. s \in c[k] <=> CASE json[k][1] = "union" -> s \in c[m + 1] \/ s \in Hours!Verb(json, k)
                           [] json[k][1] = "intersection" -> s \in c[m + 1] /\ s \in Hours!Verb(json, k)
                           [] json[k][1] = "subtract" -> s \in c[m + 1] /\ s \notin Hours!Verb(json, k)
      BY <2>3, <3>1, <3>3 DEF Hours!ApplyOp, Hours!Subtract, Hours!Invert
    <3>5. CASE Settles(k, s)
      <4>1. \A i \in Deciding(k, s) : i <= k
        OBVIOUS
      <4>2. k \in Deciding(k, s)
        BY <3>1, <3>5
      <4>3. Says(k, s) <=> json[k][1] = "union"
        BY <4>1, <4>2
      <4>4. s \in c[k] <=> json[k][1] = "union"
        BY <2>3, <3>1, <3>4, <3>5
      <4> QED
        BY <4>3, <4>4
    <3>6. CASE ~Settles(k, s)
      <4>1. Deciding(k, s) = Deciding(m + 1, s)
        BY <3>6
      <4>2. s \in Hours!Verb(json, k) <=> json[k][1] = "intersection"
        BY <3>6
      <4> HIDE DEF k
      <4>3. json[k][1] \in {"union", "intersection", "subtract"}
        BY <2>3, <3>1 DEF k
      <4>4. s \in c[k] <=> s \in c[m + 1]
        BY <3>4, <4>2, <4>3
      <4> QED
        BY <3>2, <4>1, <4>4 DEF k
    <3> QED
      BY <3>5, <3>6
  <2>7. Nat \subseteq good
    <3> HIDE DEF good
    <3> QED
      BY <2>5, <2>6, AllNaturals
  <2>8. \A s \in Hours!MinuteOfWeek : s \in c[n] <=> Says(n, s)
    <3>1. n - 1 \in Nat /\ (n - 1) + 1 = n /\ n \in 1..n
      BY <2>1
    <3> QED
      BY <2>7, <3>1
  <2>9. Hours!DecodeSchedule(json) = {s \in Hours!MinuteOfWeek : Says(n, s)}
    <3>1. Hours!DecodeSchedule(json) = c[n]
      BY <1>3 DEF Hours!DecodeSchedule, c, n
    <3>2. c[n] \subseteq Hours!MinuteOfWeek
      BY <2>1, <2>4
    <3> HIDE DEF Says
    <3> QED
      BY <2>8, <3>1, <3>2
  <2> QED
    BY <1>3, <2>1, <2>9 DEF Hours!StepsMeanTheLastThatDecides
<1> QED
  BY <1>1, <1>2, <1>3

(* toSchedule: the hours of activity that the codec takes are those hours  *)
(* of each active day, never none of one, and stop before the day does.    *)
THEOREM ActivityAlwaysItsHours ==
  ASSUME Hours!ScheduleAssumption,
         NEW activation \in [days : SUBSET Hours!DayNumber, from : 0..(MinutesADay - 1), to : 0..(MinutesADay - 1)]
  PROVE  Hours!ActivityIsItsHours(activation)
<1> DEFINE active == Hours!ToSchedule(activation)
<1>1. SUFFICES ASSUME activation.from < activation.to
               PROVE  Hours!ActivityIsItsHours(activation)
  BY DEF Hours!ActivityIsItsHours, Hours!ActivationDecodes
<1>2. activation.days \subseteq Hours!DayNumber /\ MinutesADay \in Nat
      /\ activation.from \in 0..(MinutesADay - 1) /\ activation.to \in 0..(MinutesADay - 1)
  BY DEF Hours!ScheduleAssumption
<1>3. active = {s \in Hours!MinuteOfWeek : /\ s.day \in activation.days
                                     /\ activation.from <= s.minute /\ ~ s.minute >= activation.to}
  <2>1. \A s \in Hours!MinuteOfWeek : s.minute \in Int
    BY <1>2 DEF Hours!MinuteOfWeek
  <2>2. \A s : s \in active <=> /\ s \in Hours!MinuteOfWeek /\ s.day \in activation.days
                                /\ activation.from <= s.minute /\ s.minute < activation.to
    BY DEF Hours!ToSchedule, Hours!Day, Hours!TimeRange
  <2>3. \A s : s \in active <=> /\ s \in Hours!MinuteOfWeek /\ s.day \in activation.days
                                /\ activation.from <= s.minute /\ ~ s.minute >= activation.to
    BY <1>2, <2>1, <2>2
  <2> HIDE DEF active
  <2> QED
    BY <2>3
<1>4. \A d \in activation.days : \E s \in active : s.day = d
  <2> TAKE d \in activation.days
  <2> DEFINE first == [day |-> d, minute |-> activation.from]
  <2>1. first \in Hours!MinuteOfWeek
    BY <1>2 DEF Hours!MinuteOfWeek
  <2>2. first.day = d /\ first.minute = activation.from
    OBVIOUS
  <2> HIDE DEF active, first
  <2> QED
    BY <1>1, <1>2, <1>3, <2>1, <2>2
<1>5. activation.days = 0..4 => active = Hours!Weekdays(activation.from, activation.to)
  BY DEF Hours!ToSchedule, Hours!Weekdays, Hours!Block
<1>6. Hours!WithBlackout(active, activation.from, activation.to) = {}
  BY DEF Hours!ToSchedule, Hours!WithBlackout, Hours!Invert
<1> QED
  BY <1>3, <1>4, <1>5, <1>6 DEF Hours!ActivityIsItsHours

-----------------------------------------------------------------------------
(* Rules, and the steps of policies and schedules.                         *)

(* A toggle keeps a list of what it lists.                                 *)
ListOf(list, T) == list \in Seq(T)

LEMMA TogglesList ==
  ASSUME NEW T, NEW list, ListOf(list, T), NEW item \in T
  PROVE  Toggled(list, item) \in Seq(T)
<1> DEFINE n == Len(list)
           S == Seq(T)
           none == <<>>
           Next(i, s) == IF list[i] = item THEN s ELSE Append(s, list[i])
           Is(g) == g = [i \in 0..n |-> IF i = 0 THEN none ELSE Next(i, g[i - 1])]
           step == [i \in 1..n |-> [s \in S |-> Next(i, s)]]
           c == CHOOSE g : Is(g)
<1>1. n \in Nat /\ DOMAIN list = 1..n /\ \A i \in 1..n : list[i] \in T
  BY ListIs DEF ListOf
<1>2. \A i \in 1..n, s \in S : Next(i, s) \in S
  BY <1>1, AppendProperties
<1>3. none \in S
  BY ShortLists
<1>4. Append(list, item) \in S
  BY AppendProperties DEF ListOf
<1>5. Toggled(list, item) = IF \E i \in DOMAIN list : list[i] = item THEN c[n] ELSE Append(list, item)
  BY DEF Toggled
<1> HIDE DEF n, S, none, Next
<1>6. step \in [1..n -> [S -> S]]
  BY <1>2
<1>7. \E f \in [0..n -> S] : f[0] = none /\ \A i \in 1..n : f[i] = step[i][f[i - 1]]
  <2> HIDE DEF step, Is, c
  <2> QED
    BY <1>1, <1>3, <1>6, StepsTaken
<1>8. PICK f \in [0..n -> S] : f[0] = none /\ \A i \in 1..n : f[i] = step[i][f[i - 1]]
  BY <1>7
<1>9. Is(f)
  <2>1. ASSUME NEW i \in 1..n PROVE f[i] = Next(i, f[i - 1])
    <3>1. f[i - 1] \in S /\ f[i] = step[i][f[i - 1]]
      BY <1>1, <1>8
    <3> QED
      BY <3>1
  <2> QED
    BY <1>1, <1>8, <2>1
<1>10. Is(c)
  <2> HIDE DEF Is
  <2> QED
    BY <1>9
<1> HIDE DEF c
<1>11. c[0] = none /\ \A i \in 1..n : c[i] = Next(i, c[i - 1])
  BY <1>1, <1>10
<1> DEFINE good == {i \in 0..n : c[i] \in S}
<1>12. 0..n \subseteq good
  <2>1. 0 \in good
    BY <1>1, <1>3, <1>11
  <2>2. ASSUME NEW i \in 1..n, i - 1 \in good PROVE i \in good
    BY <1>1, <1>2, <1>11, <2>2
  <2> HIDE DEF good
  <2> QED
    BY <1>1, <2>1, <2>2, AllAlong
<1>13. c[n] \in S
  BY <1>1, <1>12
<1> QED
  BY <1>4, <1>5, <1>13 DEF S

LEMMA ListToggled ==
  ASSUME NEW T, NEW list \in Seq(T), NEW item \in T
  PROVE  Toggled(list, item) \in Seq(T)
BY TogglesList DEF ListOf

(* The rules of the form.                                                  *)
RuleShown ==
  [type : {"slack"}, channel : {"", "x"}, message : [type : {"template"}, message : {"", "y"}],
   policy : Seq(NotifyLifecycle)]

LEMMA RulesMade == DefaultNotifyRule \in RuleShown
<1>1. <<"immediate">> \in Seq(NotifyLifecycle)
  BY ShortLists DEF NotifyLifecycle
<1> QED
  BY <1>1 DEF DefaultNotifyRule, RuleShown

LEMMA RulesStayShown ==
  ASSUME NEW rule \in RuleShown, NEW new \in RuleEdits(rule)
  PROVE  new \in RuleShown
<1>1. \A l \in NotifyLifecycle : Toggled(rule.policy, l) \in Seq(NotifyLifecycle)
  BY ListToggled DEF RuleShown
<1>2. /\ rule = [type |-> "slack", channel |-> rule.channel, message |-> rule.message, policy |-> rule.policy]
      /\ rule.channel \in {"", "x"} /\ rule.message \in [type : {"template"}, message : {"", "y"}]
      /\ rule.policy \in Seq(NotifyLifecycle)
  BY DEF RuleShown
<1>3. CASE \E l \in NotifyLifecycle : new = [rule EXCEPT !.policy = Toggled(@, l)]
  <2>1. PICK l \in NotifyLifecycle : new = [rule EXCEPT !.policy = Toggled(@, l)]
    BY <1>3
  <2> DEFINE p == Toggled(rule.policy, l)
  <2>2. new = [rule EXCEPT !.policy = p] /\ p \in Seq(NotifyLifecycle)
    BY <1>1, <2>1
  <2> HIDE DEF p
  <2> QED
    BY <1>2, <2>2 DEF RuleShown
<1>4. CASE new = [rule EXCEPT !.channel = "x"]
  BY <1>2, <1>4 DEF RuleShown
<1>5. CASE new = [rule EXCEPT !.message.message = "y"]
  <2> DEFINE m == [rule.message EXCEPT !.message = "y"]
  <2>1. m \in [type : {"template"}, message : {"", "y"}]
    BY <1>2
  <2>2. new = [rule EXCEPT !.message = m]
    BY <1>2, <1>5
  <2> HIDE DEF m
  <2> QED
    BY <2>1, <2>2 DEF RuleShown
<1> QED
  BY <1>3, <1>4, <1>5 DEF RuleEdits

LEMMA RulesRead ==
  ASSUME NEW rule \in RuleShown
  PROVE  ValidateNotifyRule(EncodeNotifyRule(rule)) = rule
<1> DEFINE w == EncodeNotifyRule(rule)
<1>1. /\ rule = [type |-> "slack", channel |-> rule.channel, message |-> rule.message, policy |-> rule.policy]
      /\ rule.message = [type |-> "template", message |-> rule.message.message]
      /\ rule.channel \in {"", "x"} /\ rule.message.message \in {"", "y"}
      /\ rule.policy \in Seq(NotifyLifecycle)
  BY DEF RuleShown
<1>2. /\ w.type.tag = "slack" /\ w.channel = rule.channel /\ w.policy = rule.policy
      /\ w.message = rule.message.message
  <2>1. rule.type = "slack"
    BY DEF RuleShown
  <2>2. /\ w.type = Array("slack", <<>>) /\ w.channel = rule.channel /\ w.policy = rule.policy
        /\ w.message = rule.message.message
    BY <2>1 DEF EncodeNotifyRule
  <2>3. Array("slack", <<>>).tag = "slack"
    BY DEF Array
  <2> QED
    BY <2>2, <2>3
<1>3. \A i \in DOMAIN rule.policy : rule.policy[i] \in NotifyLifecycle
  BY <1>1, ListIs
<1> HIDE DEF w
<1>4. IsString(w.channel) /\ IsString(w.message)
  BY <1>1, <1>2 DEF IsString, Text
<1>5. ValidateNotifyRule(w) =
        [type |-> w.type.tag, channel |-> w.channel, policy |-> w.policy,
         message |-> [type |-> "template", message |-> w.message]]
  BY <1>2, <1>3, <1>4 DEF ValidateNotifyRule, NotifyTargetSchema
<1> QED
  BY <1>1, <1>2, <1>5 DEF w

(* The steps of a policy and of a schedule.                                *)
PolicyStep == Retry!FormSteps({1, 5})
ScheduleStep ==
  Hours!Op \X UNION {Hours!VerbsOf(n) : n \in DOMAIN Hours!ScheduleStepSchema}

LEMMA PoliciesStaySteps ==
  ASSUME NEW json \in Seq(PolicyStep), NEW max, NEW new \in PolicyEdits(json, max)
  PROVE  new \in Seq(PolicyStep)
<1>1. Retry!StepFor("constantDelay") \in PolicyStep
  BY DEF PolicyStep, Retry!StepFor, Retry!FormSteps, Retry!PolicyStepSchema
<1>2. CASE new \in Added(json, Retry!StepFor("constantDelay"), max)
  BY <1>1, <1>2, ListAdded
<1>3. CASE new \in Removed(json)
  BY <1>3, ListRemoved
<1>4. CASE new \in Reordered(json)
  BY <1>4, ListReordered
<1>5. CASE new \in Replaced(json, PolicyStep)
  BY <1>5, ListReplaced DEF Replaced
<1> QED
  BY <1>2, <1>3, <1>4, <1>5 DEF PolicyEdits, PolicyStep

LEMMA FormPolicies ==
  ASSUME NEW json \in Seq(PolicyStep)
  PROVE  PolicySteps(json)
<1>1. \A s \in PolicyStep : s[2] \in Nat
  BY DEF PolicyStep, Retry!FormSteps
<1> QED
  BY <1>1, ListIs DEF PolicySteps

LEMMA FormSchedules ==
  ASSUME NEW json \in Seq(ScheduleStep)
  PROVE  ScheduleSteps(json)
<1>1. \A s \in ScheduleStep : s[1] \in Hours!Op
  BY DEF ScheduleStep
<1> QED
  BY <1>1, ListIs DEF ScheduleSteps

-----------------------------------------------------------------------------
(* The wizard.                                                             *)

(* What the wizard shows at each of its steps, and what it saves.          *)
Runs == {Leaf(RunsWorkflow(n)) : n \in {"x", "y"}}
WholePipeline == Runs \union {Node(k, nodes) : k \in {"or", "and"}, nodes \in Seq(Runs) \ {<<>>}}
WholeTripwire ==
  [predicate : {Leaf(Truthy("x"))}, retry : Seq(PolicyStep) \ {<<>>},
   notify : Seq({DefaultNotifyRule}), pipeline : WholePipeline]
WizardDraft ==
  [step : 1..6, factName : {"", "x"}, selectedWorkflows : Seq({"x", "y"}), pipelineOp : {"or", "and"},
   retry : Seq(PolicyStep), notify : Seq({DefaultNotifyRule}), saved : {Absent} \union WholeTripwire]
InOrder(w) ==
  /\ w.step # 1 => w.factName # ""
  /\ w.step \in {4, 5, 6} => w.selectedWorkflows # <<>>
  /\ w.step \in {5, 6} => w.retry # <<>>
WizardShown == {w \in WizardDraft : InOrder(w)}

LEMMA StepsAre ==
  /\ Len(Steps) = 6
  /\ Steps[1] = "Fact" /\ Steps[2] = "Grace" /\ Steps[3] = "Pipeline" /\ Steps[4] = "Retry"
  /\ Steps[5] = "Notify" /\ Steps[6] = "Review"
BY DEF Steps

LEMMA FirstInOrder ==
  ASSUME NEW w, w.step = 1
  PROVE  InOrder(w)
<1>1. 1 \notin {4, 5, 6} /\ 1 \notin {5, 6}
  OBVIOUS
<1> QED
  BY Zenon, <1>1 DEF InOrder

LEMMA StaysInOrder ==
  ASSUME NEW v, InOrder(v), NEW w, w.step = v.step,
         w.step # 1 => w.factName = v.factName,
         w.step # 3 => w.selectedWorkflows = v.selectedWorkflows, w.step # 4 => w.retry = v.retry
  PROVE  InOrder(w)
<1>1. 3 \notin {4, 5, 6} /\ 4 \notin {5, 6}
  OBVIOUS
<1> QED
  BY Zenon, <1>1 DEF InOrder

LEMMA WizardStarts == InitialState \in WizardShown
<1>1. <<>> \in Seq({"x", "y"}) /\ <<>> \in Seq(PolicyStep) /\ <<>> \in Seq({DefaultNotifyRule})
  BY ShortLists
<1>2. InitialState \in WizardDraft /\ InitialState.step = 1
  BY <1>1 DEF InitialState, WizardDraft
<1> QED
  BY <1>2, FirstInOrder DEF WizardShown

LEMMA PipelinesBuilt ==
  ASSUME NEW selected \in Seq({"x", "y"}), selected # <<>>, NEW op \in {"or", "and"}
  PROVE  BuildPipeline(selected, op) \in WholePipeline
<1>1. Len(selected) \in Nat /\ Len(selected) # 0 /\ DOMAIN selected = 1..Len(selected)
      /\ \A i \in DOMAIN selected : selected[i] \in {"x", "y"}
  BY ListIs
<1>2. CASE Len(selected) = 1
  <2>1. selected[1] \in {"x", "y"}
    BY <1>1
  <2>2. BuildPipeline(selected, op) = Leaf(RunsWorkflow(selected[1]))
    BY <1>2 DEF BuildPipeline
  <2> QED
    BY <2>1, <2>2 DEF WholePipeline, Runs
<1>3. CASE Len(selected) # 1
  <2> DEFINE nodes == [i \in DOMAIN selected |-> Leaf(RunsWorkflow(selected[i]))]
             n == Len(selected)
  <2>1. BuildPipeline(selected, op) = Node(op, nodes)
    BY <1>3 DEF BuildPipeline
  <2>2. nodes \in [1..n -> Runs] /\ n \in Nat
    BY <1>1 DEF Runs
  <2> HIDE DEF nodes, n
  <2>3. nodes \in Seq(Runs) /\ Len(nodes) = n
    BY <2>2, ListMade
  <2>4. nodes # <<>>
    BY <1>1, <2>3, ListIs DEF n
  <2> QED
    BY <2>1, <2>3, <2>4 DEF WholePipeline
<1> QED
  BY <1>2, <1>3

LEMMA EditsStayInOrder ==
  ASSUME NEW w \in WizardShown, NEW new \in WizardEdits(w)
  PROVE  new \in WizardShown
<1>1. w \in WizardDraft /\ InOrder(w) /\ w.step \in 1..6
  BY DEF WizardShown, WizardDraft
<1>2. /\ Steps[w.step] = "Fact" => w.step = 1
      /\ Steps[w.step] = "Pipeline" => w.step = 3
      /\ Steps[w.step] = "Retry" => w.step = 4
  BY <1>1, StepsAre
<1>3. CASE Steps[w.step] = "Fact"
  <2>1. PICK n \in {"", "x"} : new = [w EXCEPT !.factName = n]
    BY <1>3 DEF WizardEdits
  <2>2. new \in WizardDraft /\ new.step = w.step
    BY <1>1, <2>1 DEF WizardDraft
  <2> QED
    BY <1>2, <1>3, <2>2, FirstInOrder DEF WizardShown
<1>4. CASE Steps[w.step] = "Pipeline"
  <2>1. CASE \E n \in {"x", "y"} : new = [w EXCEPT !.selectedWorkflows = Toggled(@, n)]
    <3>1. PICK n \in {"x", "y"} : new = [w EXCEPT !.selectedWorkflows = Toggled(@, n)]
      BY <2>1
    <3> DEFINE s == Toggled(w.selectedWorkflows, n)
    <3>2. s \in Seq({"x", "y"})
      BY <1>1, ListToggled DEF WizardDraft
    <3>3. new = [w EXCEPT !.selectedWorkflows = s]
      BY <3>1
    <3> HIDE DEF s
    <3>4. /\ new \in WizardDraft /\ new.step = w.step /\ new.factName = w.factName
          /\ new.retry = w.retry
      BY <1>1, <3>2, <3>3 DEF WizardDraft
    <3> QED
      BY <1>1, <1>2, <1>4, <3>4, StaysInOrder DEF WizardShown
  <2>2. CASE \E o \in {"or", "and"} : new = [w EXCEPT !.pipelineOp = o]
    <3>1. /\ new \in WizardDraft /\ new.step = w.step /\ new.factName = w.factName
          /\ new.retry = w.retry /\ new.selectedWorkflows = w.selectedWorkflows
      BY <1>1, <2>2 DEF WizardDraft
    <3> QED
      BY <1>1, <3>1, StaysInOrder DEF WizardShown
  <2> QED
    BY <1>4, <2>1, <2>2 DEF WizardEdits
<1>5. CASE Steps[w.step] = "Retry"
  <2>1. PICK r \in PolicyEdits(w.retry, MaxItems) : new = [w EXCEPT !.retry = r]
    BY <1>5 DEF WizardEdits
  <2>2. r \in Seq(PolicyStep)
    BY <1>1, PoliciesStaySteps DEF WizardDraft
  <2>3. /\ new \in WizardDraft /\ new.step = w.step /\ new.factName = w.factName
        /\ new.selectedWorkflows = w.selectedWorkflows
    BY <1>1, <2>1, <2>2 DEF WizardDraft
  <2> QED
    BY <1>1, <1>2, <1>5, <2>3, StaysInOrder DEF WizardShown
<1>6. CASE Steps[w.step] = "Notify"
  <2>1. PICK n \in Added(w.notify, DefaultNotifyRule, 1) \union Removed(w.notify) :
          new = [w EXCEPT !.notify = n]
    BY <1>6 DEF WizardEdits
  <2>2. n \in Seq({DefaultNotifyRule})
    <3> DEFINE T == {DefaultNotifyRule}
    <3>1. w.notify \in Seq(T) /\ DefaultNotifyRule \in T
      BY <1>1 DEF WizardDraft
    <3> HIDE DEF T
    <3> QED
      BY <2>1, <3>1, ListAdded, ListRemoved DEF T
  <2>3. /\ new \in WizardDraft /\ new.step = w.step /\ new.factName = w.factName
        /\ new.selectedWorkflows = w.selectedWorkflows /\ new.retry = w.retry
    BY <1>1, <2>1, <2>2 DEF WizardDraft
  <2> QED
    BY <1>1, <2>3, StaysInOrder DEF WizardShown
<1> QED
  BY <1>3, <1>4, <1>5, <1>6 DEF WizardEdits

LEMMA WizardStaysInOrder ==
  ASSUME draft \in WizardShown, Wizard
  PROVE  draft' \in WizardShown
<1>1. draft \in WizardDraft /\ InOrder(draft) /\ draft.step \in 1..6
  BY DEF WizardShown, WizardDraft
<1>2. CASE draft' \in WizardEdits(draft)
  BY <1>2, EditsStayInOrder
<1>3. CASE draft.step < Len(Steps) /\ CanNext(draft) /\ draft' = [draft EXCEPT !.step = @ + 1]
  <2> DEFINE s == draft.step + 1
  <2>1. draft.step \in 1..5 /\ s \in 1..6 /\ draft' = [draft EXCEPT !.step = s]
    BY <1>1, <1>3, StepsAre
  <2>2. /\ draft.step = 1 => draft.factName # ""
        /\ draft.step = 3 => draft.selectedWorkflows # <<>>
        /\ draft.step = 4 => draft.retry # <<>>
    BY <1>3, StepsAre DEF CanNext
  <2>3. /\ s \in {4, 5, 6} => draft.step = 3 \/ draft.step \in {4, 5, 6}
        /\ s \in {5, 6} => draft.step = 4 \/ draft.step \in {5, 6}
    BY <2>1
  <2> HIDE DEF s
  <2>4. /\ draft' \in WizardDraft /\ draft'.step = s /\ draft'.factName = draft.factName
        /\ draft'.selectedWorkflows = draft.selectedWorkflows /\ draft'.retry = draft.retry
    BY <1>1, <2>1 DEF WizardDraft
  <2>5. InOrder(draft')
    BY Zenon, <1>1, <2>2, <2>3, <2>4 DEF InOrder
  <2> QED
    BY <2>4, <2>5 DEF WizardShown
<1>4. CASE draft' = [draft EXCEPT !.step = IF @ = 1 THEN 1 ELSE @ - 1]
  <2> DEFINE s == IF draft.step = 1 THEN 1 ELSE draft.step - 1
  <2>1. s \in 1..6 /\ s <= draft.step /\ draft' = [draft EXCEPT !.step = s]
    BY <1>1, <1>4
  <2> HIDE DEF s
  <2>2. /\ draft' \in WizardDraft /\ draft'.step = s /\ draft'.factName = draft.factName
        /\ draft'.selectedWorkflows = draft.selectedWorkflows /\ draft'.retry = draft.retry
    BY <1>1, <2>1 DEF WizardDraft
  <2>3. /\ s # 1 => draft.step # 1
        /\ s \in {4, 5, 6} => draft.step \in {4, 5, 6}
        /\ s \in {5, 6} => draft.step \in {5, 6}
    BY <1>1, <2>1
  <2>4. InOrder(draft')
    BY Zenon, <1>1, <2>2, <2>3 DEF InOrder
  <2> QED
    BY <2>2, <2>4 DEF WizardShown
<1>5. CASE draft' = InitialState
  BY <1>5, WizardStarts
<1>6. CASE Steps[draft.step] = "Review" /\ draft' = [InitialState EXCEPT !.saved = BuildTripwire(draft)]
  <2>1. draft.step = 6
    BY <1>1, <1>6, StepsAre
  <2>2. draft.factName = "x" /\ draft.selectedWorkflows # <<>> /\ draft.retry # <<>>
    <3>1. 6 # 1 /\ 6 \in {4, 5, 6} /\ 6 \in {5, 6}
      OBVIOUS
    <3>2. draft.factName # "" /\ draft.selectedWorkflows # <<>> /\ draft.retry # <<>>
      BY Zenon, <1>1, <2>1, <3>1 DEF InOrder
    <3>3. draft.factName \in {"", "x"}
      BY <1>1 DEF WizardDraft
    <3> QED
      BY <3>2, <3>3
  <2> DEFINE t == BuildTripwire(draft)
  <2>3. t \in WholeTripwire
    <3>1. BuildPipeline(draft.selectedWorkflows, draft.pipelineOp) \in WholePipeline
      BY <1>1, <2>2, PipelinesBuilt DEF WizardDraft
    <3> QED
      BY <1>1, <2>2, <3>1 DEF BuildTripwire, WholeTripwire, WizardDraft
  <2> HIDE DEF t
  <2>4. draft' = [InitialState EXCEPT !.saved = t]
    BY <1>6 DEF t
  <2>5. InitialState \in WizardDraft /\ InitialState.step = 1
    BY WizardStarts DEF WizardShown, InitialState
  <2>6. draft' \in WizardDraft /\ draft'.step = 1
    BY <2>3, <2>4, <2>5 DEF WizardDraft
  <2> QED
    BY <2>6, FirstInOrder DEF WizardShown
<1> QED
  BY <1>2, <1>3, <1>4, <1>5, <1>6 DEF Wizard

LEMMA WholePipelinesRead ==
  ASSUME FormsAssumption, NEW pipeline \in WholePipeline
  PROVE  /\ ValidateTree("pipeline", EncodeTree(pipeline)) = pipeline
         /\ Leaf(RunsWorkflow("")) \notin {Items(pipeline)[i] : i \in DOMAIN Items(pipeline)}
<1>1. Height \in Nat /\ Height >= 2 /\ "pipeline" \in Language
  BY DEF FormsAssumption, Language
<1>2. Runs \subseteq Shown[0]["pipeline"]
  <2>1. Shown[0]["pipeline"] = ShownOver("pipeline", Under(0, "pipeline"))
    BY <1>1, ShownIs
  <2>2. \A n \in {"x", "y"} : RunsWorkflow(n) \in LeafOf("pipeline")
    BY DEF RunsWorkflow, LeafOf, WorkflowLeaf, Text
  <2> QED
    BY <2>1, <2>2 DEF Runs, ShownOver
<1>3. pipeline \in Shown[1]["pipeline"]
  <2> DEFINE S == Shown[0]["pipeline"]
  <2>1. Shown[1]["pipeline"] = ShownOver("pipeline", S)
    BY <1>1, ShownIs DEF Under
  <2>2. CASE pipeline \in Runs
    <3>1. S \subseteq Shown[1]["pipeline"]
      BY <1>1, ShownDeeper
    <3> QED
      BY <1>2, <2>2, <3>1
  <2>3. CASE \E k \in {"or", "and"}, nodes \in Seq(Runs) \ {<<>>} : pipeline = Node(k, nodes)
    <3>1. PICK k \in {"or", "and"}, nodes \in Seq(Runs) \ {<<>>} : pipeline = Node(k, nodes)
      BY <2>3
    <3> HIDE DEF S
    <3>2. nodes \in Seq(S)
      <4>1. \A i \in DOMAIN nodes : nodes[i] \in S
        BY <1>2, ListIs DEF S
      <4> QED
        BY <4>1, ListWithin
    <3> QED
      BY <2>1, <3>1, <3>2 DEF ShownOver, Connectives
  <2> QED
    BY <2>2, <2>3 DEF WholePipeline
<1>4. ReadsBack(Height, "pipeline", pipeline)
  <2>1. Shown[1]["pipeline"] \subseteq Shown[Height - 1]["pipeline"]
    BY <1>1, ShownDeeper
  <2>2. Height - 1 \in 0..(Height - 1) /\ (Height - 1) + 1 = Height
    BY <1>1
  <2> QED
    BY <1>1, <1>3, <2>1, <2>2, ShownReads
<1>5. Leaf(RunsWorkflow("")) \notin Runs
  BY DEF Runs, Leaf, RunsWorkflow
<1>6. \A i \in DOMAIN Items(pipeline) : Items(pipeline)[i] \in Runs
  <2>1. CASE pipeline \in Runs
    <3>1. Items(pipeline) = <<pipeline>>
      BY <2>1 DEF Runs, Leaf, Items
    <3> QED
      BY <2>1, <3>1
  <2>2. CASE \E k \in {"or", "and"}, nodes \in Seq(Runs) \ {<<>>} : pipeline = Node(k, nodes)
    <3>1. PICK k \in {"or", "and"}, nodes \in Seq(Runs) \ {<<>>} : pipeline = Node(k, nodes)
      BY <2>2
    <3>2. Items(pipeline) = nodes
      BY <3>1 DEF Items, Node
    <3> QED
      BY <3>1, <3>2, ListIs
  <2> QED
    BY <2>1, <2>2 DEF WholePipeline
<1> QED
  BY <1>4, <1>5, <1>6 DEF ReadsBack, EncodeTree, ValidateTree

-----------------------------------------------------------------------------
(* The forms.                                                              *)

(* What each form shows, whatever the edits that led there.                *)
ActivationShown ==
  [days : SUBSET Hours!DayNumber, from : 0..(MinutesADay - 1), to : 0..(MinutesADay - 1)]

TreeIsShown == form \in Language => draft \in Shown[Nesting[form]][form]
CommandIsShown == form = "command" => draft \in CommandShown
RuleIsShown == form = "rule" => draft \in RuleShown
PolicyIsShown == form = "policy" => draft \in Seq(PolicyStep)
ScheduleIsShown == form = "schedule" => draft \in Seq(ScheduleStep)
ActivationIsShown == form = "activation" => draft \in ActivationShown
WizardIsShown == form = "wizard" => draft \in WizardShown

FormsInv ==
  /\ TreeIsShown /\ CommandIsShown /\ RuleIsShown /\ PolicyIsShown
  /\ ScheduleIsShown /\ ActivationIsShown /\ WizardIsShown

LEMMA FormsApart ==
  /\ {"command", "rule", "policy", "schedule", "activation", "wizard", "closed"} \intersect Language = {}
BY DEF Language

LEMMA FormsStart ==
  ASSUME FormsAssumption, FormsInit
  PROVE  FormsInv
<1>1. CASE form \in Language /\ draft = Leaf(DefaultLeaf(form))
  <2>1. Nesting[form] \in 0..Height
    BY <1>1 DEF FormsAssumption
  <2>2. DefaultLeaf(form) \in LeafOf(form)
    BY <1>1, LeavesOffered
  <2>3. draft \in ShownOver(form, Under(Nesting[form], form))
    BY <1>1, <2>2 DEF ShownOver
  <2>4. TreeIsShown
    BY <1>1, <2>1, <2>3, ShownIs DEF TreeIsShown
  <2> QED
    BY <1>1, <2>4, FormsApart DEF FormsInv, CommandIsShown, RuleIsShown, PolicyIsShown,
       ScheduleIsShown, ActivationIsShown, WizardIsShown
<1>2. ASSUME form \notin Language, CommandIsShown, RuleIsShown, PolicyIsShown,
             ScheduleIsShown, ActivationIsShown, WizardIsShown
      PROVE  FormsInv
  BY <1>2 DEF FormsInv, TreeIsShown
<1>3. CASE form = "command" /\ draft = CommandFor("restartApp")
  BY <1>2, <1>3, CommandsMade, CommandKinds, FormsApart DEF CommandIsShown, RuleIsShown, PolicyIsShown,
     ScheduleIsShown, ActivationIsShown, WizardIsShown
<1>4. CASE form = "rule" /\ draft = DefaultNotifyRule
  BY <1>2, <1>4, RulesMade, FormsApart DEF CommandIsShown, RuleIsShown, PolicyIsShown,
     ScheduleIsShown, ActivationIsShown, WizardIsShown
<1>5. CASE form \in {"policy", "schedule"} /\ draft = <<>>
  BY <1>2, <1>5, ShortLists, FormsApart DEF CommandIsShown, RuleIsShown, PolicyIsShown,
     ScheduleIsShown, ActivationIsShown, WizardIsShown
<1>6. CASE form = "activation" /\ draft = [days |-> {0}, from |-> 1, to |-> 2]
  <2>1. draft \in ActivationShown
    <3>1. MinutesADay \in Nat /\ MinutesADay > 2
      BY DEF FormsAssumption, Hours!ScheduleAssumption
    <3>2. 1 \in 0..(MinutesADay - 1) /\ 2 \in 0..(MinutesADay - 1) /\ {0} \subseteq Hours!DayNumber
      BY <3>1 DEF Hours!DayNumber
    <3> QED
      BY <1>6, <3>2 DEF ActivationShown
  <2> QED
    BY <1>2, <1>6, <2>1, FormsApart DEF CommandIsShown, RuleIsShown, PolicyIsShown,
       ScheduleIsShown, ActivationIsShown, WizardIsShown
<1>7. CASE form = "wizard" /\ draft = InitialState
  BY <1>2, <1>7, WizardStarts, FormsApart DEF CommandIsShown, RuleIsShown, PolicyIsShown,
     ScheduleIsShown, ActivationIsShown, WizardIsShown
<1> QED
  BY <1>1, <1>3, <1>4, <1>5, <1>6, <1>7 DEF FormsInit

LEMMA SchedulesStaySteps ==
  ASSUME draft \in Seq(ScheduleStep), EditSchedule
  PROVE  draft' \in Seq(ScheduleStep)
<1> DEFINE verbs == UNION {Hours!VerbsOf(n) : n \in DOMAIN Hours!ScheduleStepSchema}
           first == <<"union", Hours!VerbFor("always")>>
<1>1. ScheduleStep = Hours!Op \X verbs
  BY DEF ScheduleStep
<1>2. first \in ScheduleStep
  <2>1. "always" \in DOMAIN Hours!ScheduleStepSchema
    BY DEF Hours!ScheduleStepSchema
  <2>2. Hours!VerbFor("always") \in verbs
    BY <2>1 DEF Hours!VerbsOf
  <2>3. "union" \in Hours!Op
    BY DEF Hours!Op
  <2> HIDE DEF verbs
  <2> QED
    BY <1>1, <2>2, <2>3
<1>3. CASE draft' \in Added(draft, first, MaxSteps)
  <2> HIDE DEF first
  <2> QED
    BY <1>2, <1>3, ListAdded
<1>4. CASE draft' \in Removed(draft)
  BY <1>4, ListRemoved
<1>5. CASE draft' \in Reordered(draft)
  BY <1>5, ListReordered
<1> HIDE DEF verbs
<1>6. \A i \in DOMAIN draft : draft[i][1] \in Hours!Op /\ draft[i][2] \in verbs
  BY <1>1, ListIs
<1>7. CASE \E i \in DOMAIN draft \ {1} : \E o \in Hours!Op : draft' = [draft EXCEPT ![i] = <<o, draft[i][2]>>]
  <2>1. PICK i \in DOMAIN draft, o \in Hours!Op : draft' = [draft EXCEPT ![i] = <<o, draft[i][2]>>]
    BY <1>7
  <2>2. <<o, draft[i][2]>> \in ScheduleStep
    BY <1>1, <1>6
  <2> QED
    BY <2>1, <2>2, ListReplaced
<1>8. CASE \E i \in DOMAIN draft : \E v \in verbs : draft' = [draft EXCEPT ![i] = <<draft[i][1], v>>]
  <2>1. PICK i \in DOMAIN draft, v \in verbs : draft' = [draft EXCEPT ![i] = <<draft[i][1], v>>]
    BY <1>8
  <2>2. <<draft[i][1], v>> \in ScheduleStep
    BY <1>1, <1>6
  <2> QED
    BY <2>1, <2>2, ListReplaced
<1> DEFINE ops == UNION {{[draft EXCEPT ![i] = <<o, draft[i][2]>>] : o \in Hours!Op} : i \in DOMAIN draft \ {1}}
           picked == UNION {{[draft EXCEPT ![i] = <<draft[i][1], v>>] : v \in verbs} : i \in DOMAIN draft}
<1>9. draft' \in Added(draft, first, MaxSteps) \union Removed(draft) \union Reordered(draft)
                \union ops \union picked
  BY DEF EditSchedule, verbs
<1>10. CASE draft' \in ops
  BY <1>7, <1>10
<1>11. CASE draft' \in picked
  BY <1>8, <1>11
<1> QED
  BY <1>3, <1>4, <1>5, <1>9, <1>10, <1>11

LEMMA HoursStayShown ==
  ASSUME draft \in ActivationShown, EditActivation
  PROVE  draft' \in ActivationShown
<1>1. CASE \E d \in Hours!DayNumber :
             draft' = [draft EXCEPT !.days = IF d \in @ THEN @ \ {d} ELSE @ \union {d}]
  <2>1. PICK d \in Hours!DayNumber :
          draft' = [draft EXCEPT !.days = IF d \in @ THEN @ \ {d} ELSE @ \union {d}]
    BY <1>1
  <2> DEFINE days == IF d \in draft.days THEN draft.days \ {d} ELSE draft.days \union {d}
  <2>2. days \in SUBSET Hours!DayNumber
    BY DEF ActivationShown
  <2>3. draft' = [draft EXCEPT !.days = days]
    BY <2>1
  <2> HIDE DEF days
  <2> QED
    BY <2>2, <2>3 DEF ActivationShown
<1>2. CASE \E t \in 0..(MinutesADay - 1) :
             draft' \in {[draft EXCEPT !.from = t], [draft EXCEPT !.to = t]}
  BY <1>2 DEF ActivationShown
<1> QED
  BY <1>1, <1>2 DEF EditActivation

(* No control leads a form out of what it shows.                           *)
LEMMA FormsStay ==
  ASSUME FormsAssumption, FormsInv, [FormsNext]_formVars
  PROVE  FormsInv'
<1> USE DEF FormsInv
<1>1. ASSUME form' = form, form \notin Language, CommandIsShown', RuleIsShown', PolicyIsShown',
             ScheduleIsShown', ActivationIsShown', WizardIsShown'
      PROVE  FormsInv'
  BY <1>1 DEF TreeIsShown
<1>2. CASE EditTree
  <2>1. form \in Language /\ form' = form /\ draft' \in TreeEdits(form, draft, Nesting[form])
    BY <1>2 DEF EditTree
  <2>2. Nesting[form] \in 0..(Height - 1) /\ draft \in Shown[Nesting[form]][form]
    BY <2>1 DEF FormsAssumption, TreeIsShown
  <2>3. draft' \in Shown[Nesting[form]][form]
    BY <2>1, <2>2, TreesStayShown
  <2> QED
    BY <2>1, <2>3, FormsApart DEF TreeIsShown, CommandIsShown, RuleIsShown, PolicyIsShown,
       ScheduleIsShown, ActivationIsShown, WizardIsShown
<1>3. CASE EditCommand
  <2>1. form = "command" /\ form' = form /\ draft' \in CommandShown
    BY <1>3, CommandsStayShown DEF EditCommand, CommandIsShown
  <2> QED
    BY <1>1, <2>1, FormsApart DEF CommandIsShown, RuleIsShown, PolicyIsShown,
       ScheduleIsShown, ActivationIsShown, WizardIsShown
<1>4. CASE EditRule
  <2>1. form = "rule" /\ form' = form /\ draft' \in RuleShown
    BY <1>4, RulesStayShown DEF EditRule, RuleIsShown
  <2> QED
    BY <1>1, <2>1, FormsApart DEF CommandIsShown, RuleIsShown, PolicyIsShown,
       ScheduleIsShown, ActivationIsShown, WizardIsShown
<1>5. CASE EditPolicy
  <2>1. form = "policy" /\ form' = form /\ draft' \in Seq(PolicyStep)
    BY <1>5, PoliciesStaySteps DEF EditPolicy, PolicyIsShown
  <2> QED
    BY <1>1, <2>1, FormsApart DEF CommandIsShown, RuleIsShown, PolicyIsShown,
       ScheduleIsShown, ActivationIsShown, WizardIsShown
<1>6. CASE EditSchedule
  <2>1. form = "schedule" /\ form' = form /\ draft' \in Seq(ScheduleStep)
    BY <1>6, SchedulesStaySteps DEF EditSchedule, ScheduleIsShown
  <2> QED
    BY <1>1, <2>1, FormsApart DEF CommandIsShown, RuleIsShown, PolicyIsShown,
       ScheduleIsShown, ActivationIsShown, WizardIsShown
<1>7. CASE EditActivation
  <2>1. form = "activation" /\ form' = form /\ draft' \in ActivationShown
    BY <1>7, HoursStayShown DEF EditActivation, ActivationIsShown
  <2> QED
    BY <1>1, <2>1, FormsApart DEF CommandIsShown, RuleIsShown, PolicyIsShown,
       ScheduleIsShown, ActivationIsShown, WizardIsShown
<1>8. CASE Wizard
  <2>1. form = "wizard" /\ form' = form /\ draft' \in WizardShown
    BY <1>8, WizardStaysInOrder DEF Wizard, WizardIsShown
  <2> QED
    BY <1>1, <2>1, FormsApart DEF CommandIsShown, RuleIsShown, PolicyIsShown,
       ScheduleIsShown, ActivationIsShown, WizardIsShown
<1>9. CASE UNCHANGED formVars
  BY <1>9 DEF formVars, TreeIsShown, CommandIsShown, RuleIsShown, PolicyIsShown,
     ScheduleIsShown, ActivationIsShown, WizardIsShown
<1> QED
  BY <1>2, <1>3, <1>4, <1>5, <1>6, <1>7, <1>8, <1>9 DEF FormsNext

(* What a form shows is what it says it means.                             *)
LEMMA ShownMeansWhatItSays ==
  ASSUME FormsAssumption, FormsInv
  PROVE  FormsSayWhatTheyMean
<1>1. FormsBuildWhatDecodes
  <2>1. ASSUME form \in Language PROVE ValidateTree(form, EncodeTree(draft)) = draft
    <3>1. /\ Height \in Nat /\ Nesting[form] \in 0..Height /\ Height - 1 \in Nesting[form]..Height
          /\ Height - 1 \in 0..(Height - 1) /\ (Height - 1) + 1 = Height
      BY <2>1 DEF FormsAssumption
    <3>2. draft \in Shown[Nesting[form]][form]
      BY <2>1 DEF FormsInv, TreeIsShown
    <3>3. Shown[Nesting[form]][form] \subseteq Shown[Height - 1][form]
      BY <2>1, <3>1, ShownDeeper
    <3>4. ReadsBack(Height, form, draft)
      BY <2>1, <3>1, <3>2, <3>3, ShownReads
    <3> QED
      BY <3>4 DEF ReadsBack, EncodeTree, ValidateTree
  <2> QED
    BY <2>1, CommandReads, RulesRead DEF FormsBuildWhatDecodes, FormsInv, CommandIsShown, RuleIsShown
<1>2. WizardSavesWholeTripwires
  <2> SUFFICES ASSUME form = "wizard", draft.saved # Absent
               PROVE  /\ draft.saved.predicate # Leaf(Truthy(""))
                      /\ draft.saved.retry # <<>>
                      /\ Leaf(RunsWorkflow("")) \notin
                           {Items(draft.saved.pipeline)[i] : i \in DOMAIN Items(draft.saved.pipeline)}
                      /\ ValidateTree("pipeline", EncodeTree(draft.saved.pipeline)) = draft.saved.pipeline
    BY DEF WizardSavesWholeTripwires
  <2> DEFINE t == draft.saved
  <2>1. t \in WholeTripwire
    BY DEF FormsInv, WizardIsShown, WizardShown, WizardDraft
  <2> HIDE DEF t
  <2>2. t.predicate = Leaf(Truthy("x")) /\ t.retry # <<>> /\ t.pipeline \in WholePipeline
    BY <2>1 DEF WholeTripwire
  <2>3. Leaf(Truthy("x")) # Leaf(Truthy(""))
    BY DEF Leaf, Truthy
  <2> QED
    BY <2>2, <2>3, WholePipelinesRead DEF t
<1>3. PoliciesMeanTheirSteps
  <2> SUFFICES ASSUME form = "policy"
               PROVE  /\ Retry!PolicyMeansItsSteps(draft)
                      /\ Retry!CappedPoliciesSlowDown(draft)
                      /\ \A outcomes \in Outcomes : Retry!LoopsRespectThePolicy(draft, outcomes)
    BY DEF PoliciesMeanTheirSteps
  <2>1. PolicySteps(draft) /\ Retry!PolicyAssumption
    BY FormPolicies DEF FormsInv, PolicyIsShown, FormsAssumption
  <2> QED
    BY <2>1, PoliciesAlwaysMeanTheirSteps, CappedPoliciesAlwaysSlowDown, LoopsAlwaysRespectThePolicy
<1>4. SchedulesMeanTheirSteps
  <2>1. Hours!ScheduleAssumption
    BY DEF FormsAssumption
  <2>2. ASSUME form = "schedule" PROVE Hours!StepsMeanTheLastThatDecides(draft)
    <3>1. ScheduleSteps(draft)
      BY <2>2, FormSchedules DEF FormsInv, ScheduleIsShown
    <3> QED
      BY <2>1, <3>1, SchedulesMeanTheLast
  <2>3. ASSUME form = "activation" PROVE Hours!ActivityIsItsHours(draft)
    <3>1. draft \in ActivationShown
      BY <2>3 DEF FormsInv, ActivationIsShown
    <3> QED
      BY <2>1, <3>1, ActivityAlwaysItsHours DEF ActivationShown
  <2> QED
    BY <2>2, <2>3 DEF SchedulesMeanTheirSteps
<1> QED
  BY <1>1, <1>2, <1>3, <1>4 DEF FormsSayWhatTheyMean

(* However long an operator edits a form, what it shows is what its codec  *)
(* accepts and reads back, and behaves as its steps say: trees of any      *)
(* depth, lists of any length, days of any length.                         *)
THEOREM FormsAlwaysSayWhatTheyMean ==
  ASSUME FormsAssumption
  PROVE  FormsSpec => []FormsSayWhatTheyMean
<1>1. FormsInit => FormsInv
  BY FormsStart
<1>2. FormsInv /\ [FormsNext]_formVars => FormsInv'
  BY FormsStay
<1>3. FormsInv => FormsSayWhatTheyMean
  BY ShownMeansWhatItSays
<1> QED
  BY <1>1, <1>2, <1>3, PTL DEF FormsSpec
=============================================================================
