---------------------------- MODULE MCOperations ----------------------------
(* The values of the constants of Operations for TLC.                      *)
EXTENDS Operations, TLC

CONSTANTS
  w1, w2, u1, u2, s1, s2, o1, o2, c1, c2, h1, h2

-----------------------------------------------------------------------------
(* The registry: a camera of the seed, a list of Suitest's with another, an*)
(* operator's three edits and an assignment of a host.                     *)
LabCamera ==
  [label |-> "seed", controlled |-> FALSE, capture |-> None, adbId |-> None]
LabSeed == [Empty EXCEPT !.cameras = "c1" :> LabCamera]
LabEdits ==
  {Edit("cameras", "update", "v1", [label |-> "local"]),
   Edit("cameras", "remove", "c1", None),
   Edit("tvs", "remove", "t1", None)}
LabList ==
  [EmptySuitest EXCEPT
     !.devices = "t1" :> [customName |-> None, model |-> "m", ip |-> None],
     !.captures = "v1" :> [customName |-> None, name |-> "n"]]
LabLists == {LabList}
LabSlots == {s1, s2}
LabHost == [id |-> "h1", entry |-> [target |-> "ip"]]

-----------------------------------------------------------------------------
(* Pipelines over two cameras, one of which a remediation reboots; a       *)
(* workflow that runs itself, one that branches and one nobody configured. *)
Cmd(type) == [type |-> type]
SomeWorkflows ==
  [restart |-> <<Cmd("app"), [type |-> "await", cond |-> "fact"]>>,
   reboot  |-> <<Cmd("reboot"), Cmd("waitForDevice")>>,
   cycle   |-> <<Cmd("sleep"), [type |-> "run", name |-> "cycle"]>>,
   branch  |-> <<[type |-> "when", cond |-> "probe", then |-> "reboot", else |-> None],
                 [type |-> "run", name |-> "restart"]>>]
RunOf(id, name) == [type |-> "workflow", id |-> id, name |-> name]
If(id, cond) == [type |-> "condition", id |-> id, cond |-> cond]
AllOf(parts) == [type |-> "and", parts |-> parts]
AnyOf(parts) == [type |-> "or", parts |-> parts]
NotOf(part) == [type |-> "not", part |-> part]
SomePipelines ==
  {AllOf(<<If(1, "probe"), AnyOf(<<RunOf(2, "restart"), NotOf(RunOf(3, "cycle"))>>)>>),
   AnyOf(<<AllOf(<<NotOf(If(1, "fact")), RunOf(2, "branch")>>), RunOf(3, "reboot"), RunOf(4, "nowhere")>>)}

TwoPhones == {c1, c2}
TwoEndpoints == {h1, h2}
OneRegistry == {[camera |-> c1, host |-> c1 :> h1 @@ c2 :> h2]}

-----------------------------------------------------------------------------
(* A connection to a phone that may answer at two ports, through lookups of*)
(* at most two records, some of another host or with a port that is none.  *)
LookupRecord == [ip : {"here", "there", None}, port : {1, 2, 70000}, sane : BOOLEAN]
ShortAnswers == UNION {[1 .. n -> LookupRecord] : n \in 0 .. 2}
TwoPorts == {1, 2}

-----------------------------------------------------------------------------
(* Two operators on the settings page, over a list of policies and a card  *)
(* of two fields, one of which is optional and not set yet.                *)
TwoOperators == {o1, o2}
OneList == {"recovery"}
TwoFields == {"port", "path"}
OneOptional == {"path"}
TwoValues == {0, 1}
EmptyFile == [recovery |-> <<>>, port |-> 0, path |-> Absent]

-----------------------------------------------------------------------------
(* Two registry pages.  The lab has a PC, a control unit, a TV of both and *)
(* a camera of the seed; Suitest has a capture device for the TV, whose    *)
(* camera was removed.  An import brings it back, without the TV, and      *)
(* finds that the control unit is a PC too.                                *)
ScreenUnits(type) == [u0 |-> [name |-> "u", type |-> "drive"], u1 |-> [name |-> "u", type |-> type]]
ScreenCaptures == "v1" :> [customName |-> None, name |-> "n", assigned |-> "t1"]
ScreenFirst ==
  [controlUnits |-> ScreenUnits("candybox"), captures |-> ScreenCaptures,
   devices |-> "t1" :> [customName |-> None, model |-> "m", ip |-> None, units |-> <<"u0", "u1">>]]
ScreenLater == [ScreenFirst EXCEPT !.controlUnits = ScreenUnits("drive"), !.devices = <<>>]
ScreenDb ==
  LET synced == SyncedFrom(Seeded(LabSeed), ScreenFirst)
      removed == Edit("cameras", "remove", "v1", None)
  IN  [synced EXCEPT !.lab = Applied(@, removed)]

TwoPages == {o1, o2}
ScreenDbs == {ScreenDb}
ScreenLists == {ScreenLater}

-----------------------------------------------------------------------------
TwoWires == {w1, w2}
TwoRules == {u1, u2}

(* The forms: how deep their trees are nested.                             *)
FormNesting == [fact |-> 2, condition |-> 1, pipeline |-> 2]

=============================================================================
