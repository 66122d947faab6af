------------------------------- MODULE MCPages -------------------------------
(* What the service knows and how it reaches those who look at it: the live *)
(* feeds up to the pages that show them (Feed), and one phone with the runs *)
(* that provision it (Provisioning).  The two share no state, so a          *)
(* behaviour picks one of them, its scene, and the other stands still.      *)
EXTENDS Feed, Provisioning

CONSTANTS k1, k2, r1, r2

VARIABLE scene

pagesVars == <<scene, vars, provisioningVars>>

TwoKeys == {k1, k2}
TwoRuns == {r1, r2}

(* A phone that passes every check, one never seen before, one whose        *)
(* permission was taken away, and one with an old agent that was signed by  *)
(* somebody else and never opened: it takes an uninstall, and two passes.   *)
Healthy ==
  [installed |-> TRUE, foreign |-> FALSE, version |-> Expected, granted |-> TRUE, exempt |-> TRUE,
   service |-> TRUE, opened |-> TRUE, front |-> TRUE, due |-> FALSE, wifi |-> TRUE, usb |-> TRUE,
   network |-> TRUE]
Bare ==
  [installed |-> FALSE, foreign |-> FALSE, version |-> 1, granted |-> FALSE, exempt |-> FALSE,
   service |-> FALSE, opened |-> FALSE, front |-> FALSE, due |-> FALSE, wifi |-> FALSE, usb |-> TRUE,
   network |-> TRUE]
Foreign ==
  [Healthy EXCEPT !.version = 1, !.foreign = TRUE, !.service = FALSE, !.opened = FALSE,
                  !.front = FALSE, !.wifi = FALSE]
Revoked == [Healthy EXCEPT !.granted = FALSE, !.wifi = FALSE]
SomePhones == {Healthy, Bare, Foreign, Revoked}

PagesInit ==
  \/ /\ scene = "feed" /\ Init
     /\ phone = Bare /\ actors = [a \in Actors |-> IdleActor]
     /\ facts = Unknown /\ activity = "none" /\ disturbed = FALSE /\ left = 0
  \/ /\ scene = "phone" /\ ProvisioningInit
     /\ kind = "logs" /\ epoch = 0 /\ nextId = 0 /\ buffer = <<>> /\ current = NoTable
     /\ tail = Closed /\ page = "gone" /\ answer = None /\ table = NoTable
     /\ lines = <<>> /\ pending = <<>> /\ seen = None /\ status = "connecting" /\ lost = {}
     /\ spent = [emits |-> 0, drops |-> 0, restarts |-> 0]

PagesNext ==
  /\ UNCHANGED scene
  /\ \/ scene = "feed" /\ Next /\ UNCHANGED provisioningVars
     \/ scene = "phone" /\ ProvisioningNext /\ UNCHANGED vars

(* The timers of the agent fire, Android recreates its service, the reader  *)
(* comes round, and a read or a step that has begun ends.                   *)
PhoneFairness ==
  /\ WF_provisioningVars(scene = "phone" /\ Reconcile)
  /\ WF_provisioningVars(scene = "phone" /\ Tick)
  /\ WF_provisioningVars(scene = "phone" /\ Recreated)
  /\ WF_provisioningVars(scene = "phone" /\ Refreshes)
  /\ \A a \in Actors : /\ WF_provisioningVars(scene = "phone" /\ ReadAgentStatus(a))
                       /\ WF_provisioningVars(scene = "phone" /\ Converge(a))
  /\ \A r \in Runs : /\ WF_provisioningVars(scene = "phone" /\ (RunStep(r) \/ Uninstalls(r)
                                                             \/ Reinstalls(r) \/ PackageGone(r)))
                     /\ WF_provisioningVars(scene = "phone" /\ SettleEnds(r))

PagesSpec == PagesInit /\ [][PagesNext]_pagesVars /\ Fairness /\ PhoneFairness

(* Every variable of the feeds and of the phone keeps its shape, and the    *)
(* scene does not change.                                                   *)
TypesOK == scene \in {"feed", "phone"} /\ TypeOK /\ ProvisioningTypeOK

(* A settled page shows what is true, and no toast or line twice.           *)
FeedsAreExact == SettledIsCurrent /\ HandedOverOnce

(* A provisioning run that nothing disturbs succeeds, and what it says of   *)
(* the phone is true.                                                       *)
ProvisioningIsHonest == UndisturbedProvisioningSucceeds

(* In the end the facts show a phone that has a network, and its settings   *)
(* are back.                                                                *)
PhonesSettle == (scene = "phone" => FactsShowThePhone) /\ SettingsComeBack

=============================================================================
