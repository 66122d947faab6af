---------------------------- MODULE Provisioning ----------------------------
(***************************************************************************)
(* One phone, the agent on it, and the service that provisions it.         *)
(*                                                                         *)
(* A provisioning run reads the status of the agent over ADB, applies the  *)
(* steps that are missing, reads again, and gives up after a number of     *)
(* passes.  Nothing keeps two runs off one phone.  A reader publishes the  *)
(* status as facts, at its own times, and so does every read of a run.     *)
(* Both reach the phone over its network: without one no command gets      *)
(* through, a run fails, and the reader leaves the facts as they were.     *)
(*                                                                         *)
(* The agent is a foreground service that writes two settings back when    *)
(* Android clears them: at its start, when the network returns, when a     *)
(* setting changes and once a minute.  Without the permission the host     *)
(* grants it writes nothing.                                               *)
(***************************************************************************)
EXTENDS Naturals, Sequences

CONSTANTS
  Runs,           \* the provisioning runs that may overlap
  Reader,         \* the tracker of the service
  Phones,         \* the phones to begin with
  Expected,       \* the version the configuration names
  MaxPasses,      \* MAX_PASSES
  MaxEvents       \* bound: runs, commands that fail and what happens to the phone, together

VARIABLES
  phone,          \* the phone: the application, the settings and the agent
  actors,         \* the runs and the reader
  facts,          \* what the fact table says of the agent
  activity,       \* what the activity row says of the last run
  disturbed,      \* history: a mishap, runs that overlapped, or a launch without effect
  left            \* how much of the bound is left

provisioningVars == <<phone, actors, facts, activity, disturbed, left>>

Actors == Runs \union {Reader}

(* What a run is at while it applies its steps: a step, or the second and  *)
(* the third command of an install that was refused.                       *)
Steps == {"apply", "uninstall", "reinstall"}

PhoneShape ==
  [installed : BOOLEAN, foreign : BOOLEAN, version : Nat, granted : BOOLEAN, exempt : BOOLEAN,
   service : BOOLEAN, opened : BOOLEAN, front : BOOLEAN, due : BOOLEAN, wifi : BOOLEAN, usb : BOOLEAN,
   network : BOOLEAN]

(* A phone begins with a network, since losing it is one of the mishaps.   *)
ASSUME ProvisioningAssumption ==
  /\ Reader \notin Runs /\ Expected \in Nat /\ MaxEvents \in Nat
  /\ MaxPasses \in Nat /\ MaxPasses >= 3
  /\ \A p \in Phones : p \in PhoneShape /\ p.network

-----------------------------------------------------------------------------
(* The status, as one shell script on the phone prints it.                 *)
AgentStatus(p) ==
  [installed |-> p.installed, permissionGranted |-> p.granted,
   wifiDebuggingEnabled |-> p.wifi, usbDebuggingEnabled |-> p.usb,
   dozeExempt |-> p.exempt, serviceRunning |-> p.service,
   versionCode |-> IF p.installed THEN p.version ELSE 0]

Checks == {"installed", "permissionGranted", "wifiDebuggingEnabled", "usbDebuggingEnabled",
           "dozeExempt", "serviceRunning"}

IsHealthy(status) == \A check \in Checks : status[check]

(* The facts: one per check, and one for all of them.                      *)
ToFacts(status) == [checks |-> {c \in Checks : status[c]}, provisioned |-> IsHealthy(status)]
Unknown == [checks |-> {}, provisioned |-> FALSE]

NeedsUpgrade(status) == status.versionCode \in 1 .. (Expected - 1)

(* Defect: the permission is granted when the agent runs already.          *)
Defect_Plan(status) ==
  IF ~ status.installed THEN <<"Install", "ExemptDoze", "LaunchOnce">>
  ELSE IF ~ IsHealthy(status) THEN <<"Grant">> ELSE <<>>

(* The steps that are missing, in the order that binds.                    *)
Plan(status) ==
  IF ~ status.installed THEN <<"Install", "Grant", "ExemptDoze", "LaunchOnce">>
  ELSE (IF NeedsUpgrade(status) THEN <<"Install">> ELSE <<>>)
       \o (IF ~ status.permissionGranted THEN <<"Grant">> ELSE <<>>)
       \o (IF ~ status.dozeExempt THEN <<"ExemptDoze">> ELSE <<>>)
       \o (IF NeedsUpgrade(status) \/ \E c \in Checks \ {"installed", "dozeExempt"} : ~ status[c]
             THEN <<"LaunchOnce">> ELSE <<>>)

-----------------------------------------------------------------------------
(* What the steps do to the phone.                                         *)

Uninstalled(p) ==
  [p EXCEPT !.installed = FALSE, !.foreign = FALSE, !.granted = FALSE, !.exempt = FALSE,
            !.service = FALSE, !.opened = FALSE, !.front = FALSE, !.due = FALSE]

(* The package replaces one of the same signature and keeps its grant; the *)
(* process ends.                                                           *)
Installed(p) ==
  [p EXCEPT !.installed = TRUE, !.version = Expected, !.service = FALSE, !.front = FALSE, !.due = FALSE]

Started(p) == [p EXCEPT !.service = TRUE, !.opened = TRUE, !.due = TRUE]

(* `am start`: the activity is created and starts the service; one that is *)
(* open already may only come to the front.                                *)
Launches(p) == {[Started(p) EXCEPT !.front = TRUE]} \union (IF p.front THEN {p} ELSE {})

(* A package of another signature is refused, and has to be uninstalled.   *)
Refused(p) == p.installed /\ p.foreign

-----------------------------------------------------------------------------
IdleActor == [at |-> "idle", pass |-> 0, steps |-> <<>>, copy |-> Unknown]

ProvisioningInit ==
  /\ phone \in Phones
  /\ actors = [a \in Actors |-> IdleActor]
  /\ facts = Unknown /\ activity = "none" /\ disturbed = FALSE
  /\ left = MaxEvents

Costs == left > 0 /\ left' = left - 1
Move(a, to) == actors' = [actors EXCEPT ![a] = to]

Provisions(r) ==
  /\ actors[r].at = "idle" /\ Costs
  /\ Move(r, [IdleActor EXCEPT !.at = "read", !.pass = 1])
  /\ activity' = "provisioning"
  /\ disturbed' = (disturbed \/ \E other \in Runs \ {r} : actors[other].at # "idle")
  /\ UNCHANGED <<phone, facts>>

(* The reader's tick, or a phone that has just appeared in the list: one   *)
(* that ADB does not list as a device is passed over.                      *)
Refreshes ==
  /\ actors[Reader].at = "idle" /\ phone.network
  /\ Move(Reader, [IdleActor EXCEPT !.at = "read"])
  /\ UNCHANGED <<phone, facts, activity, disturbed, left>>

(* The script runs on the phone; its answer is on its way.                 *)
ReadAgentStatus(a) ==
  /\ actors[a].at = "read" /\ phone.network
  /\ Move(a, [actors[a] EXCEPT !.at = "answer", !.copy = AgentStatus(phone)])
  /\ UNCHANGED <<phone, facts, activity, disturbed, left>>

Ends(r, how) == Move(r, IdleActor) /\ activity' = how

(* Defect: a pass is counted before it has begun.                          *)
Defect_IsLastPass(a) == actors[a].pass + 1 >= MaxPasses

(* The last pass only reads.                                               *)
IsLastPass(a) == actors[a].pass >= MaxPasses

(* Defect: what a reader finds is not published.                           *)
Defect_RunsPublish(a) ==
  /\ actors[a].at = "answer"
  /\ facts' = IF a = Reader THEN facts ELSE ToFacts(actors[a].copy)
  /\ IF a = Reader THEN Move(a, IdleActor) /\ UNCHANGED activity
     ELSE LET status == actors[a].copy IN
          IF IsHealthy(status) THEN Ends(a, "provisioned")
          ELSE IF IsLastPass(a) \/ Plan(status) = <<>> THEN Ends(a, "failed")
          ELSE /\ Move(a, [actors[a] EXCEPT !.at = "apply", !.steps = Plan(status), !.copy = Unknown])
               /\ UNCHANGED activity
  /\ UNCHANGED <<phone, disturbed, left>>

(* Every read publishes.  A run goes on with the steps that are missing,   *)
(* unless the phone is healthy, the passes are used up or no step applies. *)
Converge(a) ==
  /\ actors[a].at = "answer"
  /\ facts' = ToFacts(actors[a].copy)
  /\ IF a = Reader THEN Move(a, IdleActor) /\ UNCHANGED activity
     ELSE LET status == actors[a].copy IN
          IF IsHealthy(status) THEN Ends(a, "provisioned")
          ELSE IF IsLastPass(a) \/ Plan(status) = <<>> THEN Ends(a, "failed")
          ELSE /\ Move(a, [actors[a] EXCEPT !.at = "apply", !.steps = Plan(status), !.copy = Unknown])
               /\ UNCHANGED activity
  /\ UNCHANGED <<phone, disturbed, left>>

(* After the steps the status is read again, after a launch only when the  *)
(* agent has had its time.                                                 *)
StepDone(r) ==
  LET rest == Tail(actors[r].steps) IN
    Move(r, IF rest # <<>> THEN [actors[r] EXCEPT !.steps = rest, !.at = "apply"]
            ELSE [actors[r] EXCEPT !.steps = <<>>, !.pass = @ + 1,
                    !.at = IF actors[r].steps = <<"LaunchOnce">> THEN "settle" ELSE "read"])

RunStep(r) ==
  /\ actors[r].at = "apply" /\ phone.network
  /\ CASE actors[r].steps[1] = "Install" ->
            \/ /\ Refused(phone) /\ UNCHANGED phone
               /\ Move(r, [actors[r] EXCEPT !.at = "uninstall"])
            \/ /\ ~ Refused(phone) /\ phone' = Installed(phone) /\ StepDone(r)
       [] actors[r].steps[1] = "Grant" ->
            phone.installed /\ phone' = [phone EXCEPT !.granted = TRUE] /\ StepDone(r)
       [] actors[r].steps[1] = "ExemptDoze" ->
            phone.installed /\ phone' = [phone EXCEPT !.exempt = TRUE] /\ StepDone(r)
       [] actors[r].steps[1] = "LaunchOnce" ->
            phone.installed /\ phone' \in Launches(phone) /\ StepDone(r)
  /\ disturbed' = (disturbed \/ (actors[r].steps[1] = "LaunchOnce" /\ phone' = phone))
  /\ UNCHANGED <<facts, activity, left>>

(* The package that was refused is removed, and installed again: whatever  *)
(* another run has put there in the meantime.                              *)
Uninstalls(r) ==
  /\ actors[r].at = "uninstall" /\ phone.network /\ phone.installed
  /\ phone' = Uninstalled(phone)
  /\ Move(r, [actors[r] EXCEPT !.at = "reinstall"])
  /\ UNCHANGED <<facts, activity, disturbed, left>>

Reinstalls(r) ==
  /\ actors[r].at = "reinstall" /\ phone.network
  /\ phone' = Installed(phone) /\ StepDone(r)
  /\ UNCHANGED <<facts, activity, disturbed, left>>

(* SETTLE_MS is three times the delay of the agent's reconcile.            *)
SettleEnds(r) ==
  /\ actors[r].at = "settle" /\ ~ phone.due
  /\ Move(r, [actors[r] EXCEPT !.at = "read"])
  /\ UNCHANGED <<phone, facts, activity, disturbed, left>>

(* The command of an actor ends without an answer: the run has failed; what*)
(* the reader could not read stays as it was.                              *)
Fails(a) ==
  /\ IF a = Reader THEN Move(a, IdleActor) /\ UNCHANGED activity ELSE Ends(a, "failed")
  /\ UNCHANGED <<phone, facts>>

InCommand(a) == actors[a].at \notin {"idle", "settle"}

CommandFails(a) ==
  /\ InCommand(a) /\ Costs
  /\ Fails(a) /\ disturbed' = TRUE

(* So does one that the phone, without a network, never hears or answers.  *)
CommandTimesOut(a) ==
  /\ InCommand(a) /\ ~ phone.network
  /\ Fails(a)
  /\ UNCHANGED <<disturbed, left>>

(* The package of a command is one that another run has just uninstalled:  *)
(* it fails, or, as Android has it, says so and does nothing.              *)
PackageGone(r) ==
  /\ phone.network /\ ~ phone.installed
  /\ \/ actors[r].at = "apply" /\ actors[r].steps[1] # "Install"
     \/ actors[r].at = "uninstall"
  /\ \/ Ends(r, "failed")
     \/ /\ actors[r].at = "apply" /\ actors[r].steps[1] \in {"ExemptDoze", "LaunchOnce"}
        /\ StepDone(r) /\ UNCHANGED activity
  /\ UNCHANGED <<phone, facts, disturbed, left>>

-----------------------------------------------------------------------------
(* The agent.                                                              *)

PhoneBecomes(p) == phone' = p /\ UNCHANGED <<actors, facts, activity>>

(* Defect: the settings are only written with a network.                   *)
Defect_AllNeedNetwork ==
  /\ phone.service /\ phone.due
  /\ LET wifi == phone.wifi \/ (phone.granted /\ phone.network /\ phone.usb)
         usb == phone.usb IN
       PhoneBecomes([phone EXCEPT !.wifi = wifi, !.usb = usb, !.due = <<wifi, usb>> # <<phone.wifi, phone.usb>>])
  /\ UNCHANGED <<disturbed, left>>

(* The reconcile that is due.  Only a setting that is off is written, since*)
(* writing restarts adbd; the observer of the settings asks for another.   *)
Reconcile ==
  /\ phone.service /\ phone.due
  /\ LET wifi == phone.wifi \/ (phone.granted /\ phone.network)
         usb == phone.usb \/ phone.granted IN
       PhoneBecomes([phone EXCEPT !.wifi = wifi, !.usb = usb, !.due = <<wifi, usb>> # <<phone.wifi, phone.usb>>])
  /\ UNCHANGED <<disturbed, left>>

(* Once a minute, whatever has happened.                                   *)
Tick ==
  /\ phone.service /\ ~ phone.due
  /\ PhoneBecomes([phone EXCEPT !.due = TRUE])
  /\ UNCHANGED <<disturbed, left>>

Mishap(p) == Costs /\ PhoneBecomes(p) /\ disturbed' = TRUE

(* Android clears a setting; the observer is told, if the service runs.    *)
SettingCleared ==
  \/ phone.wifi /\ Mishap([phone EXCEPT !.wifi = FALSE, !.due = phone.service])
  \/ phone.usb /\ Mishap([phone EXCEPT !.usb = FALSE, !.due = phone.service])

NetworkLost == phone.network /\ Mishap([phone EXCEPT !.network = FALSE, !.wifi = FALSE, !.due = phone.service])
NetworkAvailable ==
  /\ ~ phone.network
  /\ PhoneBecomes([phone EXCEPT !.network = TRUE, !.due = phone.service])
  /\ UNCHANGED <<disturbed, left>>

(* The process is killed and, sticky, recreated: what was due is forgotten,*)
(* and its start makes a reconcile due.                                    *)
Killed == phone.service /\ Mishap([phone EXCEPT !.service = FALSE, !.front = FALSE, !.due = FALSE])
Recreated ==
  /\ phone.installed /\ phone.opened /\ ~ phone.service
  /\ PhoneBecomes(Started(phone))
  /\ UNCHANGED <<disturbed, left>>

(* A reboot clears wireless debugging.  The boot is only told to an        *)
(* application that was opened once, and that starts the service.          *)
Reboots ==
  /\ phone.installed
  /\ Mishap([phone EXCEPT !.service = phone.opened, !.due = phone.opened, !.front = FALSE, !.wifi = FALSE])

ProvisioningNext ==
  \/ \E r \in Runs : \/ Provisions(r) \/ RunStep(r) \/ Uninstalls(r) \/ Reinstalls(r)
                     \/ SettleEnds(r) \/ PackageGone(r)
  \/ Refreshes
  \/ \E a \in Actors : ReadAgentStatus(a) \/ Converge(a) \/ CommandFails(a) \/ CommandTimesOut(a)
  \/ Reconcile \/ Tick
  \/ SettingCleared \/ NetworkLost \/ NetworkAvailable \/ Killed \/ Recreated \/ Reboots

-----------------------------------------------------------------------------
ProvisioningTypeOK ==
  /\ \A f \in DOMAIN phone \ {"version"} : phone[f] \in BOOLEAN
  /\ \A a \in Actors : /\ actors[a].at \in {"idle", "read", "answer", "settle"} \union Steps
                       /\ actors[a].pass \in 0 .. MaxPasses
                       /\ actors[a].at \in Steps => actors[a].steps # <<>>
  /\ facts.checks \subseteq Checks
  /\ activity \in {"none", "provisioning", "provisioned", "failed"}

(* The passes are enough: a run that meets no mishap and no other run ends *)
(* with a phone that passes every check, whatever it found, a package that *)
(* has to be uninstalled included; but for a launch that only brings an    *)
(* activity to the front, which leaves the settings to the agent's tick.   *)
(* What it said of the phone stays true for as long as nothing happens.    *)
UndisturbedProvisioningSucceeds ==
  ~ disturbed => /\ activity # "failed"
                 /\ activity = "provisioned" => IsHealthy(AgentStatus(phone))

(* On a phone whose network lasts, what the fact table says of the agent   *)
(* ends up being what is true of it, however the reads of runs and reader  *)
(* overtook each other and whatever they missed while it was gone.         *)
FactsShowThePhone == <>[]phone.network => <>[](facts = ToFacts(AgentStatus(phone)))

(* The two settings come back by themselves on a phone that has the        *)
(* permission, the service and a network; USB debugging without a network. *)
SettingsComeBack ==
  /\ <>[](phone.service /\ phone.granted => phone.usb)
  /\ <>[](phone.service /\ phone.granted /\ phone.network => phone.wifi)

=============================================================================
