------------------------------- MODULE Service -------------------------------
(***************************************************************************)
(* The service as a whole: the activation machine that follows the working *)
(* hours, the steps of an activation, what an active lifecycle is made of, *)
(* how it is torn down, and a restart of the process.                      *)
(*                                                                         *)
(* The activation loop evaluates the schedule every second.  Entering the  *)
(* active phase takes three steps that wait for the outside (reset of the  *)
(* ADB server, import of the registry, then everything is created and      *)
(* started at once), and the tick waits for them: the phase changes when   *)
(* they end.  Any of them may fail, which the machine is not told.         *)
(*                                                                         *)
(* Of what a lifecycle runs, the ADB tracker (module AdbTracking) is here  *)
(* in full; the bridge, the recovery engine and the loops have modules of  *)
(* their own.                                                              *)
(***************************************************************************)
EXTENDS AdbTracking

CONSTANTS
  None,           \* no lifecycle
  MaxFlips,       \* bound: the times the working hours begin or end
  MaxChanges,     \* bound: the changes of the ADB server's list
  MaxRestarts     \* bound: the restarts of the process

ASSUME ConstantsAssumption ==
  /\ None \notin Lifecycle
  /\ MaxFlips \in Nat /\ MaxChanges \in Nat /\ MaxRestarts \in Nat

VARIABLES
  hours,      \* the schedule says the service should be active
  decodes,    \* how much of the configuration's recovery policies can be decoded
  phase,      \* the state of the activation machine
  entering,   \* the step of onActive the activation tick is waiting for
  stage,      \* what has become of each lifecycle
  held,       \* isActive: the lifecycle that can be stopped and asked
  spent       \* how much of each bound is used up

vars == <<adb, poll, snapshot, known, listed, table,
          hours, decodes, phase, entering, stage, held, spent>>

(* All the recovery policies decode, only some that come before one that   *)
(* does not, or not even the first.                                        *)
Decodable == {"all", "some", "none"}

(* When a policy does not decode, the engine starts for nobody: the bridge *)
(* and the provisioning tracker stay subscribed and nobody holds them.  An *)
(* "orphan" runs no loop.  A "stray" lifecycle runs some: the engine       *)
(* starts the policies one after the other, each subscribes and ticks at   *)
(* once, and those before the bad one have started; their handles are lost *)
(* with the failure.                                                       *)
Stage == {"unborn", "orphan", "stray", "running", "stopped"}

(* The lifecycles with recovery loops that tick, and launch workflows.     *)
Recovering == {l \in Lifecycle : stage[l] \in {"stray", "running"}}

Spend(what) ==
  /\ spent[what] > 0
  /\ spent' = [spent EXCEPT ![what] = @ - 1]

-----------------------------------------------------------------------------
Init ==
  /\ TrackingInit
  /\ hours \in BOOLEAN
  /\ decodes \in Decodable
  /\ phase = "Init"
  /\ entering = "no"
  /\ stage = [l \in Lifecycle |-> "unborn"]
  /\ held = None
  /\ spent = [flips |-> MaxFlips, changes |-> MaxChanges, restarts |-> MaxRestarts]

(* Defect: the machine has no transition from Inactive to Active.          *)
Defect_ActiveOnlyOnce ==
  /\ hours /\ phase = "Init" /\ entering = "no"
  /\ entering' = "reset"
  /\ UNCHANGED <<trackingVars, hours, decodes, phase, stage, held, spent>>

(* A tick within the working hours: EnterActive runs onActive, whose first *)
(* step is the reset of the ADB server.                                    *)
EnterActive ==
  /\ hours /\ phase \in {"Init", "Inactive"} /\ entering = "no"
  /\ entering' = "reset"
  /\ UNCHANGED <<trackingVars, hours, decodes, phase, stage, held, spent>>

(* adb disconnect, kill-server, start-server: done, every connection of    *)
(* the evening before is gone.                                             *)
ResetEnds ==
  /\ entering = "reset"
  /\ entering' = "sync"
  /\ adb' = Nowhere
  /\ UNCHANGED <<poll, snapshot, known, listed, table, hours, decodes, phase, stage, held, spent>>

(* A command of the reset, or the registry's file, fails: the error is     *)
(* logged, and for the machine the service is active.                      *)
EnteringFails ==
  /\ entering \in {"reset", "sync"}
  /\ entering' = "no"
  /\ phase' = "Active"
  /\ adb' \in {adb, Nowhere}
  /\ entering = "sync" => adb' = adb
  /\ UNCHANGED <<poll, snapshot, known, listed, table, hours, decodes, stage, held, spent>>

(* The import is over: the resources are created, the recovery engine and  *)
(* the loops started and the lifecycle stored, in one turn.  When the      *)
(* engine fails nothing is stored and no other loop starts, and what it    *)
(* has started by then goes on.                                            *)
SyncEnds(l) ==
  /\ entering = "sync"
  /\ stage[l] = "unborn"
  /\ entering' = "no"
  /\ phase' = "Active"
  /\ \/ /\ decodes = "all"
        /\ stage' = [stage EXCEPT ![l] = "running"]
        /\ held' = l
     \/ /\ decodes # "all"
        /\ stage' = [stage EXCEPT ![l] = IF decodes = "some" THEN "stray" ELSE "orphan"]
        /\ UNCHANGED held
  /\ UNCHANGED <<trackingVars, hours, decodes, spent>>

(* Defect: the lifecycle is cleared first, so that nothing is stopped.     *)
Defect_ClearBeforeStop ==
  /\ ~ hours /\ phase \in {"Init", "Active"} /\ entering = "no"
  /\ phase' = "Inactive"
  /\ held' = None
  /\ UNCHANGED <<trackingVars, hours, decodes, entering, stage, spent>>

(* A tick outside the working hours: EnterInactive stops the lifecycle     *)
(* that is held, if any, and forgets it.  What its loops have in flight is *)
(* not interrupted.                                                        *)
EnterInactive ==
  /\ ~ hours /\ phase \in {"Init", "Active"} /\ entering = "no"
  /\ phase' = "Inactive"
  /\ stage' = [l \in Lifecycle |-> IF l = held THEN "stopped" ELSE stage[l]]
  /\ held' = None
  /\ UNCHANGED <<trackingVars, hours, decodes, entering, spent>>

-----------------------------------------------------------------------------
(* The tracker of a running lifecycle ticks; a poll in flight ends even    *)
(* when its lifecycle has been stopped.                                    *)
TrackerPolls(l) ==
  /\ stage[l] = "running"
  /\ PollBegins(l)
  /\ UNCHANGED <<hours, decodes, phase, entering, stage, held, spent>>

TrackerFails(l) ==
  /\ PollFails(l)
  /\ UNCHANGED <<hours, decodes, phase, entering, stage, held, spent>>

TrackerReports(l) ==
  /\ PollEnds(l)
  /\ UNCHANGED <<hours, decodes, phase, entering, stage, held, spent>>

-----------------------------------------------------------------------------
(* The environment.                                                        *)

(* The working hours begin or end.  They are given in minutes, so they     *)
(* begin again a minute after they ended at the earliest, and a poll is    *)
(* killed after fifteen seconds: none outlives the pause.                  *)
HoursFlip ==
  /\ Spend("flips")
  /\ ~ hours => \A l \in Lifecycle : stage[l] = "stopped" => ~ poll[l].busy
  /\ hours' = ~ hours
  /\ UNCHANGED <<trackingVars, decodes, phase, entering, stage, held>>

Device(t, listing) ==
  /\ Spend("changes")
  /\ DeviceChanges(t, listing)
  /\ UNCHANGED <<hours, decodes, phase, entering, stage, held>>

(* The process dies (a crash, a signal, a deploy) and launchd starts it    *)
(* again: all it knew was in memory.  The ADB server is another process.   *)
(* The configuration is read again, as edited meanwhile.                   *)
Restart ==
  /\ Spend("restarts")
  /\ ForgetTracking
  /\ phase' = "Init"
  /\ entering' = "no"
  /\ stage' = [l \in Lifecycle |-> IF stage[l] = "unborn" THEN "unborn" ELSE "stopped"]
  /\ held' = None
  /\ decodes' \in Decodable
  /\ UNCHANGED <<adb, hours>>

-----------------------------------------------------------------------------
Next ==
  \/ EnterActive
  \/ ResetEnds
  \/ EnteringFails
  \/ \E l \in Lifecycle : SyncEnds(l)
  \/ EnterInactive
  \/ \E l \in Lifecycle : TrackerPolls(l)
  \/ \E l \in Lifecycle : TrackerFails(l)
  \/ \E l \in Lifecycle : TrackerReports(l)
  \/ HoursFlip
  \/ \E t \in Target, listing \in Listing : Device(t, listing)
  \/ Restart

Spec == Init /\ [][Next]_vars

(* The activation loop and the tracker's loop tick for ever, on unlimited  *)
(* policies; the adb commands have timeouts and the runtime's fetch gives  *)
(* up, so an activation's steps end.  Of `adb devices` it is assumed that  *)
(* it does not fail for ever.                                              *)
Fairness ==
  /\ WF_vars(EnterActive)
  /\ WF_vars(EnterInactive)
  /\ WF_vars(ResetEnds \/ EnteringFails \/ \E l \in Lifecycle : SyncEnds(l))
  /\ \A l \in Lifecycle :
       /\ WF_vars(TrackerPolls(l))
       /\ WF_vars(TrackerFails(l) \/ TrackerReports(l))
       /\ SF_vars(TrackerReports(l))

FairSpec == Spec /\ Fairness

-----------------------------------------------------------------------------
(* Correctness.                                                            *)

(* The type invariant: every variable keeps the shape its code gives it.   *)
TypeOK ==
  /\ TrackingTypeOK
  /\ hours \in BOOLEAN
  /\ decodes \in Decodable
  /\ phase \in {"Init", "Active", "Inactive"}
  /\ entering \in {"no", "reset", "sync"}
  /\ stage \in [Lifecycle -> Stage]
  /\ held \in Lifecycle \union {None}
  /\ spent \in [{"flips", "changes", "restarts"} -> Nat]

(* Whatever runs can be stopped: the lifecycle that runs is the one that   *)
(* is held, so there is at most one, and it runs in the active phase only, *)
(* however the hours change while an activation is under way.  The code    *)
(* keeps this for its recovery loops only if no policy fails to decode     *)
(* after others did: nobody holds those that have started by then.         *)
OnlyTheHeldRuns ==
  /\ \A l \in Lifecycle : stage[l] = "running" <=> held = l
  /\ held # None => phase = "Active" /\ entering = "no"
  /\ decodes # "some" => Recovering \subseteq {held}

(* The facts follow the list: whatever the tracker of the running          *)
(* lifecycle has spoken of is reachable in the table exactly when the last *)
(* list published has it as `device`.  The tracker compares a list with    *)
(* its own memory and never with the table, so the two must not part.      *)
TableFollowsList ==
  \A l \in Lifecycle, t \in Target :
    stage[l] = "running" /\ snapshot[l][t] # "unknown" =>
      table[t] = snapshot[l][t] /\ table[t] = ValueIn(listed, t)

(* After hours the service goes quiet, also when the hours end during an   *)
(* activation: nothing is held, the tracker asks ADB for nothing more, and *)
(* no recovery loop ticks, except for those a failed start has left, which *)
(* tick until the process ends.                                            *)
QuietAfterHours ==
  <>[](~ hours) => <>[](/\ held = None
                        /\ \A l \in Lifecycle : ~ poll[l].busy
                        /\ decodes # "some" => Recovering = {})

(* Within the hours the service becomes active and stays so, unless the    *)
(* activation itself failed (which nothing retries before the next day).   *)
ActiveWithinHours ==
  <>[]hours => <>[](phase = "Active" /\ entering = "no")

(* A device that stays connected is reported reachable, and one the        *)
(* running tracker knew and that went away is reported unreachable.        *)
FactsConverge ==
  /\ \A t \in Target :
       <>[](held # None /\ adb[t] = "device") => <>[](table[t] = "true")
  /\ \A l \in Lifecycle, t \in Target :
       (stage[l] = "running" /\ t \in known[l] /\ adb[t] # "device")
         ~> (stage[l] # "running" \/ adb[t] = "device" \/ table[t] = "false")

(* What the tracker's comment promises ("without this step the fact would  *)
(* stay frozen at its last known value for ever") and the code does not    *)
(* do across two activations: a device that is not on the list is not      *)
(* reachable.                                                              *)
UnlistedIsUnreachable ==
  \A t \in Target : table[t] = "true" => listed[t] = "device"

=============================================================================
