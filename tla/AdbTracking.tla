----------------------------- MODULE AdbTracking -----------------------------
(***************************************************************************)
(* The ADB tracker: a loop that polls `adb devices`, publishes the whole   *)
(* list on the device stream and turns what changed since its previous     *)
(* poll into facts, `adb_device_reachable`, emitted on the fact stream.    *)
(* Each activation of the service creates a tracker with an empty memory;  *)
(* the two streams outlive it.                                             *)
(*                                                                         *)
(* This module has the trackers, the streams and the ADB server's list;    *)
(* module Service decides when a tracker runs.                             *)
(***************************************************************************)
EXTENDS Integers

CONSTANTS
  Target,      \* the endpoints (ip:port) a device may be listed under
  Lifecycle    \* the activations of the service, each with its tracker

VARIABLES
  adb,        \* the ADB server's list: how each endpoint is listed, if it is
  poll,       \* the `adb devices` call each tracker has in flight
  snapshot,   \* what each tracker remembers having said of each endpoint
  known,      \* the endpoints of each tracker's previous list
  listed,     \* the device stream's latest list
  table       \* the fact stream's table: adb_device_reachable

trackingVars == <<adb, poll, snapshot, known, listed, table>>

(* "away" stands for an endpoint that is not listed and for one with a     *)
(* status the parser drops (`unauthorized`); "other" for every status that *)
(* is kept and is not `device`.                                            *)
Listing == {"device", "other", "away"}
List == [Target -> Listing]

Fact == {"true", "false", "unknown"}

Nowhere == [t \in Target |-> "away"]
NothingKnown == [t \in Target |-> "unknown"]
NoPoll == [busy |-> FALSE, seen |-> Nowhere]

-----------------------------------------------------------------------------
Seen(list) == {t \in Target : list[t] # "away"}

(* Defect: the fact carries ADB's word for the status.                     *)
Defect_RawStatus(list, t) == list[t]

ValueIn(list, t) == IF list[t] = "device" THEN "true" ELSE "false"

(* diff: an endpoint that is not listed keeps what was said of it.         *)
Diffed(previous, list) ==
  [t \in Target |-> IF t \in Seen(list) THEN ValueIn(list, t) ELSE previous[t]]

(* retractVanished, without what is already false.                         *)
Retracted(previous, before, list) ==
  {t \in before \ Seen(list) : Diffed(previous, list)[t] # "false"}

(* Defect: the tracker does not remember what it retracts.                 *)
Defect_RetractionForgotten(previous, before, list) == Diffed(previous, list)

(* The tracker's memory after a poll.                                      *)
Remembered(previous, before, list) ==
  [t \in Target |-> IF t \in Retracted(previous, before, list)
                      THEN "false"
                      ELSE Diffed(previous, list)[t]]

(* Defect: what vanished is not retracted.                                 *)
Defect_OnlyDiff(previous, before, list) ==
  {t \in Target : Diffed(previous, list)[t] # previous[t]}

(* The facts a poll emits: what the diff found, and the retractions.       *)
Changed(previous, before, list) ==
  {t \in Target : Diffed(previous, list)[t] # previous[t]}
    \union Retracted(previous, before, list)

(* Every fact is emitted with the value the tracker now remembers.  `emit` *)
(* does nothing for a value that is already in the table.                  *)
Emitted(previous, before, list) ==
  [t \in Target |->
     IF t \in Changed(previous, before, list)
       THEN IF t \in Seen(list) THEN ValueIn(list, t) ELSE "false"
       ELSE table[t]]

-----------------------------------------------------------------------------
TrackingInit ==
  /\ adb \in List
  /\ poll = [l \in Lifecycle |-> NoPoll]
  /\ snapshot = [l \in Lifecycle |-> NothingKnown]
  /\ known = [l \in Lifecycle |-> {}]
  /\ listed = Nowhere
  /\ table = NothingKnown

(* A tick asks ADB for the list ...                                        *)
PollBegins(l) ==
  /\ ~ poll[l].busy
  /\ poll' = [poll EXCEPT ![l] = [busy |-> TRUE, seen |-> adb]]
  /\ UNCHANGED <<adb, snapshot, known, listed, table>>

(* ... and the command may fail, or time out: nothing is said.             *)
PollFails(l) ==
  /\ poll[l].busy
  /\ poll' = [poll EXCEPT ![l] = NoPoll]
  /\ UNCHANGED <<adb, snapshot, known, listed, table>>

(* The answer is published, diffed and emitted in one turn, also by a      *)
(* tracker that was stopped meanwhile.                                     *)
PollEnds(l) ==
  LET list == poll[l].seen
  IN  /\ poll[l].busy
      /\ poll' = [poll EXCEPT ![l] = NoPoll]
      /\ listed' = list
      /\ snapshot' = [snapshot EXCEPT ![l] = Remembered(@, known[l], list)]
      /\ table' = Emitted(snapshot[l], known[l], list)
      /\ known' = [known EXCEPT ![l] = Seen(list)]
      /\ UNCHANGED adb

(* A device is connected, drops, or changes status.                        *)
DeviceChanges(t, listing) ==
  /\ adb[t] # listing
  /\ adb' = [adb EXCEPT ![t] = listing]
  /\ UNCHANGED <<poll, snapshot, known, listed, table>>

(* Everything the process remembered is gone, and what it had in flight.   *)
ForgetTracking ==
  /\ poll' = [l \in Lifecycle |-> NoPoll]
  /\ snapshot' = [l \in Lifecycle |-> NothingKnown]
  /\ known' = [l \in Lifecycle |-> {}]
  /\ listed' = Nowhere
  /\ table' = NothingKnown

-----------------------------------------------------------------------------
TrackingTypeOK ==
  /\ adb \in List
  /\ poll \in [Lifecycle -> [busy : BOOLEAN, seen : List]]
  /\ snapshot \in [Lifecycle -> [Target -> Fact]]
  /\ known \in [Lifecycle -> SUBSET Target]
  /\ listed \in List
  /\ table \in [Target -> Fact]

=============================================================================
