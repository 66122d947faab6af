---------------------------- MODULE ServiceProofs ----------------------------
(***************************************************************************)
(* Proofs about module Service, for any set of endpoints and lifecycles    *)
(* and for any bounds: the types, that only the held lifecycle runs, and   *)
(* that the fact table follows the published list.                         *)
(***************************************************************************)
EXTENDS Service, TLAPS

-----------------------------------------------------------------------------
(* What a poll does to the tracker's memory, endpoint by endpoint.         *)

(* The types of what a poll computes.                                      *)
LEMMA RememberedType ==
  ASSUME NEW previous \in [Target -> Fact], NEW before \in SUBSET Target,
         NEW list \in List, table \in [Target -> Fact]
  PROVE  /\ Remembered(previous, before, list) \in [Target -> Fact]
         /\ Emitted(previous, before, list) \in [Target -> Fact]
         /\ Seen(list) \in SUBSET Target
  BY DEF Remembered, Emitted, Retracted, Diffed, Changed, Seen, ValueIn, Fact, List, Listing

(* The memory and the table say the same after a poll, whatever part of    *)
(* the list changed, if they did before and the tracker still knows of     *)
(* every endpoint it holds for reachable.                                  *)
LEMMA PollKeepsStep ==
  ASSUME NEW previous \in [Target -> Fact], NEW before \in SUBSET Target,
         NEW list \in List, table \in [Target -> Fact], NEW t \in Target,
         previous[t] # "unknown" => table[t] = previous[t],
         previous[t] = "true" => t \in before,
         Remembered(previous, before, list)[t] # "unknown"
  PROVE  /\ Emitted(previous, before, list)[t] = Remembered(previous, before, list)[t]
         /\ Remembered(previous, before, list)[t] = ValueIn(list, t)
<1>1. CASE t \in Seen(list)
  <2>1. t \notin Retracted(previous, before, list)
    BY <1>1 DEF Retracted
  <2>2. Remembered(previous, before, list)[t] = ValueIn(list, t)
    BY <1>1, <2>1 DEF Remembered, Diffed
  <2>3. CASE t \in Changed(previous, before, list)
    BY <1>1, <2>2, <2>3 DEF Emitted
  <2>4. CASE t \notin Changed(previous, before, list)
    <3>1. Diffed(previous, list)[t] = previous[t]
      BY <2>4 DEF Changed
    <3>2. previous[t] = ValueIn(list, t)
      BY <1>1, <3>1 DEF Diffed
    <3>3. table[t] = previous[t]
      BY <3>2 DEF ValueIn
    <3> QED  BY <2>2, <2>4, <3>2, <3>3 DEF Emitted
  <2> QED  BY <2>2, <2>3, <2>4
<1>2. CASE t \notin Seen(list)
  <2>1. ValueIn(list, t) = "false"
    BY <1>2 DEF Seen, ValueIn
  <2>2. Diffed(previous, list)[t] = previous[t]
    BY <1>2 DEF Diffed
  <2>3. CASE t \in Retracted(previous, before, list)
    BY <1>2, <2>1, <2>3 DEF Emitted, Remembered, Changed
  <2>4. CASE t \notin Retracted(previous, before, list)
    <3>1. Remembered(previous, before, list)[t] = previous[t]
      BY <2>2, <2>4 DEF Remembered
    <3>2. previous[t] = "false"
      <4>1. previous[t] # "true"
        BY <1>2, <2>2, <2>4 DEF Retracted
      <4> QED  BY <3>1, <4>1 DEF Fact
    <3>3. t \notin Changed(previous, before, list)
      BY <2>2, <2>4 DEF Changed
    <3> QED  BY <2>1, <3>1, <3>2, <3>3 DEF Emitted
  <2> QED  BY <2>3, <2>4
<1> QED  BY <1>1, <1>2

(* After a poll the tracker holds for reachable only what it has just      *)
(* seen.                                                                   *)
LEMMA ReachableIsKnown ==
  ASSUME NEW previous \in [Target -> Fact], NEW before \in SUBSET Target,
         NEW list \in List, NEW t \in Target,
         previous[t] = "true" => t \in before,
         Remembered(previous, before, list)[t] = "true"
  PROVE  t \in Seen(list)
  BY DEF Remembered, Retracted, Diffed, Seen

-----------------------------------------------------------------------------
(* Every variable keeps its shape, whatever the environment does.          *)
THEOREM TypeCorrect == Spec => []TypeOK
<1>1. Init => TypeOK
  BY ConstantsAssumption DEF Init, TypeOK, TrackingInit, TrackingTypeOK, NoPoll, Nowhere,
     NothingKnown, List, Listing, Fact, Stage, Decodable
<1>2. TypeOK /\ [Next]_vars => TypeOK'
  <2> SUFFICES ASSUME TypeOK, [Next]_vars PROVE TypeOK'
    OBVIOUS
  <2> USE DEF TypeOK, TrackingTypeOK, trackingVars
  <2>1. CASE EnterActive
    BY <2>1 DEF EnterActive
  <2>2. CASE ResetEnds
    BY <2>2 DEF ResetEnds, Nowhere, List, Listing
  <2>3. CASE EnteringFails
    BY <2>3 DEF EnteringFails, Nowhere, List, Listing
  <2>4. CASE \E l \in Lifecycle : SyncEnds(l)
    BY <2>4 DEF SyncEnds, Stage, Decodable
  <2>5. CASE EnterInactive
    BY <2>5 DEF EnterInactive, Stage
  <2>6. CASE \E l \in Lifecycle : TrackerPolls(l)
    BY <2>6 DEF TrackerPolls, PollBegins
  <2>7. CASE \E l \in Lifecycle : TrackerFails(l)
    BY <2>7 DEF TrackerFails, PollFails, NoPoll, Nowhere, List, Listing
  <2>8. CASE \E l \in Lifecycle : TrackerReports(l)
    <3> PICK l \in Lifecycle : TrackerReports(l)
      BY <2>8
    <3>1. /\ poll[l].seen \in List
          /\ snapshot[l] \in [Target -> Fact]
          /\ known[l] \in SUBSET Target
      OBVIOUS
    <3>2. /\ Remembered(snapshot[l], known[l], poll[l].seen) \in [Target -> Fact]
          /\ Emitted(snapshot[l], known[l], poll[l].seen) \in [Target -> Fact]
          /\ Seen(poll[l].seen) \in SUBSET Target
      BY <3>1, RememberedType
    <3>3. /\ table' \in [Target -> Fact]
          /\ listed' \in List
          /\ adb' \in List
      BY <3>1, <3>2 DEF TrackerReports, PollEnds
    <3>4. /\ snapshot' \in [Lifecycle -> [Target -> Fact]]
          /\ known' \in [Lifecycle -> SUBSET Target]
      BY <3>2 DEF TrackerReports, PollEnds
    <3>5. poll' \in [Lifecycle -> [busy : BOOLEAN, seen : List]]
      BY DEF TrackerReports, PollEnds, NoPoll, Nowhere, List, Listing
    <3> QED  BY <3>3, <3>4, <3>5 DEF TrackerReports
  <2>9. CASE HoursFlip
    BY <2>9 DEF HoursFlip, Spend
  <2>10. CASE \E t \in Target, listing \in Listing : Device(t, listing)
    BY <2>10 DEF Device, DeviceChanges, Spend, List
  <2>11. CASE Restart
    BY <2>11 DEF Restart, ForgetTracking, Spend, Stage, NoPoll, Nowhere, NothingKnown, List,
       Listing, Fact
  <2>12. CASE UNCHANGED vars
    BY <2>12 DEF vars
  <2> QED  BY <2>1, <2>2, <2>3, <2>4, <2>5, <2>6, <2>7, <2>8, <2>9, <2>10, <2>11, <2>12
           DEF Next
<1> QED  BY <1>1, <1>2, PTL DEF Spec

-----------------------------------------------------------------------------
(* Whatever runs is held, and can be stopped: at most one lifecycle runs,  *)
(* in the active phase only, and recovery loops that nobody holds are left *)
(* only by a start that failed after other policies had started.           *)
THEOREM HeldRuns == Spec => []OnlyTheHeldRuns
<1>1. Init => OnlyTheHeldRuns
  BY ConstantsAssumption DEF Init, OnlyTheHeldRuns, Recovering
<1>2. TypeOK /\ OnlyTheHeldRuns /\ [Next]_vars => OnlyTheHeldRuns'
  <2> SUFFICES ASSUME TypeOK, OnlyTheHeldRuns, [Next]_vars PROVE OnlyTheHeldRuns'
    OBVIOUS
  <2> USE ConstantsAssumption DEF OnlyTheHeldRuns, Recovering
  <2>1. CASE EnterActive
    BY <2>1 DEF EnterActive
  <2>2. CASE ResetEnds
    BY <2>2 DEF ResetEnds
  <2>3. CASE EnteringFails
    BY <2>3 DEF EnteringFails
  <2>4. CASE \E l \in Lifecycle : SyncEnds(l)
    BY <2>4 DEF SyncEnds, TypeOK
  <2>5. CASE EnterInactive
    BY <2>5 DEF EnterInactive
  <2>6. CASE \E l \in Lifecycle : TrackerPolls(l)
    BY <2>6 DEF TrackerPolls
  <2>7. CASE \E l \in Lifecycle : TrackerFails(l)
    BY <2>7 DEF TrackerFails
  <2>8. CASE \E l \in Lifecycle : TrackerReports(l)
    BY <2>8 DEF TrackerReports
  <2>9. CASE HoursFlip
    BY <2>9 DEF HoursFlip
  <2>10. CASE \E t \in Target, listing \in Listing : Device(t, listing)
    BY <2>10 DEF Device
  <2>11. CASE Restart
    BY <2>11 DEF Restart
  <2>12. CASE UNCHANGED vars
    BY <2>12 DEF vars
  <2> QED  BY <2>1, <2>2, <2>3, <2>4, <2>5, <2>6, <2>7, <2>8, <2>9, <2>10, <2>11, <2>12
           DEF Next
<1> QED  BY <1>1, <1>2, TypeCorrect, PTL DEF Spec

-----------------------------------------------------------------------------
(* Why the table follows the list: a lifecycle that has not run has said   *)
(* nothing; a stopped one may still report, but then only while the        *)
(* service is inactive; and the running tracker remembers the endpoints it *)
(* holds for reachable, so it retracts them when they vanish.              *)
Untouched ==
  \A l \in Lifecycle : stage[l] \in {"unborn", "orphan", "stray"} =>
    ~ poll[l].busy /\ snapshot[l] = NothingKnown
LateReportsWhileInactive ==
  \A l \in Lifecycle : stage[l] = "stopped" /\ poll[l].busy =>
    ~ hours /\ phase = "Inactive" /\ entering = "no"
ReachableAreKnown ==
  \A l \in Lifecycle, t \in Target :
    stage[l] = "running" /\ snapshot[l][t] = "true" => t \in known[l]

TrackingInv ==
  /\ Untouched
  /\ LateReportsWhileInactive
  /\ ReachableAreKnown
  /\ TableFollowsList

(* A report reaches the table while no other tracker runs.                 *)
LEMMA ReportsAreAlone ==
  ASSUME TypeOK, OnlyTheHeldRuns, TrackingInv,
         NEW l \in Lifecycle, poll[l].busy,
         NEW m \in Lifecycle, stage[m] = "running"
  PROVE  l = m
<1>1. held = m /\ phase = "Active"
  BY ConstantsAssumption DEF OnlyTheHeldRuns
<1>2. stage[l] \notin {"unborn", "orphan", "stray", "stopped"}
  BY <1>1 DEF TrackingInv, Untouched, LateReportsWhileInactive
<1>3. stage[l] = "running"
  BY <1>2 DEF TypeOK, Stage
<1> QED  BY <1>1, <1>3 DEF OnlyTheHeldRuns

(* The four parts of the invariant after a report.                         *)
LEMMA ReportKeepsInv ==
  ASSUME TypeOK, OnlyTheHeldRuns, TrackingInv, NEW l \in Lifecycle, TrackerReports(l)
  PROVE  TrackingInv'
<1> DEFINE list == poll[l].seen
<1>0. /\ snapshot[l] \in [Target -> Fact]
      /\ known[l] \in SUBSET Target
      /\ list \in List
      /\ table \in [Target -> Fact]
      /\ poll[l].busy
  BY DEF TypeOK, TrackingTypeOK, TrackerReports, PollEnds
<1>1. /\ poll' = [poll EXCEPT ![l] = NoPoll]
      /\ listed' = list
      /\ snapshot' = [snapshot EXCEPT ![l] = Remembered(snapshot[l], known[l], list)]
      /\ table' = Emitted(snapshot[l], known[l], list)
      /\ known' = [known EXCEPT ![l] = Seen(list)]
      /\ UNCHANGED <<hours, phase, entering, stage, held>>
  BY DEF TrackerReports, PollEnds
<1>2. stage[l] \in {"running", "stopped"}
  BY <1>0 DEF TypeOK, Stage, TrackingInv, Untouched
<1>3. Untouched'
  BY <1>1, <1>2 DEF Untouched, TrackingInv, TypeOK, TrackingTypeOK
<1>4. LateReportsWhileInactive'
  BY <1>1 DEF LateReportsWhileInactive, TrackingInv, TypeOK, TrackingTypeOK, NoPoll
<1>5. ReachableAreKnown'
  <2> SUFFICES ASSUME NEW m \in Lifecycle, NEW t \in Target,
                      stage[m] = "running", snapshot'[m][t] = "true"
               PROVE  t \in known'[m]
    BY <1>1 DEF ReachableAreKnown
  <2>1. m = l
    BY <1>0, ReportsAreAlone
  <2>2. snapshot[l][t] = "true" => t \in known[l]
    BY <2>1 DEF TrackingInv, ReachableAreKnown
  <2>3. Remembered(snapshot[l], known[l], list)[t] = "true"
    BY <1>1, <2>1 DEF TypeOK, TrackingTypeOK
  <2>4. t \in Seen(list)
    BY <1>0, <2>2, <2>3, ReachableIsKnown
  <2> QED  BY <1>1, <2>1, <2>4 DEF TypeOK, TrackingTypeOK
<1>6. TableFollowsList'
  <2> SUFFICES ASSUME NEW m \in Lifecycle, NEW t \in Target,
                      stage[m] = "running", snapshot'[m][t] # "unknown"
               PROVE  table'[t] = snapshot'[m][t] /\ table'[t] = ValueIn(list, t)
    BY <1>1 DEF TableFollowsList, ValueIn
  <2>1. m = l
    BY <1>0, ReportsAreAlone
  <2>2. snapshot[l][t] = "true" => t \in known[l]
    BY <2>1 DEF TrackingInv, ReachableAreKnown
  <2>3. snapshot[l][t] # "unknown" => table[t] = snapshot[l][t]
    BY <2>1 DEF TrackingInv, TableFollowsList
  <2>4. snapshot'[m] = Remembered(snapshot[l], known[l], list)
    BY <1>1, <2>1 DEF TypeOK, TrackingTypeOK
  <2>5. /\ Emitted(snapshot[l], known[l], list)[t] = Remembered(snapshot[l], known[l], list)[t]
        /\ Remembered(snapshot[l], known[l], list)[t] = ValueIn(list, t)
    BY <1>0, <2>2, <2>3, <2>4, PollKeepsStep
  <2> QED  BY <1>1, <2>4, <2>5
<1> QED  BY <1>3, <1>4, <1>5, <1>6 DEF TrackingInv

(* Within one activation the facts follow the list, whatever the hours,    *)
(* the devices, the polls and the process do.                              *)
THEOREM FactsFollow == Spec => []TableFollowsList
<1>1. Init => TrackingInv
  BY DEF Init, TrackingInit, TrackingInv, Untouched, LateReportsWhileInactive,
     ReachableAreKnown, TableFollowsList, NoPoll
<1>2. TypeOK /\ TypeOK' /\ OnlyTheHeldRuns /\ TrackingInv /\ [Next]_vars => TrackingInv'
  <2> SUFFICES ASSUME TypeOK, TypeOK', OnlyTheHeldRuns, TrackingInv, [Next]_vars
               PROVE  TrackingInv'
    OBVIOUS
  <2>a. Untouched /\ LateReportsWhileInactive /\ ReachableAreKnown /\ TableFollowsList
    BY DEF TrackingInv
  <2> USE DEF TrackingInv, Untouched, LateReportsWhileInactive, ReachableAreKnown,
          TableFollowsList, trackingVars
  <2>1. CASE EnterActive
    BY <2>1 DEF EnterActive
  <2>2. CASE ResetEnds
    BY <2>2 DEF ResetEnds
  <2>3. CASE EnteringFails
    BY <2>3 DEF EnteringFails
  <2>4. CASE \E l \in Lifecycle : SyncEnds(l)
    <3> PICK l \in Lifecycle : SyncEnds(l)
      BY <2>4
    <3>1. \A m \in Lifecycle : ~ (stage[m] = "stopped" /\ poll[m].busy)
      BY DEF SyncEnds
    <3>2. PICK s \in {"running", "orphan", "stray"} : stage' = [stage EXCEPT ![l] = s]
      BY DEF SyncEnds
    <3>3. ~ poll[l].busy /\ snapshot[l] = NothingKnown
      BY DEF SyncEnds
    <3> QED  BY <3>1, <3>2, <3>3 DEF SyncEnds, NothingKnown, TypeOK
  <2>5. CASE EnterInactive
    BY <2>5, ConstantsAssumption DEF EnterInactive, OnlyTheHeldRuns, TypeOK
  <2>6. CASE \E l \in Lifecycle : TrackerPolls(l)
    BY <2>6 DEF TrackerPolls, PollBegins, TypeOK, TrackingTypeOK
  <2>7. CASE \E l \in Lifecycle : TrackerFails(l)
    BY <2>7 DEF TrackerFails, PollFails, TypeOK, TrackingTypeOK, NoPoll
  <2>8. CASE \E l \in Lifecycle : TrackerReports(l)
    BY <2>8, ReportKeepsInv
  <2>9. CASE HoursFlip
    BY <2>9 DEF HoursFlip
  <2>10. CASE \E t \in Target, listing \in Listing : Device(t, listing)
    BY <2>10 DEF Device, DeviceChanges
  <2>11. CASE Restart
    BY <2>11 DEF Restart, ForgetTracking, NoPoll, NothingKnown, TypeOK, Stage
  <2>12. CASE UNCHANGED vars
    BY <2>12 DEF vars
  <2> QED  BY <2>1, <2>2, <2>3, <2>4, <2>5, <2>6, <2>7, <2>8, <2>9, <2>10, <2>11, <2>12
           DEF Next
<1>3. TrackingInv => TableFollowsList
  BY DEF TrackingInv
<1> QED  BY <1>1, <1>2, <1>3, TypeCorrect, HeldRuns, PTL DEF Spec

=============================================================================
