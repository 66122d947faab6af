------------------------------ MODULE MCTripwire ------------------------------
(* Instances of Tripwire for TLC: one camera, two tripwires whose          *)
(* predicates share a fact.                                                *)
EXTENDS Tripwire

MCValue == {"ok", "ko"}

(* adb: the device is reachable.  stream: it is reachable and streaming.   *)
(* A condition on a fact nobody has emitted is false.                      *)
MCPredicate ==
  [t \in Tripwire |->
     IF t = "adb"
       THEN {v \in Valuation : v["reachable"] = "ok"}
       ELSE {v \in Valuation : v["reachable"] = "ok" /\ v["streaming"] = "ok"}]

MCGrace == [t \in Tripwire |-> IF t = "adb" THEN 1 ELSE 2]
MCRetries == [t \in Tripwire |-> IF t = "adb" THEN 1 ELSE 0]

=============================================================================
