\* An operator resets a tripwire while its pipeline runs.
CONSTANTS
  Entity = {cam}
  Tripwire = {"adb"}
  Fact = {"reachable"}
  Value <- MCValue
  Absent = Absent
  Predicate <- MCPredicate
  Grace <- MCGrace
  Retries <- MCRetries
  MaxClock = 3
  MaxRearms = 1
SPECIFICATION Spec
INVARIANT OnePipelinePerTripwire
CHECK_DEADLOCK FALSE
