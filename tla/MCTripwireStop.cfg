\* The schedule deactivates the service while an attempt waits to retry.
CONSTANTS
  Entity = {cam}
  Tripwire = {"adb"}
  Fact = {"reachable"}
  Value <- MCValue
  Absent = Absent
  Predicate <- MCPredicate
  Grace <- MCGrace
  Retries <- MCRetries
  MaxClock = 3
  MaxRearms = 0
SPECIFICATION Spec
PROPERTY NoPipelineStartsAfterStop
CHECK_DEADLOCK FALSE
