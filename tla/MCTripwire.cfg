\* Two tripwires over two facts of one camera; one operator reset.
CONSTANTS
  Entity = {cam}
  Tripwire = {"adb", "stream"}
  Fact = {"reachable", "streaming"}
  Value <- MCValue
  Absent = Absent
  Predicate <- MCPredicate
  Grace <- MCGrace
  Retries <- MCRetries
  MaxClock = 3
  MaxRearms = 1
SPECIFICATION Spec
INVARIANTS
  TypeOK
  RecoveringHasItsAttempt
  PendingIsUnhealthy
  NoParallelAttempts
PROPERTIES
  LaunchRespectsGrace
  EpisodeClosedByItsAttempt
  NoRelaunchWithoutHealing
\* The clock and the resets are bounded, so a stopped runner stops for good.
CHECK_DEADLOCK FALSE
