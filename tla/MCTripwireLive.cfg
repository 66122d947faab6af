\* One tripwire, with the fairness of the event loop.
CONSTANTS
  Entity = {cam}
  Tripwire = {"adb"}
  Fact = {"reachable"}
  Value <- MCValue
  Absent = Absent
  Predicate <- MCPredicate
  Grace <- MCGrace
  Retries <- MCRetries
  MaxClock = 3
  MaxRearms = 1
SPECIFICATION FairSpec
PROPERTIES
  EpisodeEnds
  GraceExpiryIsNoticed
  ImplementsEpisode
\* The clock and the resets are bounded, so a stopped runner stops for good.
CHECK_DEADLOCK FALSE
