\* Three handles of one descriptor, up to three ticks each.  A loop whose
\* handles are all over has nothing left to do.
SPECIFICATION FairSpec
CHECK_DEADLOCK FALSE
CONSTANTS
  h1 = h1
  h2 = h2
  h3 = h3
  infinite = infinite
  Handle <- MCHandle
  Infinite = infinite
  Limits <- MCLimits
  MaxTicks = 3
INVARIANTS
  TypeOK
  StateIsTruthful
  TicksWithinPolicy
  BoardShowsNoDeadLoop
PROPERTIES
  StoppedForGood
  KeepsTicking
  BoardCatchesUp
