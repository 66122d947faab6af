SPECIFICATION FairSpec
CONSTANTS
  Target = {t1, t2}
  Lifecycle = {l1, l2, l3}
  None = None
  MaxFlips = 3
  MaxChanges = 2
  MaxRestarts = 1
CHECK_DEADLOCK FALSE
INVARIANTS
  TypeOK
  OnlyTheHeldRuns
  TableFollowsList
PROPERTIES
  QuietAfterHours
  ActiveWithinHours
  FactsConverge
