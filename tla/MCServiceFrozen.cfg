SPECIFICATION Spec
CONSTANTS
  Target = {t1}
  Lifecycle = {l1, l2}
  None = None
  MaxFlips = 2
  MaxChanges = 1
  MaxRestarts = 0
CHECK_DEADLOCK FALSE
INVARIANTS
  UnlistedIsUnreachable
