\* The live feeds and the provisioning of a phone, with their liveness.
CONSTANTS
  k1 = k1
  k2 = k2
  r1 = r1
  r2 = r2
  None = None
  Key <- TwoKeys
  BufferSize = 3
  Window = 2
  KeptLines = 2
  CutAbove = 3
  MaxEmits = 4
  MaxDrops = 1
  MaxRestarts = 1
  Runs <- TwoRuns
  Reader = reader
  Phones <- SomePhones
  Expected = 2
  MaxPasses = 3
  MaxEvents = 2
SPECIFICATION PagesSpec
\* Budgets run out, and a page may be left.
CHECK_DEADLOCK FALSE
INVARIANTS
  TypesOK
  FeedsAreExact
  ProvisioningIsHonest
PROPERTIES
  SettlesEventually
  PhonesSettle
