\* What operators do, and what the service does for them.
CONSTANTS
  None = None
  Unreadable = Unreadable
  Refused = Refused
  Absent = Absent
  Left = Left
  w1 = w1
  w2 = w2
  u1 = u1
  u2 = u2
  s1 = s1
  s2 = s2
  o1 = o1
  o2 = o2
  c1 = c1
  c2 = c2
  h1 = h1
  h2 = h2
  \* Notifier
  Wire <- TwoWires
  Rule <- TwoRules
  MaxMoves = 4
  \* Registry
  Slot <- LabSlots
  Edits <- LabEdits
  Lists <- LabLists
  Seed <- LabSeed
  Camera = "c1"
  Host <- LabHost
  MaxOperations = 3
  MaxCrashes = 1
  MaxCallsLost = 1
  \* Workflow
  Phone <- TwoPhones
  Endpoint <- TwoEndpoints
  Registries <- OneRegistry
  Workflows <- SomeWorkflows
  Pipelines <- SomePipelines
  Manual = "branch"
  MaxDepth = 2
  MaxHeight = 3
  Patience = 1
  MaxChanges = 2
  \* AdbConnection
  Address = "here"
  TlsPort <- TwoPorts
  AdbPort = 5555
  Answers <- ShortAnswers
  MaxRetries = 2
  MaxTurns = 2
  \* Settings
  Operator <- TwoOperators
  Listed <- OneList
  Infra <- TwoFields
  Optional <- OneOptional
  Value <- TwoValues
  Bad = 9
  FirstFile <- EmptyFile
  MaxEdits = 5
  MaxRestarts = 1
  MaxFailures = 1
  \* LabPage
  Page <- TwoPages
  FirstDbs <- ScreenDbs
  SuitestLists <- ScreenLists
  MaxSubmits = 2
  MaxUpsets = 2
  \* Forms
  NoRetry = NoRetry
  Height = 3
  Horizon = 3
  MaxTimer = 4
  MinutesADay = 4
  MaxItems = 2
  MaxSteps = 2
  Nesting <- FormNesting
SPECIFICATION OperationsSpec
\* Budgets run out.
CHECK_DEADLOCK FALSE
INVARIANTS
  TypesOK
  EveryTripIsTold
  EditsLast
  CommandsTellTheTruth
  FormsSayWhatTheyMean
