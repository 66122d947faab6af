\* One camera, dropped and taken back, under the fairness of the loops.
CONSTANTS
  c1 = c1
  c2 = c2
  Camera <- OneCamera
  h1 = h1
  h2 = h2
  Host <- TwoHosts
  MaxEdits = 2
  MaxCommands = 1
  MaxFaults = 2
SPECIFICATION FairSpec
INVARIANTS
  AcceptingIsControlled
PROPERTIES
  ReachableConnects
  UnreachableRefuses
