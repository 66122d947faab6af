\* Two cameras that share one reconcile: an edit, timeouts and reboots.
CONSTANTS
  c1 = c1
  c2 = c2
  Camera <- TwoCameras
  h1 = h1
  h2 = h2
  Host <- OneHost
  MaxEdits = 1
  MaxCommands = 2
  MaxFaults = 0
SPECIFICATION Spec
INVARIANTS
  TypeOK
  OneConnectionAtATime
  DispatchesAreSerial
  RebootInvalidates
