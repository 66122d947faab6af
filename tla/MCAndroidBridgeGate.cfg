\* A command times out on a connected camera.
CONSTANTS
  c1 = c1
  c2 = c2
  Camera <- OneCamera
  h1 = h1
  h2 = h2
  Host <- OneHost
  MaxEdits = 0
  MaxCommands = 1
  MaxFaults = 0
SPECIFICATION Spec
INVARIANT DisconnectingRefuses
