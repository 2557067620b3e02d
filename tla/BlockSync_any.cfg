CONSTANTS
  MaxHeight = 2
  GateCap = 2
  Modes = {TRUE, FALSE}
  Starts <- AnyStart
  NewBlocks = TRUE
  Reorgs = TRUE
  Crashes = TRUE
  Cancels = TRUE
  Faults = {"connectivity", "aux", "base", "store"}
SPECIFICATION Spec
INVARIANTS ConnectsInOrder GateKeepsAwaited WinnersConnected
