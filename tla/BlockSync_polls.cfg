CONSTANTS
  MaxHeight = 3
  GateCap = 4
  Modes = {TRUE}
  Starts <- NotBehind
  NewBlocks = TRUE
  Reorgs = FALSE
  Crashes = FALSE
  Cancels = FALSE
  Faults = {}
SPECIFICATION FairSpec
PROPERTIES SyncEnds
CHECK_DEADLOCK FALSE
