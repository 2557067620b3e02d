CONSTANTS
  MaxHeight = 3
  GateCap = 4
  Modes = {TRUE}
  Starts <- AnyStart
  NewBlocks = TRUE
  Reorgs = FALSE
  Crashes = TRUE
  Cancels = TRUE
  Faults = {"aux", "base"}
SPECIFICATION FairSpec
INVARIANT DBsLevel
PROPERTIES ShutdownEnds StoresMainChain
