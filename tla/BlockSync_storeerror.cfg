CONSTANTS
  MaxHeight = 3
  GateCap = 4
  Modes = {TRUE}
  Starts <- NotBehind
  NewBlocks = FALSE
  Reorgs = FALSE
  Crashes = FALSE
  Cancels = FALSE
  Faults = {"store"}
SPECIFICATION Spec
PROPERTIES StoresMainChain
CHECK_DEADLOCK FALSE
