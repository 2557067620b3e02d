CONSTANTS
  MaxHeight = 3
  GateCap = 4
  Modes = {TRUE, FALSE}
  Starts <- NotBehind
  NewBlocks = FALSE
  Reorgs = FALSE
  Crashes = FALSE
  Cancels = FALSE
  Faults = {}
SPECIFICATION FairSpec
INVARIANTS TypeOK NeverFails
PROPERTIES SyncEnds StoresMainChain
