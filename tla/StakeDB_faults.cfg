CONSTANTS
  Tickets = {t1}
  MaxHeight = 3
  ReadHeights = {}
  Crashes = TRUE
  Reorgs = TRUE
  Faults = {"rpc", "diff", "node", "open"}
  Margin = 0
  MaxAstray = 2
SPECIFICATION FairSpec
INVARIANTS CursorInBounds StartsLevel
PROPERTY StartupEnds
CHECK_DEADLOCK FALSE
