CONSTANTS
  Tickets = {t1, t2}
  MaxHeight = 2
  ReadHeights = {}
  Crashes = TRUE
  Reorgs = TRUE
  Faults = {}
  Margin = 1
  MaxAstray = 0
SPECIFICATION Spec
INVARIANT PoolAtCursor
