CONSTANTS
  Tickets = {t1, t2}
  MaxHeight = 3
  ReadHeights <- AnyHeight
  Crashes = TRUE
  Reorgs = FALSE
  Faults = {}
  Margin = 1
  MaxAstray = 0
SPECIFICATION Spec
INVARIANTS DiskContiguous DiskOneBehind TipMatchesHeight PoolAtCursor CacheMatchesNode
