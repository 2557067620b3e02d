CONSTANTS
  Tickets = {t1, t2}
  MaxHeight = 3
  ReadHeights <- AnyHeight
  Crashes = FALSE
  Reorgs = TRUE
  Faults = {}
  Margin = 1
  MaxAstray = 0
SPECIFICATION Spec
INVARIANTS TypeOK PoolAtCursor CacheMatchesNode
PROPERTY ImplementsLivePool
