CONSTANTS
  Tickets = {t1, t2}
  MaxHeight = 2
  ReadHeights = {}
  Crashes = FALSE
  Reorgs = FALSE
  Faults = {"diff"}
  Margin = 1
  MaxAstray = 0
SPECIFICATION Spec
INVARIANT DiskContiguous
