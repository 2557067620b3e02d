CONSTANTS
  Tickets = {t1, t2}
  MaxHeight = 3
  ReadHeights <- AnyHeight
SPECIFICATION TPSpec
INVARIANTS TPTypeOK CursorInBounds PoolAtCursor
PROPERTY ImplementsLivePool
