CONSTANTS
  Wakers = {w1, w2}
  MaxWakeups = 2
  MaxSizes = 3
SPECIFICATION SyncSpec
INVARIANTS FinalSizeApplied
CHECK_DEADLOCK FALSE
