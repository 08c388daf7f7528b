CONSTANTS
  MaxModeChanges = 4
  Wakers = {w1, w2}
  MaxWakeups = 2
  MaxSizes = 3
  MaxResizes = 2
  PumpTarget = 3
  TickLimit = 4
  Rates = {1, 2}
  Regions = {p, q}
  MaxPaints = 3
  MaxLayerChanges = 2
  MaxRequests = 2
  MaxUserActions = 1
  Items = {a}
  NoItem = none
  MaxPosition = 0
  ScalarFields = {}
  MaxActions = 2
  MediaItems = {a, b}
  NoMedia = none
  QueueCap = 2
  InputBudget = 4
  Overlays = {a}
  MaxSurfaceOps = 3
  MaxParentMoves = 2
SPECIFICATION PartsSpec
INVARIANTS
  ModeAgrees
  SizeIsWindowSize
  ViewCatchesUp
  LayerShowsAPage
  SettledIsDone
  SessionAgrees
  OverlaysFollowParent
CHECK_DEADLOCK FALSE
