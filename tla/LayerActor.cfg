CONSTANTS
  Regions = {p, q}
  MaxPaints = 3
  MaxLayerChanges = 0
SPECIFICATION ActorSpec
INVARIANTS GpuShowsAPage
CHECK_DEADLOCK FALSE
