CONSTANTS
  MaxPlays = 2
  MaxControls = 1
  MayAbandon = TRUE
SPECIFICATION WebSpec
INVARIANT FirstFrameReported
CHECK_DEADLOCK FALSE
