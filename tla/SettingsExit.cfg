CONSTANTS
  MaxVersion = 2
  MaxFailures = 1
SPECIFICATION StoreSpec
INVARIANTS NothingLostAtExit
