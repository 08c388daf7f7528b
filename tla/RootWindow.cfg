CONSTANTS
  MaxRequests = 1
  MaxUserActions = 0
SPECIFICATION RootSpec
INVARIANTS EveryRequestIsServed
CHECK_DEADLOCK FALSE
