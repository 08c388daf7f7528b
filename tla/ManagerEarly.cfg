CONSTANTS
  MayAskEarly = TRUE
  MaxQueue = 3
SPECIFICATION ManagerSpec
PROPERTIES ShutdownIsObserved
