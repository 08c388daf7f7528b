CONSTANTS
  MayAskEarly = FALSE
  MaxQueue = 3
  MaxVersion = 4
  MaxFailures = 1
  CefThreads = {t1, t2}
  MaxPosts = 3
  MaxDelayed = 2
SPECIFICATION PartsSpec
INVARIANTS
  NothingStranded
  DrainLosesNothing
PROPERTIES
  KeepsPromise
  QueuedIsWritten
  PumpNeverWedges
