CONSTANTS
  i1 = i1
  i2 = i2
  NoItem = NoItem
  Items <- MCItems
  ScalarFields = {"rate"}
  MaxPosition = 1
  MaxActions = 1
  Procs = {p1, p2}
  Files = {"settings"}
  Directories = {"mpv"}
  MaxLaunches = 3
  MaxRefusals = 2
  Launches = {a, b, c, d}
  NoLaunch = none
  MaxConnections = 1
  RebindRetries = 1
  MaxInputs = 3
SPECIFICATION PartsSpec
INVARIANTS
  StoppedIsClean
  IntentMatchesPhase
  PromotionNotMissed
  LossIsReported
  ImportedBeforeRunning
  OneInstance
  MenuIsOnScreen
PROPERTIES
  EventsSuffice
  OwnDataSurvives
CHECK_DEADLOCK FALSE
