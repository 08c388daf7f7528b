CONSTANTS
  MaxLoads = 3
  Items = {a}
  NoItem = none
  MaxPosition = 0
  ScalarFields = {"rate"}
  evt = evt
  None = None
  Producers <- MCProducers
  Inputs <- TransportInputs
  MaxBacklog = 2
  MaxActions = 1
  Batches = 3
  ThemeLoads = 3
  Colors = {c, e}
  DefaultColor = d
  MaxChanges = 4
  MaxSwitches = 4
  No = No
  MaxFile = 2
  MaxIpc = 1
  MaxCmds = 2
  MaxLag = 2
  MaxRefusals = 1
  MaxQueue = 4
  MaxPlays = 3
  MaxControls = 2
  MayAbandon = FALSE
SPECIFICATION PartsSpec
INVARIANTS
  PlaysWithItsTracks
  NoCircularWait
  ThemeFollowsPlayback
  StatsReachPage
  LoopIsOfThisFile
  UiAgreesWhenSettled
  BaselineIsConf
  RunsTheMode
  SinksAgree
  FirstFrameReported
PROPERTIES
  SkipsAreSound
CHECK_DEADLOCK FALSE
