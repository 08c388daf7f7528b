CONSTANTS
  i1 = i1
  evt = evt
  page = page
  NoItem = NoItem
  None = None
  Items <- MCItems
  Producers <- MCProducers
  Inputs <- MCInputs
  ScalarFields <- MCScalarFields
  MaxPosition = 0
  MaxActions = 1
  MaxBacklog = 2
SPECIFICATION CSpec
INVARIANTS SinksSeePublished StopDrains
PROPERTIES StopReturns
