SPECIFICATION Spec
CONSTANTS
  MaxSaid = 2
  MaxPushes = 2
  MaxBatches = 1
INVARIANTS
  OneIndexPerExchange
  AnalysedWhole
PROPERTIES
  HangupEnds
CHECK_DEADLOCK FALSE
