CONSTANTS
  Instants = {0, 2000, 2001}
  Grain = 3
  MaxRecords = 8
  MaxSteps = 2
  MaxResets = 2
  MaxQueue = 1
SPECIFICATION Spec
CHECK_DEADLOCK FALSE
INVARIANTS HintedStageFillsSteps
