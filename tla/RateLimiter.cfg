CONSTANTS
  Window = 3
  RpmLimit = 3
  TpmLimit = 4
  Sizes = {1, 3}
  MaxTime = 5
SPECIFICATION Spec
INVARIANTS RequestsPerWindow OneRequestOver RefusedOnlyWhenFull
CHECK_DEADLOCK FALSE
