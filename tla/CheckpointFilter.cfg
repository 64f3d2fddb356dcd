SPECIFICATION Spec
CONSTANTS
  NULL = NULL
  Key = {1, 2}
  LastTxn = 5
  Writes <- FilterWrites
  Kinds = {"filtered"}
  InPlace = {}
  Lead = 0
  Window = 2
  Rounds = 2
INVARIANTS FilterCatchesAll
CHECK_DEADLOCK FALSE
