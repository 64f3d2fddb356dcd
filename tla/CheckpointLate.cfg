SPECIFICATION Spec
CONSTANTS
  NULL = NULL
  Key = {1, 2}
  LastTxn = 4
  Writes <- LateWrites
  Kinds = {"hobbes"}
  InPlace = {}
  Lead = 1
  Window = 2
  Rounds = 1
INVARIANT StableSnapshot
CHECK_DEADLOCK FALSE
