SPECIFICATION Spec
CONSTANTS
  NULL = NULL
  Key = {1, 2}
  LastTxn = 8
  Writes <- MCWrites
  Kinds = {"hobbes"}
  InPlace = {5}
  Lead = 1
  Window = 2
  Rounds = 1
INVARIANT StableSnapshot
CHECK_DEADLOCK FALSE
