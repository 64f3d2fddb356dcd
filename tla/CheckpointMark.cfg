SPECIFICATION Spec
CONSTANTS
  NULL = NULL
  Key = {1, 2}
  LastTxn = 8
  Writes <- MCWrites
  Kinds = {"hobbes", "filtered"}
  InPlace = {2, 5}
  Lead = 1
  Window = 2
  Rounds = 2
INVARIANT FilterFound
CHECK_DEADLOCK FALSE
