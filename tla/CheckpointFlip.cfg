SPECIFICATION Spec
CONSTANTS
  NULL = NULL
  Key = {1, 2}
  LastTxn = 8
  Writes <- MCWrites
  Kinds = {"pingpong"}
  InPlace = {}
  Lead = 1
  Window = 2
  Rounds = 2
INVARIANT PointOfConsistency
CHECK_DEADLOCK FALSE
