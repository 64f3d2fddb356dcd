SPECIFICATION Spec
CONSTANTS
  NULL = NULL
  Key = {1, 2}
  LastTxn = 8
  Writes <- MCWrites
  Kinds = {"naive", "multiversion", "hobbes", "filtered", "pingpong"}
  InPlace = {2, 5}
  Lead = 1
  Window = 2
  Rounds = 2
INVARIANTS CleanSnapshot FrozenSnapshot ReadsKept OneUnstable
CHECK_DEADLOCK FALSE
