SPECIFICATION Spec
CONSTANTS
  NULL = NULL
  Key = {1, 2, 3}
  Value = {7}
  VersionsOf <- MCVersionsOf
  ReadVersions = {1, 3}
INVARIANT SeekFindsTarget
CHECK_DEADLOCK FALSE
