SPECIFICATION FilesSpec
CONSTANTS
  Keys = {x, y}
  MaxPuts = 3
  MaxFiles = 5
  MaxCrashes = 2
SYMMETRY Symmetry
INVARIANTS FilesHoldSaved RecoversRecent
CHECK_DEADLOCK FALSE
