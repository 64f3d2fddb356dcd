SPECIFICATION FairSpec
CONSTANTS
  N = 1
  Placements <- OneNodePlacements
  MAX_BATCH_SIZE = 1
  MAX_ACTIVE_TXNS = 1
  EpochLimit <- OneNodeEpochs
  Stoppable = {0}
PROPERTY Halts
CHECK_DEADLOCK FALSE
