SPECIFICATION FairSpec
CONSTANTS
  N = 2
  Placements <- TwoNodePlacements
  MAX_BATCH_SIZE = 2
  MAX_ACTIVE_TXNS = 1
  EpochLimit <- TwoNodeEpochs
  Stoppable = {1}
INVARIANTS StartTogether UniqueIds
PROPERTIES TotalOrderSpec BatchesTaken
CHECK_DEADLOCK FALSE
