SPECIFICATION PlanSpec
CONSTANTS
  Heads = {0, 1, 2, 5, 8}
  MaxAttempts = 2
  Word = 16
  MaxTransferPerBatch = 2
  Sizes = {0, 1, 2, 3, 8}
  ToBlocks = {0, 1, 4, 5, 8}
INVARIANTS
  DeployTypeOK
  FoundIsDeployment
  FoundIsFirst
  PlanTiles
  PlanCoversHistory
  BatchesPartition
PROPERTIES
  SearchEnds
CHECK_DEADLOCK FALSE
