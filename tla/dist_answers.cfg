SPECIFICATION Spec
CONSTANTS
  Values <- MCValues
  MaxHolders = 3
  Chains = {"ethereum", "polygon"}
  MaxUpserts = 2
INVARIANTS
  MetricsMeetDefinitions
  AnswerWhole
  FilteredLeavesOutPrograms
CHECK_DEADLOCK FALSE
