SPECIFICATION DSpec
CONSTANTS
  Partitions = {p1, p2}
  MaxMessages = 2
  MaxFailures = 1
  MaxRestarts = 0
INVARIANTS
  FailedMessagesReprocessed
CHECK_DEADLOCK FALSE
