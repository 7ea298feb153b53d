SPECIFICATION ClassifyFairSpec
CONSTANTS
  a = a  p1 = p1
  Partitions = {p1}
  Requests <- MCRequests
  Registered = {"ethereum"}
  PartOf <- MCPartOf
  FirstCode <- MCFirstCode
  TTL = 2
  MaxDays = 2
  MaxChanges = 1
  MaxMessages = 2
  MaxFailures = 1
  MaxRestarts = 1
INVARIANTS
  ClassifyTypeOK
  NothingSkippedUnseen
  KindsWereTrue
  StaleWithinTTL
  TableSettles
PROPERTIES
  CommittedMonotone
  EveryMessageDelivered
  AskedLeadsToRow
CHECK_DEADLOCK FALSE
