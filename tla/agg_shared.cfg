SPECIFICATION FairSpec
CONSTANTS
  s1 = s1  s2 = s2  tok = tok  zero = zero  a = a  b = b
  Snapshots = {s1, s2}
  Tokens = {tok}
  Addrs = {zero, a, b}
  ZeroAddr = zero
  Word = 16
  MaxTransferPerBatch = 3
  MaxRuns = 1
  MaxFaults = 0
  MaxCrashes = 1
  TokenOf <- MCTokenOf
  ChainOf <- MCChainOf
  Logs <- MCLogs
  Plans <- PlansShared
INVARIANTS
  SnapshotExact
  CoverageHonest
PROPERTIES
  DoneLeadsToReady
  ReadyLeadsToRequests
CHECK_DEADLOCK FALSE
