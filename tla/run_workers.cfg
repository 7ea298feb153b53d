SPECIFICATION FairSpec
CONSTANTS
  j = j  tok = tok  zero = zero  a = a  b = b
  Snapshots = {j}
  Job = j
  Tokens = {tok}
  Addrs = {zero, a, b}
  ZeroAddr = zero
  Word = 16
  MaxTransferPerBatch = 1
  FromBlock = 0
  ToBlock = 5
  Heads = {5}
  DeployBlocks = {1, 6}
  MaxChunkSize = 3
  MaxLogRange = 2
  Workers = 2
  ProgressEveryN = 2
  MaxRuns = 1
  TokenOf <- MCTokenOf
  Logs <- MCLogs
  Plans <- MCPlans
INVARIANTS
  ProgressHonest
PROPERTIES
  ImplementsScans
  RunEnds
CHECK_DEADLOCK FALSE
