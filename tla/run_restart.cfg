SPECIFICATION Spec
CONSTANTS
  j = j  tok = tok  zero = zero  a = a  b = b
  Snapshots = {j}
  Job = j
  Tokens = {tok}
  Addrs = {zero, a, b}
  ZeroAddr = zero
  Word = 16
  MaxTransferPerBatch = 2
  FromBlock = 0
  ToBlock = 0
  Heads = {3, 4}
  DeployBlocks = {1}
  MaxChunkSize = 3
  MaxLogRange = 0
  Workers = 2
  ProgressEveryN = 2
  MaxRuns = 2
  TokenOf <- MCTokenOf
  Logs <- MCLogs
  Plans <- MCPlans
INVARIANTS
  RunTypeOK
PROPERTIES
  ImplementsScans
CHECK_DEADLOCK FALSE
