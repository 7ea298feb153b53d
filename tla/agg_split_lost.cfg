SPECIFICATION Spec
CONSTANTS
  s1 = s1  s2 = s2  tok = tok  zero = zero  a = a  b = b
  Snapshots = {s1}
  Tokens = {tok}
  Addrs = {zero, a, b}
  ZeroAddr = zero
  Word = 16
  MaxTransferPerBatch = 1
  MaxRuns = 1
  MaxFaults = 0
  MaxCrashes = 0
  TokenOf <- MCTokenOf
  ChainOf <- MCChainOf
  Logs <- MCLogs
  Plans <- PlansOne
INVARIANTS
  SnapshotExact
CHECK_DEADLOCK FALSE
