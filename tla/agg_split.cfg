SPECIFICATION Spec
CONSTANTS
  s1 = s1  s2 = s2  tok = tok  zero = zero  a = a  b = b
  Snapshots = {s1}
  Tokens = {tok}
  Addrs = {zero, a, b}
  ZeroAddr = zero
  Word = 16
  MaxTransferPerBatch = 1
  MaxRuns = 2
  MaxFaults = 0
  MaxCrashes = 1
  TokenOf <- MCTokenOf
  ChainOf <- MCChainOf
  Logs <- MCLogs
  Plans <- PlansHead
INVARIANTS
  ReadyAfterFullScan
  ScanInv
  PublishedFromChain
CHECK_DEADLOCK FALSE
