SPECIFICATION FairSpec
CONSTANTS
  r1 = r1
  r2 = r2
  r3 = r3
  p1 = p1
  p2 = p2
  LastScope = 1
  Records = {r1, r2, r3}
  ScopeOf <- MCOneScope
  TimeOf <- MCDenseTimes
  Horizon = 4
  Window = 2
  Overlap = 2
  Settle = 1
  MaxRecords = 1
  MaxPending = 4
  MaxSegments = 2
  Policies = {p2}
  DefaultPolicy = p2
  LogOnly <- MCNoLogOnly
  Faults = {}
  None = None
PROPERTIES
  CatchesUp
CHECK_DEADLOCK FALSE
