SPECIFICATION FairSpec
CONSTANTS
  r1 = r1
  r2 = r2
  r3 = r3
  p1 = p1
  p2 = p2
  LastScope = 1
  Records = {r1, r2, r3}
  ScopeOf <- MCOneScope
  TimeOf <- MCDenseTimes
  Horizon = 4
  Window = 2
  Overlap = 2
  Settle = 1
  MaxRecords = 1
  MaxPending = 2
  MaxSegments = 4
  Policies = {p2}
  DefaultPolicy = p2
  LogOnly <- MCNoLogOnly
  Faults = {"sink"}
  None = None
PROPERTIES
  EventuallyDelivered
  CatchesUp
CHECK_DEADLOCK FALSE
