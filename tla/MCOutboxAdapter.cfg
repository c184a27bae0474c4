SPECIFICATION Spec
CONSTANTS
  r1 = r1
  r2 = r2
  r3 = r3
  p1 = p1
  p2 = p2
  LastScope = 2
  Records = {r1, r2, r3}
  ScopeOf <- MCTwoScopes
  TimeOf <- MCTimes
  Horizon = 5
  Window = 2
  Overlap = 1
  Settle = 1
  MaxRecords = 1
  MaxPending = 2
  MaxSegments = 3
  Policies = {p1, p2}
  DefaultPolicy = p2
  LogOnly <- MCLogOnly
  Faults = {"crash", "source", "sink"}
  None = None
INVARIANTS
  NothingPassedOver
  OneEventPerOccurrence
  PendingBounded
PROPERTIES
  DecisionsAreFinal
CHECK_DEADLOCK FALSE
