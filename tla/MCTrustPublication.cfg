SPECIFICATION Spec
CONSTANTS
  initializer = initializer
  stager = stager
  promoter = promoter
  v1 = v1
  v2 = v2
  v3 = v3
  active = active
  Publishers = {initializer, stager, promoter}
  Promoters = {promoter}
  Initializers = {initializer}
  Versions = {v1, v2, v3}
  States = {active, transitional}
  MaxVersions = 2
  MaxAttempts = 2
  Pods = {d1, d2}
  Replicas = 1
  Scenarios <- MCScenarios
  None = None
INVARIANTS
  TypeOK
PROPERTIES
  HistoryAppendOnly
  PromotedIsServed
  JobsEnd
SYMMETRY MCSymmetry
CHECK_DEADLOCK FALSE
