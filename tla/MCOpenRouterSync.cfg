SPECIFICATION Spec
CONSTANTS
  m1 = m1
  m2 = m2
  m3 = m3
  Models = {m1, m2, m3}
  Fit = {m1, m2}
  Twins = {m1, m2}
  Custom = {m3}
  MaxPages = 2
  MaxRuns = 1
  MaxEdits = 0
  UndoBreaks = TRUE
  None = None
INVARIANTS
  CancelLeavesFiles
CHECK_DEADLOCK FALSE
