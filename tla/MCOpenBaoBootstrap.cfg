SPECIFICATION Spec
CONSTANTS
  core = core
  addon = addon
  Operators = {t1, t2}
  Selections <- MCSelections
  Base = {core}
  MaxTokens = 4
  MaxValues = 2
  MaxFaults = 3
  None = None
  Torn = Torn
INVARIANTS
  TypeOK
  SavedPasswordsStand
  ResumableOnceSealed
PROPERTIES
  NoRootRetained
SYMMETRY MCSymmetry
CHECK_DEADLOCK FALSE
