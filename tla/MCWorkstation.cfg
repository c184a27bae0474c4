SPECIFICATION Spec
CONSTANTS
  a1 = a1
  a2 = a2
  a3 = a3
  r1 = r1
  r2 = r2
  r3 = r3
  r4 = r4
  v1 = v1
  v2 = v2
  m1 = m1
  m2 = m2
  m3 = m3
  h1 = h1
  h2 = h2
  e1 = e1
  e2 = e2
  None = None
  Untracked = Untracked
  Unconfirmed = Unconfirmed
  Aliases = {a1, a2, a3}
  Recipes = {r1, r2, r3, r4}
  AliasOf <- MCAliasOf
  Tuned = {r2, r3, r4}
  Options = {e1, e2}
  Groups = {{a1, a2}, {a3}}
  LlmGroups = {{a3}}
  Families = {{r1}, {r2, r3}, {r4}}
  Versions = {v1, v2}
  RuntimeOps = 2
  Selections = {m1, m2, m3}
  Catalog = {m1, m2}
  Pinned = {m2}
  Revisions = {h1, h2}
  Operators = {e1, e2}
  LastCommit = 2
  ReleaseRuns = 3
  PythonRuns = 3
  Texts = {e1, e2}
  NotesCommits = 4
  NotesEdits = 4
  Models = {e1, e2, a3}
  Fit = {e1, e2}
  Twins = {e1, e2}
  Custom = {a3}
  MaxPages = 2
  SyncRuns = 1
  SyncEdits = 1
  Rates = {r1}
  Sources <- MCSources
  Prices <- MCPrices
  Thresholds = {1, 3}
  Sizes = {0, 2, 4}
  MaxOverrides = 2
  Callers = {e1, e2}
  Entries = {"git", "script", "values"}
  Git = "git"
  SourceOps = 3
  SourceEdits = 2
INVARIANTS
  TypeOK
  RestoredMeansBefore
  WholeOrUntouched
  BilledAsListed
PROPERTIES
  ReceiptsEarned
  CopiesAreWhole
  ReleasesAreAuthorised
  PushedIsReviewed
SYMMETRY MCSymmetry
CHECK_DEADLOCK FALSE
