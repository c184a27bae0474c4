SPECIFICATION Spec
CONSTANTS
  x1 = x1
  x2 = x2
  y1 = y1
  y2 = y2
  o1 = o1
  o2 = o2
  g1 = g1
  g2 = g2
  Fixed = Fixed
  None = None
  Callers = {x1, x2}
  SnapshotNames = {"name"}
  NameOf <- OneName
  Inputs = {"input"}
  MaxWait = 1
  MaxAttempts = 2
  Observations = {o1, o2}
  Replicas = {g1, g2}
  Policies = {x1, x2}
  ProxySigners = {"signer"}
  ObservedScenarios <- Scenarios
  Operators = {x1, x2}
  SwitchProducts = {y1, y2}
  Images = {g1, g2}
  SwitchOps = 3
  SwitchEdits = 2
  DatabaseJobs = {x1, x2}
  ProductOf <- OwnUser
  DatabaseRuns = 3
  NativeRuns = 2
  NativeEdits = 2
  InspectionRuns = 2
  Targets = {x1, x2}
  Sources = {y1, y2}
  DirectoryRuns = 3
  DirectoryEdits = 1
  RealmJobs = {"base", "addon", "client", "person", "composite"}
  RealmObjects = {"user", "app", "admins", "account", "ann", "aud", "realm", "view"}
  KindOf <- Kind
  DeclaredBy <- Declares
  OwnedBy <- Owns
  AddedBy <- Adds
  RealmRuns = 2
  RealmEdits = 1
  OnboardingGroups = {x1, x2}
  OnboardingOps = 2
  OnboardingEdits = 1
  ScopedRuns = 2
  ScopedEdits = 2
  SelectedRecords <- InOrder
  FieldRecords <- RecordOf
  FieldKinds <- FieldKind
  FieldSources <- Source
  TypedInputs = {y1, y2}
  CredentialRuns = 2
  Purposes = {y1, y2}
  Digests = {g1}
  Slots = {x1, x2}
  MaxChanges = 3
  RolloutRuns = 2
INVARIANTS
  TypeOK
  AnswersAreTrue
  GrantsAreWhole
  OwnedStand
  ReportIsTrue
  BackendStands
  PodsAreConfined
PROPERTIES
  StatusIsWitnessed
  FailsClosed
  KeysStand
  InstanceIsGuarded
  ReadyMeansRolled
SYMMETRY MCSymmetry
CHECK_DEADLOCK FALSE
