SPECIFICATION Spec
CONSTANTS
  keycloak = keycloak
  reader = reader
  Roles = {keycloak, reader}
  BaseRoles = {keycloak}
  Records = {database, verifier}
  Policies = {p1, p2, p3, p4}
  None = None
  OnlyBase = OnlyBase
INVARIANTS
  GrantsAreOwned
  RetriesGoThrough
  CompletedExactly
SYMMETRY MCSymmetry
CHECK_DEADLOCK FALSE
