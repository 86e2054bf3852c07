SPECIFICATION Spec
CONSTANTS
  Stems = {s1, s2}
  Policies <- MCPolicies
  RefOf <- MCRefOf
  Blocked = {}
  Approvers = {ann}
  Times = {1, 2}
  Publishers = {p1}
  MaxAttempts = 2
  LifecycleStates = {"active", "revoked"}
  Serial = TRUE
  None = None
SYMMETRY MCSymmetry
INVARIANTS
  TypeOK
  RegisteredIsComplete
  ReturnedStaysRegistered
  PublicationIdsDistinct
  InterruptedCanBeFinished
