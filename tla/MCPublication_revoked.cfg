SPECIFICATION Spec
CONSTANTS
  Stems = {s1}
  Policies <- MCPolicies
  RefOf <- MCRefOf
  Blocked = {}
  Approvers = {ann}
  Times = {1}
  Publishers = {p1}
  MaxAttempts = 2
  LifecycleStates = {"active", "revoked"}
  Serial = TRUE
  None = None
PROPERTIES
  LifecycleStateKept
