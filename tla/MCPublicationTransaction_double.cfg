SPECIFICATION Spec
CONSTANTS
  N = 7
  Absent = Absent
  Torn = Torn
  Immutable <- MCImmutable
  Contents <- MCContents
  Payloads <- MCPayloads
  CrashAllowed = FALSE
  RollbackFaultAllowed = TRUE
INVARIANTS
  RollbackDeletesNothing
