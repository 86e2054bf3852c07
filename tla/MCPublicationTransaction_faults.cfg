SPECIFICATION FairSpec
CONSTANTS
  N = 7
  Absent = Absent
  Torn = Torn
  Immutable <- MCImmutable
  Contents <- MCContents
  Payloads <- MCSamePolicy
  CrashAllowed = TRUE
  RollbackFaultAllowed = TRUE
INVARIANTS
  TypeOK
  NoPartialRegistration
  AllOrNothing
  ReplacedFilesRecoverable
PROPERTIES
  ImmutableOutputsKept
  AttemptsEnd
