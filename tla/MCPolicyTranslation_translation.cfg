SPECIFICATION Spec
CONSTANTS
  Literals <- MCLiterals
  Bindings <- MCBindings
  StartsWith <- MCStartsWith
  WellFormed <- MCWellFormed
  Candidates <- MCCandidates
  Times = {1, 2}
  None = None
INVARIANTS
  TypeOK
  PublishedMeaningWasConfirmed
  PublishedInOrder
  ReadinessAgrees
  WorkCanProceed
  V2AgreesWithV3
  ApprovedIsPublishable
PROPERTIES
  RecordsAreFinal
CHECK_DEADLOCK FALSE
