SPECIFICATION Spec
CONSTANTS
  Literals <- MCLiterals
  Bindings <- MCBindings
  StartsWith <- MCStartsWith
  WellFormed <- MCWellFormed
  Sources <- MCSources
  Times = {1, 2}
  MaxReferenced = 2
  MaxResolutions = 3
  MaxDecisions = 2
  None = None
INVARIANTS
  TypeOK
  AnswersSettleDisputes
  ResolutionOrderImmaterial
  AnsweredIsPublishable
  DirectMeaningsAgree
  DecisionOrderImmaterial
  TracksAgree
CHECK_DEADLOCK FALSE
