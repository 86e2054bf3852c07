SPECIFICATION Spec
CONSTANTS
  signed_oracle = signed_oracle
  Texts <- MCTexts
  Clocks = {block_timestamp, signed_oracle}
  Subjects = {active_governance_state}
  Amounts = {60, 70}
  Labels = {"timestamp_source"}
  Wordings = {wording}
  Roles <- MCRoles
  Teams <- MCTeams
  IndependentRoles <- MCIndependentRoles
  MaxDecisions = 2
  MaxVersions = 3
  None = None
CONSTRAINT ThirdVersionIsPlain
INVARIANTS
  CommitIsSettled
  ReinterpretationNoticed
  DecidedIsCompiled
  LostRequirementIsFlagged
  ChangedConditionsAreFlagged
  WeakeningNotLaundered
CHECK_DEADLOCK FALSE
