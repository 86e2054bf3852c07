SPECIFICATION Spec
CONSTANTS
  Actors = {ann}
  MaxLifecycle = 6
  MaxSnapshots = 2
  None = None
INVARIANTS
  TypeOK
  StatusFollowsLifecycle
  DeploymentIsEarned
PROPERTIES
  TerminalStatusesAreLeftOnRecord
