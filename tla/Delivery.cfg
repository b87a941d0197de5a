SPECIFICATION Spec
CONSTANTS
  MaxCommit = 2
  Needs <- MCNeeds
  Workflows = {"Application", "Foundation"}
  MaxUpsets = 3
INVARIANTS ResultsStand ServedCodeHasItsSchema FailedSwitchesBlock
PROPERTIES MainIsDeployed
CHECK_DEADLOCK FALSE
