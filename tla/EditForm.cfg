SPECIFICATION Spec
CONSTANTS
  None = None
  MaxChanges = 1
  MaxSaves = 2
  MaxUpsets = 1
INVARIANTS TypedEditsAreKept
PROPERTIES OthersEditsSurvive
CHECK_DEADLOCK FALSE
