SPECIFICATION Spec
CONSTANTS
  Users = {u1, u2}
  Nobody = Nobody
  Unknown = Unknown
  MaxUpsets = 2
  Owner = u1
  None = None
  MaxChanges = 1
INVARIANTS OnlyTheSitterActs SavesStandAsPressed
CHECK_DEADLOCK FALSE
