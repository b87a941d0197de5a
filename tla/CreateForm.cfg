SPECIFICATION FormsSpec
CONSTANTS
  Users = {u1, u2}
  Nobody = Nobody
  Unknown = Unknown
  MaxUpsets = 2
  Keys = {k1, k2}
  BodyKinds = {"dated", "unsound"}
  Slots = {s1, s2}
  None = None
  Nothing = Nothing
  MaxAmount = 125
  MaxNumber = 200
  TypedTexts <- MCTexts
  StoredRows <- MCRows
  TypedDates <- MCDates
  MaxTyped = 3
  MaxChanges = 1
  LastInstant = 1
SYMMETRY Interchangeable
INVARIANTS UnknownCreationsAreKept RefusalsStand WorkStaysWithItsOwner ShownIsSent FormsAgreeWithTheServer
CHECK_DEADLOCK FALSE
