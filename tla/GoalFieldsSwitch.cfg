SPECIFICATION FieldsSpec
CONSTANTS
  Nothing = Nothing
  MaxAmount = 125
  MaxNumber = 200
  TypedTexts <- MCTexts
  StoredRows <- MCRows
  TypedDates <- MCDates
  MaxTyped = 3
  MaxChanges = 1
  LastInstant = 1
PROPERTIES SwitchesKeepUnfinishedInput
CHECK_DEADLOCK FALSE
