SPECIFICATION Spec
CONSTANTS
  Users = {u1}
  Titles = {t1}
  Units = {"minutes", "sessions"}
  Sessions = {10}
  Initials = {0}
  East = East
  West = West
  Zones = {East, West}
  a1 = a1
  a2 = a2
  EmptyAnswers = EmptyAnswers
  Answers = {EmptyAnswers, a1}
  NoDate = NoDate
  Keep = Keep
  NoSnapshot = NoSnapshot
  MaxRevision = 2
  MaxAnswerRevision = 1
  MaxNow = 1
  LastDay = 1
  LocalDateIn <- MCLocalDateIn
  Goals = {g1}
  Keys = {k1}
  Reqs = {r1, r2}
  Kinds = {"create", "patch", "put", "delete"}
  BodySet <- AnsweredBody
  EditSet <- RecordEdits
  NoGoal = NoGoal
  NoOp = NoOp
  NoUnit = NoUnit
SYMMETRY Slots
INVARIANTS RowsKeepTheirMeaning
PROPERTIES NoLostUpdates TransactionsAreAtomic
