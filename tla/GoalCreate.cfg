SPECIFICATION FairSpec
CONSTANTS
  Users = {u1, u2}
  Titles = {t1}
  Units = {"minutes"}
  Sessions = {10}
  Initials = {0}
  East = East
  West = West
  Zones = {East}
  a1 = a1
  a2 = a2
  EmptyAnswers = EmptyAnswers
  Answers = {EmptyAnswers}
  NoDate = NoDate
  Keep = Keep
  NoSnapshot = NoSnapshot
  MaxRevision = 1
  MaxAnswerRevision = 1
  MaxNow = 0
  LastDay = 1
  LocalDateIn <- MCLocalDateIn
  Goals = {g1, g2}
  Keys = {k1}
  Reqs = {r1, r2}
  Kinds = {"create", "delete", "patch"}
  BodySet <- CreateBodies
  EditSet <- OneEdit
  NoGoal = NoGoal
  NoOp = NoOp
  NoUnit = NoUnit

INVARIANTS OneGoalPerKey AnswerStandsForTheKey
PROPERTIES EveryRequestIsAnswered
