SPECIFICATION MCSpec
CONSTANTS
    FallbackShape = 2
    Horizon = 4
    MaxClosedHorizon = 4
    MaxClosedShape = 4
    ShortShape = 2
    DayBudget = 6
    MaxDays = 16
    Scale = 200
    Margin = 2
    Unit = 8
    Calendars <- MCCalendars
    Openings <- MCOpenings
    Totals <- MCTotals
    MaxAmount = 2
    Noises <- MCNoises
    Draws <- MCDraws
    ObservationDays = 3
    MaxRevisions = 2
    MaxCards = 2
    AskDays = 4
    KeepDays = 6
    Users = {u1}
    Titles = {"title"}
    Units = {"minutes"}
    Sessions = {10}
    Initials = {0}
    East = East
    West = West
    Zones = {East, West}
    EmptyAnswers = EmptyAnswers
    Answers = {EmptyAnswers, a1}
    NoDate = NoDate
    Keep = Keep
    NoSnapshot = NoSnapshot
    MaxRevision = 1
    MaxAnswerRevision = 1
    MaxNow = 2
    LastDay = 1
    LocalDateIn <- ReadsCalendar
    Goals = {g1}
    Keys = {k1}
    Reqs = {r1}
    Kinds = {"create", "patch", "put", "delete"}
    BodySet <- ReadsBodies
    EditSet <- ReadsEdits
    NoGoal = NoGoal
    NoOp = NoOp
    NoUnit = NoUnit
    Readers = {q1}
    NoReply = NoReply
INVARIANTS
    AnswersAreUsable
    AnswersAreOneMoment
    CountsFollowTheCalendar
    CompletionDaysAreFirst
    RecoveryDaysAreFirst
    CoverageBracketsTheTruth
PROPERTIES
    VerdictsStand
CHECK_DEADLOCK FALSE
