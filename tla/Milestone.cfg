SPECIFICATION MCSpec
CONSTANTS
  Foci = {"fit", "consent", "correct"}
  Users = {u1}
  Goals = {g1}
  OwnerOf <- MCOwnerOf
  Reqs = {r1, r2}
  Kinds = {"join", "capture", "fit"}
  Retention = 4
  Horizon = 1
  Episodes = 1
  Step = 1
  Required = 4
  DayOf <- EveryInstant
  LastDay = 3
  MaxNow = 3
  MaxJoins = 1
  MaxConsent = 1
  MaxFits = 2
  MaxEdits = 2
  Gone = Gone
  Nobody = Nobody
  None = None
  Nothing = Nothing
SYMMETRY Slots
INVARIANTS DerivedOnlyByConsent TrainingIsSound
PROPERTIES EpisodesDescribeTheGoal FitsNeverGoBack
