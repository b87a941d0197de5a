SPECIFICATION MCSpec
CONSTANTS
  Foci = {"fit"}
  Users = {u1}
  Goals = {g1}
  OwnerOf <- MCOwnerOf
  Reqs = {r1}
  Kinds = {"join", "capture"}
  Retention = 5
  Horizon = 3
  Episodes = 1
  Step = 1
  Required = 6
  DayOf <- EveryInstant
  LastDay = 3
  MaxNow = 3
  MaxJoins = 1
  MaxConsent = 1
  MaxFits = 0
  MaxEdits = 5
  Gone = Gone
  Nobody = Nobody
  None = None
  Nothing = Nothing
INVARIANTS OneOpenEpisode
