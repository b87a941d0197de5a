SPECIFICATION MCSpec
CONSTANTS
  Users = {u1}
  Goals = {g1, g2}
  TheGoal = g1
  OwnerOf <- MCOwnerOf
  Reqs = {r1, r2}
  Kinds = {"join", "withdraw", "capture"}
  Retention = 3
  MaxSnapshots = 1
  Required = 2
  DayOf <- LongFirstDay
  LastDay = 2
  MaxNow = 3
  MaxJoins = 2
  MaxEdits = 3
  Gone = Gone
  Nobody = Nobody
  Nothing = Nothing
SYMMETRY Slots
INVARIANTS FirstCardStands ConsentCoversCards
PROPERTIES CardsDescribeTheGoal AcceptedStands
