SPECIFICATION Spec
CONSTANTS
  Files = {1, 2, 3}
  Unapplied = Unapplied
  m2 = m2
  m3 = m3
  k1 = k1
  Migrators = {m2, m3}
  Checkers = {k1}
  Checkout <- MCCheckout
  Target <- MCTarget
  Legacy = {1}
  Nobody = Nobody
  MaxStarts = 2
  Seeders = {s1, s2}
  Slots = {fast, slow}
  MaxGoals = 6
  NoMarker = NoMarker
  Requests = {r1, r2}
  Starts = {1, 2}
  NoStart = NoStart
INVARIANTS ReportsStand SeedIsAllOrNothing PoolsAreSound
PROPERTIES HistoryGrowsInOrder
CHECK_DEADLOCK FALSE
