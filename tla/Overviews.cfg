\* Two establishments, two threads; a day is two ticks, the windows one and two days.
SPECIFICATION PageSpec
CONSTANTS
  Etabs = {1, 2}
  Threads = {t1, t2}
  Payloads <- Counted
  StartClock = 1
  MaxClock = 4
  MaxPushes = 2
  DayLength = 2
  ShortDays = 1
  LongDays = 2
  TrendLength = 2
  TopLimit = 1
  RecentLimit = 1
SYMMETRY ThreadSymmetry
INVARIANTS
  Replayable
  NewestWins
  ShortWithinLong
  TotalsAreTrue
  RecentExplainsTotals
  TopIsTop
  TrendAgrees
  InventoryIsCurrent
