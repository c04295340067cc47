\* Pushes of one M4 that overlap each other and the answers; two requests that overlap
\* each other (Bounded says when); a tick is a day, and today is the third or later.
SPECIFICATION BoundedSpec
CONSTANTS
  Etabs = {e1}
  Threads = {t1, t2}
  Readers = {g1, g2}
  Payloads <- Reported
  StartClock = 3
  MaxClock = 5
  MaxPushes = 2
  OnlineMax = 0
  SilentMin = 1
  DayLength = 1
  RecentDays = 1
  TrendDays = 3
  DetailDays = 4
  NoDay <- NoPeriod
SYMMETRY ThreadSymmetry
INVARIANTS
  HealthIsTrue
  IncidentsAreTrue
  WeekMatchesTrend
  DormantIsTrue
  NeverStale
