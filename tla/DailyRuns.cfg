SPECIFICATION DailyFairSpec
CONSTANTS
  DayLength = 4
  NormalGap = 1
  FullGap = 2
  Lookahead = 4
  Sessions = {2, 5, 7}
  Evidence <- MCEvidence
  Lifetime = 4
  Delays = {0, 4}
  RunHour = 3
  DirtyLimit = 1
  NoSegment = NoSegment
  MaxVersions = 3
  MaxMishaps = 1
  LastHour = 15
CHECK_DEADLOCK FALSE
INVARIANTS DailyTypeOK SettledDayCurrent WindowExact
PROPERTY EveryDaySettled
