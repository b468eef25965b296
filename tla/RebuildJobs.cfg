SPECIFICATION FairSpec
CONSTANTS
  MaxDay = 2
  MaxOverrides = 2
  Chunk = 1
  MaxAggs = 3
  MaxFailures = 2
INVARIANTS TypeOK SettledDaysFollowOverrides OneOpenOverride
PROPERTIES OnlyAggregationCreates JobsEnd
CHECK_DEADLOCK FALSE
