SPECIFICATION Spec
CONSTANTS
  Tokens = {t1, t2, t3}
  Calls = {k1, k2}
  NoToken = NoToken
  DeferDays = 2
  MaxRedemptions = 2
  MaxFuture = 5
  Ends = 1
  MaxStart = 1
  MaxFailures = 1
  MaxClock = 2
SYMMETRY Symmetry
INVARIANTS TypeOK CountTracksGrants OvershootBounded
PROPERTY CapRespected
