SPECIFICATION Spec
CONSTANTS
  Tokens = {t1}
  Calls = {k1, k2}
  NoToken = NoToken
  DeferDays = 2
  MaxRedemptions = 0
  MaxFuture = 5
  Ends = 1
  MaxStart = 1
  MaxFailures = 0
  MaxClock = 0
SYMMETRY Symmetry
INVARIANT OncePerToken
