SPECIFICATION Spec
CONSTANTS
  Mobiles = {m1}
  Browsers = {b1, b2}
  SessionIds = {s1}
  Authorizers = {a1, a2}
  Refreshers = {r1}
  None = None
  Lease = 1
  MaxAuth = 2
  MaxClock = 3
SYMMETRY Symmetry
INVARIANTS TypeOK OneActivePerMobile AccessWithinAuthorization SilentBrowserLosesAccess
PROPERTY OnlyAuthorizationActivates
