SPECIFICATION Spec
CONSTANTS
  Codes = {g1}
  Subs = {a, b, c}
  Calls = {k1, k2}
  NoSub = NoSub
  NoCode = NoCode
  Defer = 2
  Ttl = 1
  MaxFuture = 4
  MaxStart = 2
  MaxClock = 2
SYMMETRY Symmetry
CHECK_DEADLOCK FALSE
INVARIANTS TypeOK RecordedMeansGranted SharerGrantedOnce
PROPERTIES CapRespected
