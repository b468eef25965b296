SPECIFICATION Spec
CONSTANTS
  Days = {d1, d2}
  LeaseIds = {i1, i2, i3, i4}
  DayLeaseMs = 2
  Timeout = 1
  Gap = 2
  NoDay = NoDay
  NoLease = NoLease
  MaxClock = 6
SYMMETRY Symmetry
INVARIANTS TypeOK MutualExclusion RefusedForCause
PROPERTIES HolderKeepsLease MutexSpec
