SPECIFICATION Spec
CONSTANTS
  e1 = e1
  e2 = e2
  e3 = e3
  s1 = s1
  s2 = s2
  Events = {e1, e2, e3}
  Sessions = {s1, s2}
  SessionOf <- SharedSession
  Workers = {w1, w2}
  CompleteAt = 0
  MaxFailures = 0
  MaxClock = 5
  NoEvent = NoEvent
INVARIANT NoLostEvidence
CHECK_DEADLOCK FALSE
