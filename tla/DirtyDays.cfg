SPECIFICATION Spec
CONSTANTS
  e1 = e1
  e2 = e2
  e3 = e3
  s1 = s1
  s2 = s2
  Events = {e1, e2, e3}
  Sessions = {s1, s2}
  SessionOf <- SharedSession
  Workers = {w1}
  CompleteAt = 2
  MaxFailures = 1
  MaxClock = 8
  NoEvent = NoEvent
INVARIANTS TypeOK NoLostEvidence
PROPERTIES AggregateGrows
CHECK_DEADLOCK FALSE
