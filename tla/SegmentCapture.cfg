SPECIFICATION FairSpec
CONSTANTS
  e1 = e1
  e2 = e2
  e3 = e3
  Events = {e1, e2, e3}
  Source <- ShortCall
  Flushes = {f1, f2}
  MaxAge = 2
  MaxVersion = 2
  MaxFaults = 1
INVARIANTS TypeOK AckedEvidenceStored SameWhateverTheOrder TimesOrdered
PROPERTIES EvidenceGrows EveryEventAcked
CHECK_DEADLOCK FALSE
