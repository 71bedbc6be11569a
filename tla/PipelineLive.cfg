SPECIFICATION FairSpec
CONSTANTS
  eOk = eOk
  eTransient = eTransient
  ePermanent = ePermanent
  eUnknown = eUnknown
  ePoison = ePoison
  eSlow = eSlow
  Workers = {w1, w2}
  Events = {eTransient, ePoison}
  Kind <- KindOfEvents
  MaxAttempts = 2
  Slow = {}
  MaxEvents = 1
  MaxFaults = 2
CHECK_DEADLOCK FALSE
PROPERTIES EveryOrderSettles EveryDeadLetterArchived
