SPECIFICATION Spec
CONSTANTS
  eOk = eOk
  eTransient = eTransient
  ePermanent = ePermanent
  eUnknown = eUnknown
  ePoison = ePoison
  eSlow = eSlow
  Workers = {w1, w2}
  Events = {ePermanent, eUnknown}
  Kind <- KindOfEvents
  MaxAttempts = 2
  Slow = {}
  MaxEvents = 1
  MaxFaults = 1
SYMMETRY WorkerSymmetry
CHECK_DEADLOCK FALSE
INVARIANT FailedIsDeadLettered
