SPECIFICATION Spec
CONSTANTS
  eOk = eOk
  eTransient = eTransient
  ePermanent = ePermanent
  eUnknown = eUnknown
  ePoison = ePoison
  eSlow = eSlow
  Workers = {w1, w2}
  Events = {eOk, eTransient, ePermanent, eUnknown, ePoison, eSlow}
  Kind <- KindOfEvents
  MaxAttempts = 2
  Slow = {eSlow}
  MaxEvents = 1
  MaxFaults = 2
SYMMETRY WorkerSymmetry
CHECK_DEADLOCK FALSE
INVARIANTS TypeOK AttemptsBounded NoOrphan DoneMeansSettled DeadLetterIsJustified NoStaleFlush PoisonReachesDlq
PROPERTIES TerminalIsFinal ImplementsOrderLife
