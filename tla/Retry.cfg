SPECIFICATION Spec
CONSTANTS
  Consumers = {c1, c2}
  Partitions = {p1, p2}
  Base = 2
  MaxDelay = 3
  MaxAttempts = 3
  Skew = 1
  MaxRecords = 2
  MaxTime = 5
  MaxLost = 1
SYMMETRY Symmetric
INVARIANTS TypeOK NotTooEarly NoPileUp
CHECK_DEADLOCK FALSE
