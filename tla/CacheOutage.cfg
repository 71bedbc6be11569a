SPECIFICATION Spec
CONSTANTS
  Readers = {r1}
  MaxVersion = 2
  MaxFaults = 2
INVARIANT OutageDegrades
