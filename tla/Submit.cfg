SPECIFICATION Spec
CONSTANTS
  theKey = theKey
  keyless = keyless
  Requests = {r1, r2, r3, keyless}
  Keys <- OneKey
  KeyOf <- SharedKey
  MaxFaults = 2
SYMMETRY Symmetric
CHECK_DEADLOCK FALSE
INVARIANTS TypeOK RepeatCreatesNothing AcceptedIsPublished DuplicateIsOriginal
