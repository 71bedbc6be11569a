SPECIFICATION Spec
CONSTANTS
  theKey = theKey
  keyless = keyless
  Requests = {r1, r2, keyless}
  Keys <- OneKey
  KeyOf <- SharedKey
  MaxFaults = 0
SYMMETRY Symmetric
CHECK_DEADLOCK FALSE
INVARIANT OneOrderPerKey
