SPECIFICATION FairSpec
CONSTANTS
  Readers = {r1, r2}
  MaxVersion = 3
  MaxFaults = 2
INVARIANTS TypeOK ReadsAreCommitted
PROPERTY CacheConverges
