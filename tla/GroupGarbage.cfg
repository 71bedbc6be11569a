SPECIFICATION FairSpec
CONSTANTS
  Workers = {w1, w2}
  Partitions = {p1}
  Garbage <- FirstIsGarbage
  MaxPoll = 2
  MaxLen = 2
  MaxRecords = 2
  MaxFaults = 1
CHECK_DEADLOCK FALSE
PROPERTY PartitionNeverBlocks
