SPECIFICATION FairSpec
CONSTANTS
  Workers = {w1}
  Apis = {a1}
  Topics = {retry, dlq}
  Retries = 2
  MaxFaults = 3
INVARIANTS TypeOK ServesOnlyWhenReady ClientsOutliveHandlers
PROPERTIES FullStrength StopsWhenAsked
CHECK_DEADLOCK FALSE
