SPECIFICATION FairSpec
CONSTANTS
  Workers = {w1, w2}
  Partitions = {p1, p2}
  Garbage <- OneSecondIsGarbage
  MaxPoll = 2
  MaxLen = 2
  MaxRecords = 2
  MaxFaults = 1
CHECK_DEADLOCK FALSE
INVARIANTS TypeOK CommittedIsHandled HandledInOrder HandledOnce
PROPERTIES ImplementsTopicDelivery SettledGroupDelivers
