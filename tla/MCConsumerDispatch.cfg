SPECIFICATION FairSpec
CONSTANTS
  Partitions <- ThreePartitions
  LowThread = 1
  HighThread = 2
  BatchSize = 2
  LogEnd = 2
  MaxFailures = 1
INVARIANTS TypeOK ArrivalOrder Backpressure
PROPERTY EveryMessageReceived
