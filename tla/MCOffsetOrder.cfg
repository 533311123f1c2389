CONSTANTS
  a = a  b = b  c = c
  t1 = t1  t2 = t2  t3 = t3
  groupA = groupA  groupB = groupB
  Partitions <- OnePartition
  Managed <- OnePartition
  Group <- OneGroup
  Low <- FromZero
  Messages <- FiveMessages
  Threads <- TwoThreads
  CallersOffsets <- AnyOffset
  MaxForced = 0
  MaxDisruptions = 0
  CommitMayFail = TRUE
SPECIFICATION Spec

PROPERTY CommitsInOrder
\* Every log ends.
CHECK_DEADLOCK FALSE
