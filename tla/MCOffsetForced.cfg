CONSTANTS
  a = a  b = b  c = c
  t1 = t1  t2 = t2  t3 = t3
  groupA = groupA  groupB = groupB
  Partitions <- ThreePartitions
  Managed <- TwoManaged
  Group <- TwoGroups
  Low <- FirstOffsets
  Messages <- MessagesAndHole
  Threads <- TwoThreads
  CallersOffsets <- AnyOffset
  MaxForced = 2
  MaxDisruptions = 1
  CommitMayFail = TRUE
SPECIFICATION Spec
SYMMETRY ThreadSymmetry
INVARIANTS NoRangeLeftBehind NoMessageLost
\* Every log ends.
CHECK_DEADLOCK FALSE
