SPECIFICATION FairSpec
CONSTANTS
  HeaderNames <- MCHeaderNames
  UnknownNames = {"u"}
  LowerCase <- MCLowerCase
  ReadBatch <- MCReadBatch
  LowQueues = {0}
  Widths = {1, 3}
  NumThreads = 3
  MaxHeaders = 2
INVARIANTS TypeOK EveryMessageSettled AccessorsTellTruth SentIsReceived
PROPERTY BatchEnds
\* The process may die of a write outside the vector of bits.
CHECK_DEADLOCK FALSE
