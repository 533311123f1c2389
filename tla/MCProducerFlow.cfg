SPECIFICATION FairSpec
CONSTANTS
  Senders = {s}
  IoThreads = {i}
  PollTask = p
  ServingThreads = {j, k}
  QueueCapacity = 1
  Retries = {1, 2}
  Multipliers = {1, 65536}
  MaxMessages = 2
  MaxThrottles = 3
INVARIANTS TypeOK SendIsAcked EdgeTriggered ForcedFlushKept
PROPERTIES ThrottlePauseEnds EveryMessageAnswered
