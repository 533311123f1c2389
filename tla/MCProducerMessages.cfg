SPECIFICATION FairSpec
CONSTANTS
  o = o
  u = u
  thread1 = thread1
  thread2 = thread2
  none = none
  Topics = {o, u}
  Ordered = {o}
  Posters = {thread1}
  Idle = none
  MaxQueueLength = 1
  MaxMessages = 2
  MaxSwitches = 1
INVARIANTS TypeOK OneOwner  OneInFlight
PROPERTIES  ShutdownReturns
\* After a shutdown everything has stopped.
CHECK_DEADLOCK FALSE
