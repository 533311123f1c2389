SPECIFICATION Spec
CONSTANTS
  o = o
  u = u
  thread1 = thread1
  thread2 = thread2
  none = none
  Topics = {o}
  Ordered = {o}
  Posters = {thread1}
  Idle = none
  MaxQueueLength = 1
  MaxMessages = 2
  MaxSwitches = 0
INVARIANT BufferedMessagesSent
CHECK_DEADLOCK FALSE
