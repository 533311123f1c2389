SPECIFICATION FairSpec
CONSTANTS
  Messages <- Received
  Ends <- EndReached
  MaxObjects = 2
  MaxRetries = 1
  MaxCommits = 2
  MaxFailures = 1
INVARIANTS TypeOK OpaqueOnceForItsMessage ThrownIsNotPersisted
PROPERTY OpaqueComesBack
\* In the end every message is gone.
CHECK_DEADLOCK FALSE
