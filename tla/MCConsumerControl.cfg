SPECIFICATION FairSpec
CONSTANTS
  Strategies = {"dynamic", "static"}
  Multipliers = {}
  RebalanceCallbacks = {TRUE, FALSE}
  MaxSubscribes = 1
  MaxRebalances = 1
  MaxThrottles = 2
INVARIANTS TypeOK PauseHolds ConfiguredOffsetsOnce
PROPERTIES ThrottlingEnds MemberWithoutCallbackIsPolled
