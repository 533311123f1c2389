SPECIFICATION FairSpec
CONSTANTS
  Strategies = {"dynamic"}
  Multipliers = {1}
  RebalanceCallbacks = {TRUE}
  MaxSubscribes = 0
  MaxRebalances = 1
  MaxThrottles = 0
PROPERTY MemberIsPolled
