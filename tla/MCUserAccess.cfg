CONSTANTS
  None = None
  c1 = c1
  c2 = c2
  Callers = {c1, c2}
  Ops <- MCOps
  ReviewTTL = 2
  CacheTTL = 2
  ErrorTTL = 1
  Groups <- TwoGroups
  MaxChanges = 1
SPECIFICATION FairSpec
INVARIANTS
  TypeOK
  GaugeIsConnections
PROPERTIES
  DbRecovers
  TokenFollowed
  
  MessagesFollowed
CHECK_DEADLOCK FALSE
