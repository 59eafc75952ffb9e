CONSTANTS
  None = None
  c1 = c1
  c2 = c2
  Callers = {c1, c2}
  Ops <- MCOps
  ReviewTTL = 2
  CacheTTL = 2
  ErrorTTL = 1
  Groups <- ThreeGroups
  MaxChanges = 1
SPECIFICATION Spec
INVARIANT CopyIsStatic
CHECK_DEADLOCK FALSE
