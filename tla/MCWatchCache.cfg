CONSTANTS
  w1 = w1
  w2 = w2
  k1 = k1
  before = before
  after = after
  None = None
  Watches = {w1, w2}
  Keys = {k1}
  Identities = {before, after}
SPECIFICATION FairSpec
INVARIANTS
  TypeOK
PROPERTIES
  RevocationTakesEffect
  GrantTakesEffect
