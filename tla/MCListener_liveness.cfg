CONSTANTS
  w1 = w1
  w2 = w2
  w3 = w3
  c1 = c1
  c2 = c2
  c3 = c3
  l1 = l1
  l2 = l2
  None = None
  Watches = {w1, w2}
  Ids = {c1}
  IdOf <- SharedIdOf
  Instances = {l1, l2}
  MaxActive = 2
  BufferSize = 1
  Faults = {"connect", "close", "lost", "backfill"}
SPECIFICATION FairServingSpec
PROPERTIES
  TeardownCompletes
  EvictedOnceOld
  ListenerStops
CHECK_DEADLOCK FALSE
