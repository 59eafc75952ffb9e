CONSTANTS
  w1 = w1
  u1 = u1
  u2 = u2
  NoData = NoData
  Watches = {w1}
  Uids = {u1, u2}
  Wanted <- WantsU1
  MaxChanges = 3
  BufferSize = 2
  Faults = {"lost"}
SPECIFICATION FairSpec
INVARIANTS
  TypeOK
  DataNotOlder
  DataGoesForward
PROPERTIES
  InOrderStream
  Streamed
CHECK_DEADLOCK FALSE
