CONSTANTS
  None = None
  Torn = Torn
  q1 = q1
  q2 = q2
  h1 = h1
  Local = Local
  Callers = {q1, q2}
  Hubs = {h1}
  Old = {h1}
  SeesHubs = {q1, q2}
  Held <- MCHeld
  Inputs <- MCInputs
  TTL = 1
  MaxFaults = 1
SPECIFICATION FairSpec
INVARIANTS
  TypeOK
  MergedOnce
  FailureIsReported
  
PROPERTIES
  ResponseSent
  HubComesBack
CHECK_DEADLOCK FALSE
