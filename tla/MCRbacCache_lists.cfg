CONSTANTS
  r1 = r1
  r2 = r2
  a = a
  b = b
  All = All
  None = None
  Requests = {r1, r2}
  Middleware = {r1}
  Names = {a, b}
  Clusters = {}
  Access = {"all", "rules"}
  Faults = {"namespaces", "watch"}
  MaxChanges = 2
SPECIFICATION Spec
INVARIANTS
  TypeOK
  NoNamespaceMissed
CHECK_DEADLOCK FALSE
