CONSTANTS
  r1 = r1
  r2 = r2
  a = a
  b = b
  All = All
  None = None
  Requests = {r1, r2}
  Middleware = {r1}
  Names = {a}
  Clusters = {a}
  Access = {"managed", "rules"}
  Faults = {"namespaces", "clusters", "review", "watch"}
  MaxChanges = 1
SPECIFICATION FairSpec
PROPERTIES
  NamespacesSettle
  NoWrongClusterSettles
CHECK_DEADLOCK FALSE
