CONSTANTS
  None = None
  BadOrder = BadOrder
  HubCluster = "local"
  HubName = "hub1"
  Properties <- MCProperties
  Type <- MCType
  Before <- MCBefore
  Like <- MCLike
  Fold <- MCFold
  Lower <- MCLower
  Labels <- MCLabels
  Periods = {"hour", "day"}
  Since <- MCSince
  ClusterUid <- MCClusterUid
  RelationLevel = 0
  Rows <- MCRows
  Databases <- MCDatabases
  Edges <- MCEdges
  Users <- MCUsers
  Requests <- MCRequests
  QueryLimit = 3
  Numbers = {"1", "3", "10"}
  Dates = {"t1", "t2", "t5"}
  Internal = {"_rbac"}
  Faults = {"user", "types", "query"}
  MaxChanges = 1
SPECIFICATION Spec
INVARIANTS
  TypeOK
  
  
  SearchIsExact
  RelatedIsExact
  SuggestionsLead
  WatchCoversSearch
  WatchNotWider
CHECK_DEADLOCK FALSE
