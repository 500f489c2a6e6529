SPECIFICATION ClusterFairSpec
CONSTANTS
  worker0 = worker0
  ps0 = ps0
  Node <- TwoNodes
  Roles <- AllRoles
  RoleOf <- RolesOf
  QueueCapacity = 4
  MaxVersion = 3
  MaxCrash = 0
  Individual = TRUE
  Faults = {"script", "heartbeat", "timeout", "stop"}
  MaxFaults = 1
PROPERTIES
  FailoverEnds
  LeftBehindCatchesUp
  ImplementsAM
CHECK_DEADLOCK FALSE
