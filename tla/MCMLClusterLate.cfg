SPECIFICATION ClusterFairSpec
CONSTANTS
  worker0 = worker0
  ps0 = ps0
  Node <- TwoNodes
  Roles <- AllRoles
  RoleOf <- RolesOf
  QueueCapacity = 4
  MaxVersion = 2
  MaxCrash = 0
  Individual = FALSE
  Faults = {"heartbeat", "late"}
  MaxFaults = 2
PROPERTIES
  LeftBehindCatchesUp
CHECK_DEADLOCK FALSE
