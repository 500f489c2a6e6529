SPECIFICATION ClusterSpec
CONSTANTS
  worker0 = worker0
  ps0 = ps0
  Node <- TwoNodes
  Roles <- AllRoles
  RoleOf <- SameRole
  QueueCapacity = 4
  MaxVersion = 2
  MaxCrash = 1
  Individual = TRUE
  Faults = {"task"}
  MaxFaults = 1
INVARIANTS
  FinishMeansAllFinished
  ScriptSeesWholeCluster
SYMMETRY Interchangeable
CHECK_DEADLOCK FALSE
