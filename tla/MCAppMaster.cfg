SPECIFICATION Spec
CONSTANTS
  worker0 = worker0
  Node <- OneNode
  Roles <- AllRoles
  RoleOf <- RolesOf
  QueueCapacity = 2
  MaxVersion = 2
  MaxCrash = 1
INVARIANTS
  FailoverIsRestartedOnce
CHECK_DEADLOCK FALSE
