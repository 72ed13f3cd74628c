SPECIFICATION Spec
CONSTANTS
  Nil = Nil
  Words <- MCWords
  Fold <- MCFold
  Namespaces <- MCNamespaces
  Names <- MCNames
  Tooled <- MCTooled
  Plans = {p1}
  Replicas = {r1}
  Users = {u1}
  PlanSpecs <- TwoActions
  Configs <- DenyCommands
  MaxLen = 2
  MaxFaults = 0
  MaxRearms = 0
INVARIANT ApprovedBeforeRunning
CHECK_DEADLOCK FALSE
