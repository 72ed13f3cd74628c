SPECIFICATION Spec
CONSTANTS
  Nil = Nil
  Words <- MCWords
  Fold <- MCFold
  Namespaces <- MCNamespaces
  Names <- MCNames
  Tooled <- MCTooled
  Plans = {p1}
  Replicas = {r1, r2}
  Users = {u1}
  PlanSpecs <- OneAction
  Configs <- DenyCommands
  MaxLen = 1
  MaxFaults = 1
  MaxRearms = 1
INVARIANT IInv
INVARIANT AtMostOncePerArming
PROPERTY StartsOnlyWhenArmed
PROPERTY DecisionsStand
PROPERTY ImplementsLifecycle
SYMMETRY InterchangeableReplicas
CHECK_DEADLOCK FALSE
