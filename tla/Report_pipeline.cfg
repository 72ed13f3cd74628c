SPECIFICATION Spec
CONSTANTS
  Nil = Nil
  Replicas = {r1, r2}
  Subjects = {s1}
  Clusterwide = {}
  MaxReports = 1
  MaxFaults = 2
  MaxVersion = 4
INVARIANT NothingForgotten
INVARIANT IInv
INVARIANT AnalysedOnce
INVARIANT PlanFollowsAnswer
INVARIANT AnalyzingHasAnalyst
PROPERTY ImplementsLifecycle
SYMMETRY InterchangeableReplicas
CHECK_DEADLOCK FALSE
