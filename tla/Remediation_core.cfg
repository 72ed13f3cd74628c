SPECIFICATION Spec
CONSTANTS
  Nil = Nil
  Words <- MCWords
  Fold <- MCFold
  Namespaces <- MCNamespaces
  Names <- MCNames
  Tooled <- MCTooled
  Plans = {p1}
  Replicas = {r1, r2}
  Users = {u1}
  PlanSpecs <- MixedPlans
  Configs <- DenyEither
  MaxLen = 3
  MaxFaults = 2
  MaxRearms = 0
INVARIANT OnePolicyPerRun
INVARIANT RejectedNeverRuns
INVARIANT ReportAccountsForEffects
INVARIANT RolledBackReportShape
INVARIANT ExecutingHasExecutor
SYMMETRY InterchangeableReplicas
CHECK_DEADLOCK FALSE
