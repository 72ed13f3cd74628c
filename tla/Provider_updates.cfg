SPECIFICATION Spec
CONSTANTS
  Replicas = {r1, r2}
  None = None
  Cr = Cr
  MaxUpdates = 2
  MaxRestarts = 2
INVARIANT TypeOK
INVARIANT SurvivesRestart
INVARIANT MixtureHasCause
SYMMETRY InterchangeableReplicas
