SPECIFICATION FairSpec
CONSTANTS
  Nil = Nil
  Words <- MCWords
  Fold <- MCFold
  Namespaces <- MCNamespaces
  Names <- MCNames
  Tooled <- MCTooled
  Plans = {p1}
  Replicas = {r1, r2}
  Users = {u1}
  PlanSpecs <- Progressing
  Configs <- DenyCommands
  MaxLen = 2
  MaxFaults = 1
  MaxRearms = 0
PROPERTY ArmedPlanIsDecided
PROPERTY ArmedPlanIsTaken
PROPERTY DeletedPlanGoes
CHECK_DEADLOCK FALSE
