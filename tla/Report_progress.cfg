SPECIFICATION FairSpec
CONSTANTS
  Nil = Nil
  Replicas = {r1}
  Subjects = {s1, n1}
  Clusterwide = {n1}
  MaxReports = 1
  MaxFaults = 2
  MaxVersion = 5
PROPERTY WaitingReportIsAnswered
PROPERTY OldReportGoes
PROPERTY TroubleIsReported
CHECK_DEADLOCK FALSE
