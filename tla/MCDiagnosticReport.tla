--------------------------- MODULE MCDiagnosticReport ---------------------------
(* Instances of ReportProperties; nothing tells one replica from another.   *)
EXTENDS ReportProperties, TLC

InterchangeableReplicas == Permutations(Replicas)
=============================================================================
