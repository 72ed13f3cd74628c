---------------------------- MODULE SafetyChecker ----------------------------
(***************************************************************************)
(* internal/safety/checker.go: the guard every remediation action passes   *)
(* before a tool runs.  Pure operators; SafetyPolicyEdits drives them and  *)
(* RemediationPlan calls them.                                             *)
(*                                                                         *)
(* The lists of the K8opsConfig are sets here: CheckAction only asks       *)
(* whether some entry matches.  Operation names and kinds are compared by  *)
(* strings.EqualFold; Fold is the constant that sends a spelling to its    *)
(* case-folded form.  The Reason text is abstracted to the rule that spoke.*)
(***************************************************************************)
EXTENDS Naturals, FiniteSets

CONSTANTS
  Words,       \* spellings of operation types and kinds
  Fold,        \* case folding, a function on Words
  Namespaces,  \* namespace names
  Names,       \* object names
  Nil          \* a nil pointer: no config, no auto spec, no target

ASSUME FoldAssumption ==
  /\ "" \notin Words
  /\ Fold \in [Words -> Words]
  /\ \A w \in Words : Fold[Fold[w]] = Fold[w]

Risks == {"low", "medium", "high", "critical"}

\* ResourceRef: "" is an absent field.
Refs == [name : Names \cup {""}, kind : Words \cup {""}, ns : Namespaces \cup {""}]

\* RemediationAction; manifest is the object named inside a.Manifest.
RemediationActions ==
  [type : Words, risk : Risks, target : Refs \cup {Nil}, manifest : Refs \cup {Nil}]

SafetySpecs == [denied : SUBSET Words, allowed : SUBSET Words, protected : SUBSET Refs]

AutoSpecs ==
  [maxRisk : Risks, nsAllow : SUBSET Namespaces, nsDeny : SUBSET Namespaces]

-----------------------------------------------------------------------------
EqualExactly(v, w) == v = w          \* mutant: case matters
EqualFold(v, w) == Fold[v] = Fold[w]

Listed(w, list) == \E entry \in list : EqualFold(entry, w)

\* riskLevels: the numeric order of the risk names.
RiskLevel(risk) ==
  CASE risk = "low"      -> 1
    [] risk = "medium"   -> 2
    [] risk = "high"     -> 3
    [] risk = "critical" -> 4

OperationDenied(safety, a) == safety # Nil /\ Listed(a.type, safety.denied)

OperationNotAllowed(safety, a) ==
  /\ safety # Nil
  /\ safety.allowed # {}
  /\ ~ Listed(a.type, safety.allowed)

\* The namespace rules only speak when the action names a namespace.
Namespaced(a) == a.target # Nil /\ a.target.ns # ""

NamespaceDenied(auto, a) ==
  auto # Nil /\ Namespaced(a) /\ a.target.ns \in auto.nsDeny

NamespaceNotAllowed(auto, a) ==
  /\ auto # Nil
  /\ Namespaced(a)
  /\ auto.nsAllow # {}
  /\ a.target.ns \notin auto.nsAllow

MaxRisk(auto) == IF auto = Nil THEN "medium" ELSE auto.maxRisk

RiskTooHigh(auto, a) == RiskLevel(a.risk) > RiskLevel(MaxRisk(auto))

\* A protected entry matches on the fields it fills in.
Matches(entry, ref) ==
  /\ entry.name \in {"", ref.name}
  /\ \/ entry.kind = ""
     \/ ref.kind # "" /\ EqualFold(entry.kind, ref.kind)
  /\ entry.ns \in {"", ref.ns}

TargetProtected(safety, a) ==
  /\ safety # Nil
  /\ a.target # Nil
  /\ \E entry \in safety.protected : Matches(entry, a.target)

\* CheckAction: the first rule that objects, or "allowed".
CheckAction(safety, auto, a) ==
  IF OperationDenied(safety, a)          THEN "operation denied"
  ELSE IF OperationNotAllowed(safety, a) THEN "operation not allowed"
  ELSE IF NamespaceDenied(auto, a)       THEN "namespace denied"
  ELSE IF NamespaceNotAllowed(auto, a)   THEN "namespace not allowed"
  ELSE IF RiskTooHigh(auto, a)           THEN "risk"
  ELSE IF TargetProtected(safety, a)     THEN "protected"
  ELSE "allowed"

Verdicts == {"operation denied", "operation not allowed", "namespace denied",
             "namespace not allowed", "risk", "protected", "allowed"}

Allowed(safety, auto, a) == CheckAction(safety, auto, a) = "allowed"
=============================================================================
