-------------------------- MODULE SafetyPolicyEdits --------------------------
(***************************************************************************)
(* An administrator edits the K8opsConfig between two remediations of the  *)
(* same action.  Every reconcile builds a fresh Checker from the config it *)
(* read (remediation_controller.go:58-67), so a verdict is a function of   *)
(* the config of that moment; what matters is how the verdict moves when   *)
(* the config does.                                                        *)
(***************************************************************************)
EXTENDS SafetyChecker

CONSTANTS
  Policies,     \* the configs an administrator may install: [safety, auto]
  Proposals     \* the actions a plan may hold

ASSUME PolicyAssumption ==
  /\ Policies \subseteq [safety : SafetySpecs \cup {Nil}, auto : AutoSpecs \cup {Nil}]
  /\ Proposals \subseteq RemediationActions

VARIABLES policy, action, verdict
vars == <<policy, action, verdict>>

Check(p, a) == CheckAction(p.safety, p.auto, a)

Init ==
  /\ policy \in Policies
  /\ action \in Proposals
  /\ verdict = Check(policy, action)

\* The config is replaced; the next plan with this action is judged by it.
EditPolicy ==
  \E p \in Policies :
    /\ policy' = p
    /\ verdict' = Check(p, action)
    /\ UNCHANGED action

Next == EditPolicy

Spec == Init /\ [][Next]_vars

-----------------------------------------------------------------------------
\* What the lists say once nil specs and spellings are out of the way.
NoSafety == [denied |-> {}, allowed |-> {}, protected |-> {}]
Rules(p) == IF p.safety = Nil THEN NoSafety ELSE p.safety
NsDeny(p) == IF p.auto = Nil THEN {} ELSE p.auto.nsDeny
NsAllow(p) == IF p.auto = Nil THEN {} ELSE p.auto.nsAllow

\* A list up to spelling.
Folded(list) == {Fold[w] : w \in list}
FoldedRefs(list) ==
  {IF r.kind = "" THEN r ELSE [r EXCEPT !.kind = Fold[r.kind]] : r \in list}

\* An empty allow list allows everything, so it is the loosest one.
NarrowerAllowList(mine, theirs) ==
  theirs = {} \/ (mine # {} /\ mine \subseteq theirs)

\* p forbids at least what q forbids, list by list, however it is spelled.
AtLeastAsStrict(p, q) ==
  /\ Folded(Rules(q).denied) \subseteq Folded(Rules(p).denied)
  /\ NarrowerAllowList(Folded(Rules(p).allowed), Folded(Rules(q).allowed))
  /\ FoldedRefs(Rules(q).protected) \subseteq FoldedRefs(Rules(p).protected)
  /\ NsDeny(q) \subseteq NsDeny(p)
  /\ NarrowerAllowList(NsAllow(p), NsAllow(q))
  /\ RiskLevel(MaxRisk(p.auto)) <= RiskLevel(MaxRisk(q.auto))

\* Tightening the config list by list never lets through an action it used to
\* block, whatever rule blocked it (the rules of CheckAction are conjunctive
\* although they are coded as a sequence of early returns).
Tightened ==
  AtLeastAsStrict(policy', policy) => (verdict' = "allowed" => verdict = "allowed")
TighteningNeverAllows == [][Tightened]_vars
=============================================================================
