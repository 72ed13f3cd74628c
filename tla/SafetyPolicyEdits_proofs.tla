---------------------- MODULE SafetyPolicyEdits_proofs ----------------------
(***************************************************************************)
(* CheckAction is monotone in its configuration, for any names, spellings, *)
(* lists and edits.                                                        *)
(***************************************************************************)
EXTENDS SafetyPolicyEdits, TLAPS

LEMMA RiskLevelType ==
  ASSUME NEW risk \in Risks
  PROVE  RiskLevel(risk) \in Nat
  BY DEF Risks, RiskLevel

LEMMA MaxRiskType ==
  ASSUME NEW auto \in AutoSpecs \cup {Nil}
  PROVE  MaxRisk(auto) \in Risks
  BY DEF MaxRisk, AutoSpecs, Risks

\* strings.EqualFold over a list asks whether the folded list holds the folded
\* word.
LEMMA ListedFolded ==
  ASSUME NEW list, NEW w
  PROVE  Listed(w, list) <=> Fold[w] \in Folded(list)
  BY DEF Listed, EqualFold, Folded

\* A protected entry blocks what any entry of the same folded form blocks.
LEMMA MatchesFolded ==
  ASSUME NEW mine \in SUBSET Refs, NEW theirs \in SUBSET Refs,
         FoldedRefs(theirs) \subseteq FoldedRefs(mine),
         NEW entry \in theirs, NEW ref, Matches(entry, ref)
  PROVE  \E other \in mine : Matches(other, ref)
  <1> DEFINE F(r) == IF r.kind = "" THEN r ELSE [r EXCEPT !.kind = Fold[r.kind]]
  <1>1. F(entry) \in FoldedRefs(mine)
    BY DEF FoldedRefs
  <1>2. PICK other \in mine : F(other) = F(entry)
    BY <1>1 DEF FoldedRefs
  <1>3. \A r \in Refs :
          /\ F(r).name = r.name /\ F(r).ns = r.ns
          /\ F(r).kind = IF r.kind = "" THEN "" ELSE Fold[r.kind]
    BY DEF Refs
  <1>4. /\ other.name = entry.name /\ other.ns = entry.ns
        /\ \/ other.kind = "" /\ entry.kind = ""
           \/ other.kind # "" /\ entry.kind # "" /\ Fold[other.kind] = Fold[entry.kind]
    <2>1. other \in Refs /\ entry \in Refs
      OBVIOUS
    <2>2. \A r \in Refs : r.kind # "" => Fold[r.kind] # ""
      <3>1. \A r \in Refs : r.kind \in Words \cup {""}
        BY DEF Refs
      <3>2. "" \notin Words /\ Fold \in [Words -> Words]
        BY FoldAssumption
      <3>3. QED
        BY <3>1, <3>2
    <2>3. /\ other.name = entry.name /\ other.ns = entry.ns
          /\ F(other).kind = F(entry).kind
      BY <1>2, <1>3, <2>1
    <2>4. QED
      BY <1>3, <2>1, <2>2, <2>3
  <1>5. Matches(other, ref)
    BY <1>4 DEF Matches, EqualFold
  <1>6. QED
    BY <1>5

\* The heart of it: rule by rule, what the looser config blocks the stricter one
\* blocks too.
LEMMA CheckMonotone ==
  ASSUME NEW p \in Policies, NEW q \in Policies, NEW a \in Proposals,
         AtLeastAsStrict(p, q), Check(p, a) = "allowed"
  PROVE  Check(q, a) = "allowed"
  <1>1. /\ p.safety \in SafetySpecs \cup {Nil} /\ q.safety \in SafetySpecs \cup {Nil}
        /\ p.auto \in AutoSpecs \cup {Nil} /\ q.auto \in AutoSpecs \cup {Nil}
        /\ a \in RemediationActions
    BY PolicyAssumption
  <1>2. /\ ~ OperationDenied(p.safety, a) /\ ~ OperationNotAllowed(p.safety, a)
        /\ ~ NamespaceDenied(p.auto, a) /\ ~ NamespaceNotAllowed(p.auto, a)
        /\ ~ RiskTooHigh(p.auto, a) /\ ~ TargetProtected(p.safety, a)
    BY DEF Check, CheckAction
  <1>3. ~ OperationDenied(q.safety, a)
    <2> SUFFICES ASSUME OperationDenied(q.safety, a) PROVE FALSE
      OBVIOUS
    <2>1. Fold[a.type] \in Folded(Rules(q).denied)
      BY ListedFolded DEF OperationDenied, Rules
    <2>2. Fold[a.type] \in Folded(Rules(p).denied)
      BY <2>1 DEF AtLeastAsStrict
    <2>3. p.safety # Nil
      BY <2>2 DEF Rules, NoSafety, Folded
    <2>4. QED
      BY <1>2, <2>2, <2>3, ListedFolded DEF OperationDenied, Rules
  <1>4. ~ OperationNotAllowed(q.safety, a)
    <2> SUFFICES ASSUME OperationNotAllowed(q.safety, a) PROVE FALSE
      OBVIOUS
    <2>1. Folded(Rules(q).allowed) # {} /\ Fold[a.type] \notin Folded(Rules(q).allowed)
      BY ListedFolded DEF OperationNotAllowed, Rules, Folded
    <2>2. Folded(Rules(p).allowed) # {} /\ Fold[a.type] \notin Folded(Rules(p).allowed)
      BY <2>1 DEF AtLeastAsStrict, NarrowerAllowList
    <2>3. p.safety # Nil /\ p.safety.allowed # {}
      BY <2>2 DEF Rules, NoSafety, Folded
    <2>4. QED
      BY <1>2, <2>2, <2>3, ListedFolded DEF OperationNotAllowed, Rules
  <1>5. ~ NamespaceDenied(q.auto, a)
    BY <1>2 DEF NamespaceDenied, AtLeastAsStrict, NsDeny
  <1>6. ~ NamespaceNotAllowed(q.auto, a)
    BY <1>2 DEF NamespaceNotAllowed, AtLeastAsStrict, NarrowerAllowList, NsAllow
  <1>7. ~ RiskTooHigh(q.auto, a)
    <2>1. /\ RiskLevel(a.risk) \in Nat
          /\ RiskLevel(MaxRisk(p.auto)) \in Nat /\ RiskLevel(MaxRisk(q.auto)) \in Nat
      BY <1>1, RiskLevelType, MaxRiskType DEF RemediationActions
    <2>2. RiskLevel(MaxRisk(p.auto)) <= RiskLevel(MaxRisk(q.auto))
      BY DEF AtLeastAsStrict
    <2>3. QED
      BY <1>2, <2>1, <2>2 DEF RiskTooHigh
  <1>8. ~ TargetProtected(q.safety, a)
    <2> SUFFICES ASSUME TargetProtected(q.safety, a) PROVE FALSE
      OBVIOUS
    <2>1. PICK entry \in q.safety.protected : Matches(entry, a.target)
      BY DEF TargetProtected
    <2>2. FoldedRefs(Rules(q).protected) \subseteq FoldedRefs(Rules(p).protected)
      BY DEF AtLeastAsStrict
    <2>3. Rules(p).protected \in SUBSET Refs /\ Rules(q).protected \in SUBSET Refs
      BY <1>1 DEF Rules, NoSafety, SafetySpecs
    <2>4. entry \in Rules(q).protected
      BY <2>1 DEF TargetProtected, Rules
    <2>5. PICK other \in Rules(p).protected : Matches(other, a.target)
      BY <2>1, <2>2, <2>3, <2>4, MatchesFolded
    <2>6. p.safety # Nil /\ other \in p.safety.protected
      BY <2>5 DEF Rules, NoSafety
    <2>7. QED
      BY <1>2, <2>5, <2>6 DEF TargetProtected
  <1>9. QED
    BY <1>3, <1>4, <1>5, <1>6, <1>7, <1>8 DEF Check, CheckAction

\* Two actions that differ in the spelling of their type and of their target's kind.
SameButForCase(a, b) ==
  /\ EqualFold(a.type, b.type) /\ a.risk = b.risk
  /\ \/ a.target = Nil /\ b.target = Nil
     \/ /\ a.target # Nil /\ b.target # Nil
        /\ a.target.name = b.target.name /\ a.target.ns = b.target.ns
        /\ a.target.kind = "" <=> b.target.kind = ""
        /\ a.target.kind # "" => EqualFold(a.target.kind, b.target.kind)

\* Spelling never changes which rule of CheckAction speaks first: operation lists and
\* protected kinds go through strings.EqualFold, everything else is told apart exactly.
THEOREM SpellingIrrelevant ==
  ASSUME NEW safety, NEW auto, NEW a \in RemediationActions, NEW b \in RemediationActions,
         SameButForCase(a, b)
  PROVE  CheckAction(safety, auto, a) = CheckAction(safety, auto, b)
  <1>1. \A list : Listed(a.type, list) <=> Listed(b.type, list)
    BY DEF Listed, EqualFold, SameButForCase
  <1>2. /\ OperationDenied(safety, a) <=> OperationDenied(safety, b)
        /\ OperationNotAllowed(safety, a) <=> OperationNotAllowed(safety, b)
    BY <1>1 DEF OperationDenied, OperationNotAllowed
  <1>3. /\ NamespaceDenied(auto, a) <=> NamespaceDenied(auto, b)
        /\ NamespaceNotAllowed(auto, a) <=> NamespaceNotAllowed(auto, b)
    BY DEF NamespaceDenied, NamespaceNotAllowed, Namespaced, SameButForCase
  <1>4. RiskTooHigh(auto, a) <=> RiskTooHigh(auto, b)
    BY DEF RiskTooHigh, SameButForCase
  <1>5. TargetProtected(safety, a) <=> TargetProtected(safety, b)
    <2>1. CASE a.target = Nil
      BY <2>1 DEF TargetProtected, SameButForCase
    <2>2. CASE a.target # Nil
      <3>1. \A entry : Matches(entry, a.target) <=> Matches(entry, b.target)
        BY <2>2 DEF Matches, EqualFold, SameButForCase
      <3>2. QED
        BY <2>2, <3>1 DEF TargetProtected, SameButForCase
    <2>3. QED
      BY <2>1, <2>2
  <1>6. QED
    BY <1>2, <1>3, <1>4, <1>5 DEF CheckAction

\* The verdict is that of the config in force.
Judged == policy \in Policies /\ action \in Proposals /\ verdict = Check(policy, action)

LEMMA JudgedInductive == (Init => Judged) /\ (Judged /\ [Next]_vars => Judged')
  BY DEF Init, Judged, Next, EditPolicy, vars

\* Editing the config list by list towards stricter never lets through an action
\* CheckAction used to block, whichever of its early returns blocked it.
THEOREM Tightening == Spec => TighteningNeverAllows
  <1>1. Judged /\ Judged' /\ [Next]_vars => [Tightened]_vars
    <2> SUFFICES ASSUME Judged, Judged', Next, AtLeastAsStrict(policy', policy),
                        verdict' = "allowed"
                 PROVE  verdict = "allowed"
      BY DEF Tightened
    <2>1. action' = action
      BY DEF Next, EditPolicy
    <2>2. policy' \in Policies /\ Check(policy', action) = "allowed"
      BY <2>1 DEF Judged
    <2>3. QED
      BY <2>2, CheckMonotone DEF Judged
  <1>2. QED
    BY <1>1, JudgedInductive, PTL DEF Spec, TighteningNeverAllows
=============================================================================
