----------------------- MODULE RemediationPlan_proofs -----------------------
(***************************************************************************)
(* Proofs about RemediationPlan for any number of plans, replicas and      *)
(* users, any action lists and any bounds.                                 *)
(***************************************************************************)
EXTENDS RemediationProperties, FiniteSetTheorems, SequenceTheorems, TLAPS

-----------------------------------------------------------------------------
(* The building blocks.                                                     *)

\* The bounds are numbers.
LEMMA Bounds == MaxLen \in Nat /\ MaxFaults \in Nat /\ MaxRearms \in Nat
  BY PlanAssumption

\* Bump makes a new version of an object and changes nothing else: this is the
\* API server's resourceVersion.
LEMMA BumpObject ==
  ASSUME NEW o \in Objects
  PROVE  /\ Bump(o) \in Objects
         /\ Bump(o).rv = o.rv + 1
         /\ Bump(o).phase = o.phase
         /\ Bump(o).deleting = o.deleting
         /\ Bump(o).exists = o.exists
  BY DEF Bump, Objects

\* The idle values are well-typed: a replica outside Reconcile holds nothing.
LEMMA IdleValues ==
  /\ SomePlan \in Plans
  /\ NoObject \in Objects
  /\ NoReconcile \in Reconciles
  /\ NoRequest \in Requests
  <1>1. SomePlan \in Plans
    BY PlanAssumption DEF SomePlan
  <1>2. NoObject \in Objects
    BY DEF NoObject, Objects, Phases
  <1>3. QED
    BY <1>1, <1>2 DEF NoReconcile, Reconciles, PCs, NoRequest, Requests

\* A status update that ends a reconcile keeps the state well-typed.
LEMMA LastUpdateType ==
  ASSUME TypeOK, NEW r \in Replicas, NEW p \in Plans, NEW new \in Objects,
         LastUpdate(r, p, new)
  PROVE  /\ obj' \in [Plans -> Objects]
         /\ rec' \in [Replicas -> Reconciles]
         /\ faults' \in 0 .. MaxFaults
  <1>1. Bump(new) \in Objects
    BY BumpObject
  <1>2. rec' \in [Replicas -> Reconciles]
    BY IdleValues DEF TypeOK, LastUpdate, Idle
  <1>3. obj' \in [Plans -> Objects]
    BY <1>1 DEF TypeOK, LastUpdate
  <1>4. faults' \in 0 .. MaxFaults
    BY Bounds DEF TypeOK, LastUpdate
  <1>5. QED
    BY <1>2, <1>3, <1>4

\* rollback relabels results, it does not add or drop any.
LEMMA RollBackType ==
  ASSUME NEW results \in Seq(Results), NEW n
  PROVE  RollBack(results, n) \in Seq(Results)
  BY DEF RollBack, Results

\* Moving a reconcile on to its next action keeps it well-typed, whatever the
\* loop body did to its copy of the plan.
LEMMA AdvanceType ==
  ASSUME TypeOK, NEW r \in Replicas, NEW ok \in BOOLEAN, NEW copy \in Objects,
         Advance(r, ok, copy)
  PROVE  rec' \in [Replicas -> Reconciles]
  <1>1. rec[r] \in Reconciles /\ rec[r].next + 1 \in Nat \ {0}
    BY DEF TypeOK, Reconciles
  <1>2. [rec[r] EXCEPT !.next = rec[r].next + 1, !.ok = ok, !.copy = copy] \in Reconciles
    BY <1>1 DEF Reconciles
  <1>3. QED
    BY <1>2 DEF Advance, TypeOK

\* The result of an action is appended to a well-typed report.
LEMMA ReportType ==
  ASSUME TypeOK, NEW r \in Replicas, NEW result \in Results
  PROVE  Report(r, result) \in Objects
  <1>1. rec[r].copy \in Objects
    BY DEF TypeOK, Reconciles
  <1>2. Append(rec[r].copy.results, result) \in Seq(Results)
    BY <1>1, AppendProperties DEF Objects
  <1>3. QED
    BY <1>1, <1>2 DEF Report, Objects

\* A tool call is counted once, in a well-typed counter.
LEMMA CountType ==
  ASSUME TypeOK, NEW r \in Replicas, NEW f \in [Plans -> [Steps -> Nat]]
  PROVE  Count(f, r) \in [Plans -> [Steps -> Nat]]
  <1> DEFINE p == rec[r].plan
             i == rec[r].next
  <1>1. p \in Plans
    BY DEF TypeOK, Reconciles
  <1>2. [f[p] EXCEPT ![i] = f[p][i] + 1] \in [Steps -> Nat]
    <2>1. f[p] \in [Steps -> Nat]
      BY <1>1
    <2>2. CASE i \in Steps
      <3>1. f[p][i] + 1 \in Nat
        BY <2>1, <2>2
      <3>2. QED
        BY <2>1, <3>1
    <2>3. CASE i \notin Steps
      BY <2>1, <2>3
    <2>4. QED
      BY <2>2, <2>3
  <1>3. QED
    BY <1>1, <1>2 DEF Count

-----------------------------------------------------------------------------
(* Type correctness, action by action.                                      *)

LEMMA InitType == Init => TypeOK
  <1> SUFFICES ASSUME Init PROVE TypeOK
    OBVIOUS
  <1>1. \A s \in PlanSpecs : NewPlan(s) \in Objects
    <2> SUFFICES ASSUME NEW s \in PlanSpecs PROVE NewPlan(s) \in Objects
      OBVIOUS
    <2>1. s.finalizers \in SUBSET Finalizers
      BY PlanAssumption
    <2>2. <<>> \in Seq(Results)
      OBVIOUS
    <2>3. QED
      BY <2>1, <2>2 DEF NewPlan, Objects, Phases
  <1>2. obj \in [Plans -> Objects]
    BY <1>1 DEF Init
  <1>3. cache \in [Replicas -> [Plans -> Objects]]
    BY <1>2 DEF Init
  <1>4. rec \in [Replicas -> Reconciles] /\ http \in [Users -> Requests]
    BY IdleValues DEF Init
  <1>5. attempts \in [Plans -> [Steps -> Nat]] /\ applied \in [Plans -> [Steps -> Nat]]
    BY DEF Init
  <1>6. config \in Policies
    BY DEF Init, Policies
  <1>7. QED
    BY <1>2, <1>3, <1>4, <1>5, <1>6, Bounds DEF Init, TypeOK

\* A reconcile that takes up a plan holds a well-typed copy of it.
LEMMA TakeType ==
  ASSUME TypeOK, NEW r \in Replicas, NEW p \in Plans, NEW pc \in PCs,
         NEW cfg \in Configs \cup {NoConfig}, Take(r, p, pc, cfg)
  PROVE  rec' \in [Replicas -> Reconciles]
  <1>1. cache[r][p] \in Objects
    BY DEF TypeOK
  <1>2. [pc |-> pc, plan |-> p, copy |-> cache[r][p], cfg |-> cfg, next |-> 1, ok |-> TRUE]
          \in Reconciles
    BY <1>1 DEF Reconciles
  <1>3. QED
    BY <1>2 DEF Take, TypeOK

\* The two ways a reconcile begins.
LEMMA BeginTakes ==
  ASSUME TypeOK, NEW r \in Replicas, NEW p \in Plans, Begin(r, p)
  PROVE  \E pc \in PCs, cfg \in Configs \cup {NoConfig} :
           /\ Take(r, p, pc, cfg)
           /\ \/ pc = "unfinalize" /\ cache[r][p].deleting
              \/ /\ pc \in {"dry-run", "start"}
                 /\ cache[r][p].phase \in Armed /\ ~ cache[r][p].deleting
  <1>1. CASE cache[r][p].deleting
    BY <1>1 DEF Begin, PCs, Ready
  <1>2. CASE ~ cache[r][p].deleting
    <2> DEFINE pc == IF spec[p].mode = "dry-run" THEN "dry-run" ELSE "start"
    <2>1. PICK read \in {config.seen[r], NoConfig} : Take(r, p, pc, read)
      BY <1>2 DEF Begin
    <2>2. cache[r][p].phase \in Armed
      BY <1>2 DEF Begin, Ready
    <2>3. read \in Configs \cup {NoConfig}
      BY DEF TypeOK, Policies
    <2>4. pc \in PCs /\ pc \in {"dry-run", "start"}
      BY DEF PCs
    <2>5. QED
      BY <1>2, <2>1, <2>2, <2>3, <2>4
  <1>3. QED
    BY <1>1, <1>2

LEMMA BeginType ==
  ASSUME TypeOK, NEW r \in Replicas, NEW p \in Plans, Begin(r, p)
  PROVE  TypeOK'
  <1>1. rec' \in [Replicas -> Reconciles]
    BY BeginTakes, TakeType
  <1>2. faults' \in 0 .. MaxFaults
    BY Bounds DEF Begin, TypeOK
  <1>3. QED
    BY <1>1, <1>2 DEF Begin, TypeOK, history

\* Removing the operator's finalizer keeps version and phase.
LEMMA UnfinalizedType ==
  ASSUME NEW copy \in Objects
  PROVE  /\ Unfinalized(copy) \in Objects
         /\ Unfinalized(copy).rv = copy.rv
         /\ Unfinalized(copy).phase = copy.phase
  <1>1. copy.finalizers \ {"k8ops"} \in SUBSET Finalizers
    BY DEF Objects
  <1>2. QED
    BY <1>1 DEF Unfinalized, Objects

LEMMA UnfinalizeType ==
  ASSUME TypeOK, NEW r \in Replicas, Unfinalize(r)
  PROVE  TypeOK'
  <1>1. rec[r].plan \in Plans /\ Bump(Unfinalized(rec[r].copy)) \in Objects
    BY UnfinalizedType, BumpObject DEF TypeOK, Reconciles
  <1>2. obj' \in [Plans -> Objects]
    BY <1>1 DEF Unfinalize, TypeOK
  <1>3. rec' \in [Replicas -> Reconciles]
    BY IdleValues DEF Unfinalize, Idle, TypeOK
  <1>4. QED
    BY <1>2, <1>3 DEF Unfinalize, TypeOK, history

LEMMA DryRunType ==
  ASSUME TypeOK, NEW r \in Replicas, DryRun(r)
  PROVE  TypeOK'
  <1> DEFINE p == rec[r].plan
             skipped == [i \in 1 .. Len(spec[p].actions) |-> "Skipped"]
             new == [rec[r].copy EXCEPT !.phase = "Completed", !.results = @ \o skipped]
  <1>1. p \in Plans /\ rec[r].copy \in Objects
    BY DEF TypeOK, Reconciles
  <1>2. skipped \in Seq(Results)
    <2>1. Len(spec[p].actions) \in Nat
      BY <1>1, PlanAssumption, LenProperties DEF TypeOK
    <2>2. QED
      BY <2>1 DEF Results
  <1>3. rec[r].copy.results \o skipped \in Seq(Results)
    BY <1>1, <1>2, ConcatProperties DEF Objects
  <1>4. new \in Objects
    BY <1>1, <1>3 DEF Objects, Phases
  <1>5. LastUpdate(r, p, new)
    BY DEF DryRun
  <1>6. QED
    BY <1>1, <1>4, <1>5, LastUpdateType DEF DryRun, TypeOK, history

LEMMA StartExecutionType ==
  ASSUME TypeOK, NEW r \in Replicas, StartExecution(r)
  PROVE  TypeOK'
  <1> DEFINE p == rec[r].plan
             new == Bump([rec[r].copy EXCEPT !.phase = "Executing"])
  <1>1. p \in Plans /\ rec[r] \in Reconciles /\ rec[r].copy \in Objects
    BY DEF TypeOK, Reconciles
  <1>2. new \in Objects
    <2>1. [rec[r].copy EXCEPT !.phase = "Executing"] \in Objects
      BY <1>1 DEF Objects, Phases
    <2>2. QED
      BY <2>1, BumpObject
  <1>3. obj' \in [Plans -> Objects]
    BY <1>1, <1>2 DEF StartExecution, TypeOK
  <1>4. rec' \in [Replicas -> Reconciles]
    <2>1. [rec[r] EXCEPT !.pc = "build", !.copy = new] \in Reconciles
      BY <1>1, <1>2 DEF Reconciles, PCs
    <2>2. QED
      BY <2>1, IdleValues DEF StartExecution, Idle, TypeOK
  <1>5. faults' \in 0 .. MaxFaults
    BY Bounds DEF StartExecution, TypeOK
  <1>6. started' \in [Plans -> Nat]
    <2>1. started \in [Plans -> Nat] /\ started[p] + 1 \in Nat
      BY <1>1 DEF TypeOK
    <2>2. started' = started \/ started' = [started EXCEPT ![p] = @ + 1]
      BY DEF StartExecution
    <2>3. QED
      BY <2>1, <2>2
  <1>7. QED
    BY <1>3, <1>4, <1>5, <1>6 DEF StartExecution, TypeOK

LEMMA BuildToolsType ==
  ASSUME TypeOK, NEW r \in Replicas, BuildTools(r)
  PROVE  TypeOK'
  <1>1. rec[r] \in Reconciles /\ rec[r].copy \in Objects
    BY DEF TypeOK, Reconciles
  <1>2. [rec[r] EXCEPT !.pc = "run"] \in Reconciles
    BY <1>1 DEF Reconciles, PCs
  <1>3. [rec[r] EXCEPT !.pc = "abort"] \in Reconciles
    BY <1>1 DEF Reconciles, PCs
  <1>4. rec' \in [Replicas -> Reconciles]
    BY <1>2, <1>3 DEF BuildTools, TypeOK
  <1>5. faults' \in 0 .. MaxFaults
    BY Bounds DEF BuildTools, TypeOK
  <1>6. QED
    BY <1>4, <1>5 DEF BuildTools, TypeOK, history

LEMMA AbortExecutionType ==
  ASSUME TypeOK, NEW r \in Replicas, AbortExecution(r)
  PROVE  TypeOK'
  <1> DEFINE new == [rec[r].copy EXCEPT !.phase = "Failed"]
  <1>1. rec[r].plan \in Plans /\ rec[r].copy \in Objects
    BY DEF TypeOK, Reconciles
  <1>2. new \in Objects
    BY <1>1 DEF Objects, Phases
  <1>3. LastUpdate(r, rec[r].plan, new)
    BY DEF AbortExecution
  <1>4. QED
    BY <1>1, <1>2, <1>3, LastUpdateType DEF AbortExecution, TypeOK, history

LEMMA SkipActionType ==
  ASSUME TypeOK, NEW r \in Replicas, SkipAction(r)
  PROVE  TypeOK'
  <1>1. rec[r].ok \in BOOLEAN /\ Report(r, "Skipped") \in Objects
    BY ReportType DEF TypeOK, Reconciles, Results
  <1>2. rec' \in [Replicas -> Reconciles]
    BY <1>1, AdvanceType DEF SkipAction
  <1>3. QED
    BY <1>2 DEF SkipAction, TypeOK, history

LEMMA ActionSucceedsType ==
  ASSUME TypeOK, NEW r \in Replicas, ActionSucceeds(r)
  PROVE  TypeOK'
  <1>1. rec[r].ok \in BOOLEAN /\ Report(r, "Success") \in Objects
    BY ReportType DEF TypeOK, Reconciles, Results
  <1>2. rec' \in [Replicas -> Reconciles]
    BY <1>1, AdvanceType DEF ActionSucceeds
  <1>3. attempts' \in [Plans -> [Steps -> Nat]] /\ applied' \in [Plans -> [Steps -> Nat]]
    BY CountType DEF ActionSucceeds, TypeOK
  <1>4. QED
    BY <1>2, <1>3 DEF ActionSucceeds, TypeOK

LEMMA ActionFailsType ==
  ASSUME TypeOK, NEW r \in Replicas, ActionFails(r)
  PROVE  TypeOK'
  <1>1. Report(r, "Failed") \in Objects
    BY ReportType DEF Results
  <1>2. RolledBack(r) \in Objects
    <2> DEFINE failed == Report(r, "Failed")
    <2>1. RollBack(failed.results, rec[r].next) \in Seq(Results)
      BY <1>1, RollBackType DEF Objects
    <2>2. QED
      BY <1>1, <2>1 DEF RolledBack, Objects, Phases
  <1>3. rec' \in [Replicas -> Reconciles]
    BY <1>1, <1>2, AdvanceType DEF ActionFails
  <1>4. attempts' \in [Plans -> [Steps -> Nat]]
    BY CountType DEF ActionFails, TypeOK
  <1>5. QED
    BY <1>3, <1>4 DEF ActionFails, TypeOK

LEMMA FinishType ==
  ASSUME TypeOK, NEW r \in Replicas, Finish(r)
  PROVE  TypeOK'
  <1> DEFINE new == [rec[r].copy EXCEPT !.phase = FinalPhase(r)]
  <1>1. rec[r].plan \in Plans /\ rec[r].copy \in Objects
    BY DEF TypeOK, Reconciles
  <1>2. new \in Objects
    BY <1>1 DEF Objects, Phases, FinalPhase
  <1>3. LastUpdate(r, rec[r].plan, new)
    BY DEF Finish
  <1>4. QED
    BY <1>1, <1>2, <1>3, LastUpdateType DEF Finish, TypeOK, history

LEMMA ReconcileType ==
  ASSUME TypeOK, NEW r \in Replicas, Reconcile(r)
  PROVE  TypeOK'
  BY BeginType, UnfinalizeType, DryRunType, StartExecutionType, BuildToolsType,
     AbortExecutionType, SkipActionType, ActionSucceedsType, ActionFailsType, FinishType
     DEF Reconcile

\* The informers, the dashboard and the outside world.
LEMMA EnvironmentType ==
  ASSUME TypeOK
  PROVE  /\ \A r \in Replicas, p \in Plans : Sync(r, p) => TypeOK'
         /\ \A r \in Replicas : Crash(r) => TypeOK'
         /\ \A u \in Users, p \in Plans, verb \in {"approve", "reject"} :
              Request(u, p, verb) => TypeOK'
         /\ \A u \in Users : Decide(u) => TypeOK'
         /\ \A p \in Plans : MarkPending(p) \/ Touch(p) \/ Delete(p) \/ Rearm(p) => TypeOK'
  <1>1. ASSUME NEW r \in Replicas, NEW p \in Plans, Sync(r, p) PROVE TypeOK'
    BY <1>1 DEF Sync, TypeOK, history
  <1>2. ASSUME NEW r \in Replicas, Crash(r) PROVE TypeOK'
    <2>1. rec' \in [Replicas -> Reconciles]
      BY <1>2, IdleValues DEF Crash, Idle, TypeOK
    <2>2. faults' \in 0 .. MaxFaults
      BY <1>2, Bounds DEF Crash, TypeOK
    <2>3. cache' \in [Replicas -> [Plans -> Objects]]
      BY <1>2 DEF Crash, TypeOK
    <2>4. config' \in Policies
      BY <1>2 DEF Crash, TypeOK, Policies
    <2>5. QED
      BY <1>2, <2>1, <2>2, <2>3, <2>4 DEF Crash, TypeOK, history
  <1>3. ASSUME NEW u \in Users, NEW p \in Plans, NEW verb \in {"approve", "reject"},
               Request(u, p, verb)
        PROVE  TypeOK'
    <2>1. PICK read \in {obj[p]} \cup {cache[r][p] : r \in Replicas} :
            http' = [http EXCEPT ![u] =
              [pc |-> "write", plan |-> p, verb |-> verb, copy |-> read]]
      BY <1>3 DEF Request
    <2>2. read \in Objects
      BY DEF TypeOK
    <2>3. http' \in [Users -> Requests]
      BY <2>1, <2>2 DEF TypeOK, Requests
    <2>4. QED
      BY <1>3, <2>3 DEF Request, TypeOK, history
  <1>4. ASSUME NEW u \in Users, Decide(u) PROVE TypeOK'
    <2> DEFINE p == http[u].plan
               o == [http[u].copy EXCEPT
                       !.phase = IF http[u].verb = "approve" THEN "Approved" ELSE "Failed"]
    <2>1. http[u].copy \in Objects /\ p \in Plans
      BY DEF TypeOK, Requests
    <2>2. o \in Objects
      BY <2>1 DEF Objects, Phases
    <2>3. obj' \in [Plans -> Objects]
      BY <1>4, <2>1, <2>2, BumpObject DEF Decide, TypeOK
    <2>4. http' \in [Users -> Requests]
      BY <1>4, IdleValues DEF Decide, TypeOK
    <2>5. approved' \in [Plans -> BOOLEAN] /\ rejected' \in [Plans -> BOOLEAN]
      BY <1>4 DEF Decide, TypeOK
    <2>6. QED
      BY <1>4, <2>3, <2>4, <2>5 DEF Decide, TypeOK
  <1>5. ASSUME NEW p \in Plans, MarkPending(p) PROVE TypeOK'
    <2> obj[p] \in Objects
      BY DEF TypeOK
    <2>1. [obj[p] EXCEPT !.phase = "Pending"] \in Objects
      BY DEF Objects, Phases
    <2>2. QED
      BY <1>5, <2>1, BumpObject DEF MarkPending, TypeOK, history
  <1>6. ASSUME NEW p \in Plans, Touch(p) PROVE TypeOK'
    <2>1. Bump(obj[p]) \in Objects
      BY BumpObject DEF TypeOK
    <2>2. QED
      BY <1>6, <2>1, Bounds DEF Touch, TypeOK, history
  <1>7. ASSUME NEW p \in Plans, Delete(p) PROVE TypeOK'
    <2> obj[p] \in Objects
      BY DEF TypeOK
    <2>1. [obj[p] EXCEPT !.deleting = TRUE, !.exists = obj[p].finalizers # {}] \in Objects
      BY DEF Objects
    <2>2. obj' \in [Plans -> Objects]
      BY <1>7, <2>1, BumpObject DEF Delete, TypeOK
    <2>3. faults' \in 0 .. MaxFaults
      BY <1>7, Bounds DEF Delete, TypeOK
    <2>4. QED
      BY <1>7, <2>2, <2>3 DEF Delete, TypeOK, history
  <1>8. ASSUME NEW p \in Plans, Rearm(p) PROVE TypeOK'
    <2>1. obj[p] \in Objects /\ <<>> \in Seq(Results)
      BY DEF TypeOK
    <2>2. \A kept \in {<<>>, obj[p].results} :
            [obj[p] EXCEPT !.phase = "", !.results = kept] \in Objects
      BY <2>1 DEF Objects, Phases
    <2>3. obj' \in [Plans -> Objects]
      <3>1. PICK kept \in {<<>>, obj[p].results} :
              obj' = [obj EXCEPT ![p] = Bump([obj[p] EXCEPT !.phase = "", !.results = kept])]
        BY <1>8 DEF Rearm, TypeOK
      <3>2. Bump([obj[p] EXCEPT !.phase = "", !.results = kept]) \in Objects
        BY <2>2, BumpObject
      <3>3. QED
        BY <3>1, <3>2 DEF TypeOK
    <2>4. QED
      BY <1>8, <2>3 DEF Rearm, TypeOK
  <1>9. QED
    BY <1>1, <1>2, <1>3, <1>4, <1>5, <1>6, <1>7, <1>8

\* The configuration is edited, or a replica hears of it, or it stays.
LEMMA ConfigCases ==
  ASSUME [Next]_vars
  PROVE  \/ \E r \in Replicas : SyncConfig(r) \/ Crash(r)
         \/ \E c \in Configs : EditConfig(c)
         \/ UNCHANGED config
  <1>1. CASE \E r \in Replicas : Reconcile(r)
    BY <1>1 DEF Reconcile, Begin, Unfinalize, DryRun, StartExecution, BuildTools,
      AbortExecution, SkipAction, ActionSucceeds, ActionFails, Finish
  <1>2. CASE UNCHANGED vars \/ \E r \in Replicas, p \in Plans : Sync(r, p)
    BY <1>2 DEF Sync, vars
  <1>3. CASE \E u \in Users : Decide(u) \/
               (\E p \in Plans, verb \in {"approve", "reject"} : Request(u, p, verb))
    BY <1>3 DEF Decide, Request
  <1>4. CASE \E p \in Plans : MarkPending(p) \/ Touch(p) \/ Delete(p) \/ Rearm(p)
    BY <1>4 DEF MarkPending, Touch, Delete, Rearm
  <1>5. QED
    BY <1>1, <1>2, <1>3, <1>4 DEF Next

\* What a step may be: one of a replica, a request or an outsider; or, when only the
\* configuration moves, none of a plan.
LEMMA StepCases ==
  ASSUME [Next]_vars
  PROVE  \/ \E r \in Replicas : Reconcile(r)
         \/ \E r \in Replicas : Crash(r) \/ \E p \in Plans : Sync(r, p)
         \/ \E u \in Users, p \in Plans, verb \in {"approve", "reject"} : Request(u, p, verb)
         \/ \E u \in Users : Decide(u)
         \/ \E p \in Plans : MarkPending(p) \/ Touch(p) \/ Delete(p) \/ Rearm(p)
         \/ UNCHANGED plans
  <1>1. /\ \A r \in Replicas : SyncConfig(r) => UNCHANGED plans
        /\ \A c \in Configs : EditConfig(c) => UNCHANGED plans
    BY DEF SyncConfig, EditConfig
  <1>2. UNCHANGED vars => UNCHANGED plans
    BY DEF vars
  <1>3. QED
    BY <1>1, <1>2 DEF Next

LEMMA NextType == TypeOK /\ [Next]_vars => TypeOK'
  <1> SUFFICES ASSUME TypeOK, [Next]_vars PROVE TypeOK'
    OBVIOUS
  <1>1. CASE UNCHANGED plans
    <2>1. config' \in Policies
      <3>1. ASSUME NEW r \in Replicas, SyncConfig(r) \/ Crash(r) PROVE config' \in Policies
        BY <3>1 DEF SyncConfig, Crash, TypeOK, Policies
      <3>2. ASSUME NEW c \in Configs, EditConfig(c) PROVE config' \in Policies
        BY <3>2 DEF EditConfig, TypeOK, Policies
      <3>3. CASE UNCHANGED config
        BY <3>3 DEF TypeOK
      <3>4. QED
        BY <1>1, <3>1, <3>2, <3>3, ConfigCases
    <2>2. QED
      BY <1>1, <2>1 DEF plans, history, TypeOK
  <1>2. QED
    BY <1>1, ReconcileType, EnvironmentType, StepCases

\* Type correctness: every phase, result and copy the reconcilers, the dashboard
\* and the API server hand each other is one the CRD schema admits.
THEOREM TypeCorrect == Spec => []TypeOK
  BY InitType, NextType, PTL DEF Spec

-----------------------------------------------------------------------------
(* Versions: every write makes a new one, so an old copy never fits again.  *)

Grown(p) == obj'[p] = obj[p] \/ obj'[p].rv = obj[p].rv + 1

LEMMA LastUpdateGrows ==
  ASSUME TypeOK, NEW r \in Replicas, NEW q \in Plans, NEW new \in Objects,
         new.rv = rec[r].copy.rv, LastUpdate(r, q, new), NEW p \in Plans
  PROVE  Grown(p)
  BY BumpObject DEF LastUpdate, Grown, Accepts, TypeOK

LEMMA ReconcileGrows ==
  ASSUME TypeOK, NEW r \in Replicas, Reconcile(r), NEW p \in Plans
  PROVE  Grown(p)
  <1> DEFINE q == rec[r].plan
  <1>1. q \in Plans /\ rec[r].copy \in Objects /\ obj \in [Plans -> Objects]
    BY DEF TypeOK, Reconciles
  <1>2. CASE \E x \in Plans : Begin(r, x)
    BY <1>2 DEF Begin, Grown
  <1>3. CASE Unfinalize(r)
    <2> DEFINE new == Unfinalized(rec[r].copy)
    <2>1. Bump(new).rv = rec[r].copy.rv + 1
      BY <1>1, UnfinalizedType, BumpObject
    <2>2. obj' = obj \/ (Accepts(q, rec[r].copy) /\ obj' = [obj EXCEPT ![q] = Bump(new)])
      BY <1>3 DEF Unfinalize
    <2>3. QED
      BY <1>1, <2>1, <2>2 DEF Grown, Accepts
  <1>4. CASE DryRun(r)
    <2> DEFINE skipped == [i \in 1 .. Len(spec[q].actions) |-> "Skipped"]
               new == [rec[r].copy EXCEPT !.phase = "Completed", !.results = @ \o skipped]
    <2>1. new.rv = rec[r].copy.rv /\ Bump(new).rv = rec[r].copy.rv + 1
      BY <1>1 DEF Objects, Bump
    <2>2. obj' = obj \/ (Accepts(q, rec[r].copy) /\ obj' = [obj EXCEPT ![q] = Bump(new)])
      BY <1>4 DEF DryRun, LastUpdate
    <2>3. QED
      BY <1>1, <2>1, <2>2 DEF Grown, Accepts
  <1>5. CASE StartExecution(r)
    <2> DEFINE new == Bump([rec[r].copy EXCEPT !.phase = "Executing"])
    <2>1. new.rv = rec[r].copy.rv + 1
      BY <1>1 DEF Objects, Bump
    <2>2. obj' = obj \/ (Accepts(q, rec[r].copy) /\ obj' = [obj EXCEPT ![q] = new])
      BY <1>5 DEF StartExecution
    <2>3. QED
      BY <1>1, <2>1, <2>2 DEF Grown, Accepts
  <1>6. CASE BuildTools(r)
    BY <1>6 DEF BuildTools, Grown
  <1>7. CASE AbortExecution(r)
    <2> DEFINE new == [rec[r].copy EXCEPT !.phase = "Failed"]
    <2>1. new \in Objects /\ new.rv = rec[r].copy.rv
      BY <1>1 DEF Objects, Phases
    <2>2. LastUpdate(r, q, new)
      BY <1>7 DEF AbortExecution
    <2>3. QED
      BY <1>1, <2>1, <2>2, LastUpdateGrows
  <1>8. CASE SkipAction(r) \/ ActionSucceeds(r) \/ ActionFails(r)
    BY <1>8 DEF SkipAction, ActionSucceeds, ActionFails, Grown
  <1>9. CASE Finish(r)
    <2> DEFINE new == [rec[r].copy EXCEPT !.phase = FinalPhase(r)]
    <2>1. new \in Objects /\ new.rv = rec[r].copy.rv
      BY <1>1 DEF Objects, Phases, FinalPhase
    <2>2. LastUpdate(r, q, new)
      BY <1>9 DEF Finish
    <2>3. QED
      BY <1>1, <2>1, <2>2, LastUpdateGrows
  <1>10. QED
    BY <1>2, <1>3, <1>4, <1>5, <1>6, <1>7, <1>8, <1>9 DEF Reconcile

LEMMA DecideGrows ==
  ASSUME TypeOK, NEW u \in Users, Decide(u), NEW p \in Plans
  PROVE  Grown(p)
  <1> DEFINE q == http[u].plan
             new == [http[u].copy EXCEPT
                       !.phase = IF http[u].verb = "approve" THEN "Approved" ELSE "Failed"]
  <1>1. q \in Plans /\ http[u].copy \in Objects /\ obj \in [Plans -> Objects]
    BY DEF TypeOK, Requests
  <1>2. Bump(new).rv = http[u].copy.rv + 1
    BY <1>1 DEF Objects, Bump
  <1>3. obj' = obj \/ (Accepts(q, http[u].copy) /\ obj' = [obj EXCEPT ![q] = Bump(new)])
    BY DEF Decide
  <1>4. QED
    BY <1>1, <1>2, <1>3 DEF Grown, Accepts

LEMMA OutsideGrows ==
  ASSUME TypeOK, NEW q \in Plans, NEW p \in Plans,
         MarkPending(q) \/ Touch(q) \/ Delete(q) \/ Rearm(q)
  PROVE  Grown(p)
  <1>1. obj[q] \in Objects /\ obj \in [Plans -> Objects]
    BY DEF TypeOK
  <1>2. CASE MarkPending(q)
    BY <1>1, <1>2 DEF MarkPending, Grown, Bump, Objects
  <1>3. CASE Touch(q)
    BY <1>1, <1>3 DEF Touch, Grown, Bump, Objects
  <1>4. CASE Delete(q)
    BY <1>1, <1>4 DEF Delete, Grown, Bump, Objects
  <1>5. CASE Rearm(q)
    BY <1>1, <1>5 DEF Rearm, Grown, Bump, Objects
  <1>6. QED
    BY <1>2, <1>3, <1>4, <1>5

LEMMA NextGrows ==
  ASSUME TypeOK, [Next]_vars, NEW p \in Plans
  PROVE  Grown(p)
  <1>1. CASE \E r \in Replicas : Crash(r) \/ \E q \in Plans : Sync(r, q)
    BY <1>1 DEF Crash, Sync, Grown
  <1>2. CASE \E u \in Users, q \in Plans, verb \in {"approve", "reject"} : Request(u, q, verb)
    BY <1>2 DEF Request, Grown
  <1>3. CASE UNCHANGED plans
    BY <1>3 DEF plans, Grown
  <1>4. QED
    BY <1>1, <1>2, <1>3, ReconcileGrows, DecideGrows, OutsideGrows, StepCases

\* A copy that agreed before a write is merely old after it.
LEMMA CopyStillAgrees ==
  ASSUME NEW p \in Plans, NEW copy \in Objects, TypeOK, TypeOK', Grown(p),
         CopyAgrees(copy, p)
  PROVE  CopyAgrees(copy, p)'
  BY DEF CopyAgrees, Fresh, Grown, TypeOK, Objects

\* What a reconcile that does not move holds stays true of the stored object.
LEMMA ReconcileStillAgrees ==
  ASSUME TypeOK, TypeOK', NEW r \in Replicas, ReconcileAgrees(r), rec'[r] = rec[r],
         \A p \in Plans : Grown(p)
  PROVE  ReconcileAgrees(r)'
  <1> DEFINE p == rec[r].plan
  <1>1. p \in Plans /\ rec[r].copy \in Objects /\ obj[p] \in Objects /\ obj'[p] \in Objects
    BY DEF TypeOK, Reconciles
  <1>2. obj'[p] = obj[p] \/ obj'[p].rv = obj[p].rv + 1
    BY <1>1 DEF Grown
  <1>3. CopyAgrees(rec[r].copy, p) => CopyAgrees(rec[r].copy, p)'
    BY <1>1, <1>2 DEF CopyAgrees, Fresh, Objects
  <1>4. rec[r].copy.rv <= obj[p].rv =>
          /\ rec[r].copy.rv <= obj'[p].rv
          /\ rec[r].copy.rv = obj'[p].rv => obj'[p] = obj[p]
    BY <1>1, <1>2 DEF Objects
  <1>5. QED
    BY <1>3, <1>4 DEF ReconcileAgrees, CopyAgrees, Fresh

LEMMA RequestStillAgrees ==
  ASSUME TypeOK, TypeOK', NEW u \in Users, RequestAgrees(u), http'[u] = http[u],
         \A p \in Plans : Grown(p)
  PROVE  RequestAgrees(u)'
  <1> DEFINE p == http[u].plan
  <1>1. p \in Plans /\ http[u].copy \in Objects /\ obj[p] \in Objects /\ obj'[p] \in Objects
    BY DEF TypeOK, Requests
  <1>2. obj'[p] = obj[p] \/ obj'[p].rv = obj[p].rv + 1
    BY <1>1 DEF Grown
  <1>3. QED
    BY <1>1, <1>2 DEF RequestAgrees, CopyAgrees, Fresh, Objects

\* An iteration of the loop changes the replica's copy of the plan and not the
\* version it holds.
LEMMA LoopAdvances ==
  ASSUME TypeOK, NEW r \in Replicas, SkipAction(r) \/ ActionSucceeds(r) \/ ActionFails(r)
  PROVE  \E ok, new : Advance(r, ok, new) /\ new.rv = rec[r].copy.rv
  <1>1. rec[r].copy \in Objects
    BY DEF TypeOK, Reconciles
  <1>2. \A result : Report(r, result).rv = rec[r].copy.rv
    BY <1>1 DEF Report, Objects
  <1>3. RolledBack(r).rv = rec[r].copy.rv
    BY <1>1 DEF RolledBack, Report, Objects
  <1>4. CASE SkipAction(r)
    BY <1>2, <1>4 DEF SkipAction
  <1>5. CASE ActionSucceeds(r)
    BY <1>2, <1>5 DEF ActionSucceeds
  <1>6. CASE ActionFails(r)
    <2>1. CASE spec[rec[r].plan].rollback
      BY <1>3, <1>6, <2>1 DEF ActionFails
    <2>2. CASE ~ spec[rec[r].plan].rollback
      BY <1>2, <1>6, <2>2 DEF ActionFails
    <2>3. QED
      BY <2>1, <2>2
  <1>7. QED
    BY <1>4, <1>5, <1>6

\* ... it stays in the loop, with the same plan.
LEMMA LoopCarries ==
  ASSUME TypeOK, NEW r \in Replicas, SkipAction(r) \/ ActionSucceeds(r) \/ ActionFails(r)
  PROVE  /\ rec'[r].pc = "run" /\ rec'[r].plan = rec[r].plan
         /\ rec'[r].copy.rv = rec[r].copy.rv
         /\ rec'[r].copy.deleting = rec[r].copy.deleting
  <1>1. /\ rec \in [Replicas -> Reconciles] /\ rec[r] \in Reconciles /\ rec[r].copy \in Objects
        /\ rec[r].pc = "run"
    BY DEF TypeOK, Reconciles, SkipAction, ActionSucceeds, ActionFails, Running
  <1>2. \A result : /\ Report(r, result).rv = rec[r].copy.rv
                    /\ Report(r, result).deleting = rec[r].copy.deleting
    BY <1>1 DEF Report, Objects
  <1>3. RolledBack(r).rv = rec[r].copy.rv /\ RolledBack(r).deleting = rec[r].copy.deleting
    BY <1>1 DEF RolledBack, Report, Objects
  <1>4. \E ok, new : /\ Advance(r, ok, new) /\ new.rv = rec[r].copy.rv
                     /\ new.deleting = rec[r].copy.deleting
    <2>1. CASE SkipAction(r)
      BY <1>2, <2>1 DEF SkipAction
    <2>2. CASE ActionSucceeds(r)
      BY <1>2, <2>2 DEF ActionSucceeds
    <2>3. CASE ActionFails(r)
      <3>1. CASE spec[rec[r].plan].rollback
        BY <1>3, <2>3, <3>1 DEF ActionFails
      <3>2. CASE ~ spec[rec[r].plan].rollback
        BY <1>2, <2>3, <3>2 DEF ActionFails
      <3>3. QED
        BY <3>1, <3>2
    <2>4. QED
      BY <2>1, <2>2, <2>3
  <1>5. PICK ok, new : /\ Advance(r, ok, new) /\ new.rv = rec[r].copy.rv
                       /\ new.deleting = rec[r].copy.deleting
    BY <1>4
  <1>6. rec'[r] = [rec[r] EXCEPT !.next = rec[r].next + 1, !.ok = ok, !.copy = new]
    BY <1>1, <1>5 DEF Advance
  <1>7. rec'[r].pc = "run" /\ rec'[r].plan = rec[r].plan /\ rec'[r].copy = new
    BY <1>1, <1>6 DEF Reconciles
  <1>8. QED
    BY <1>5, <1>7

\* A step of one replica leaves the reconciles of the others alone.
LEMMA OthersStay ==
  ASSUME TypeOK, NEW s \in Replicas, Reconcile(s) \/ Crash(s), NEW r \in Replicas, r # s
  PROVE  rec'[r] = rec[r]
  <1>0. rec \in [Replicas -> Reconciles]
    BY DEF TypeOK
  <1>1. CASE (\E p \in Plans : Begin(s, p))
    BY <1>0, <1>1 DEF Begin, Take
  <1>2. CASE Unfinalize(s) \/ DryRun(s) \/ AbortExecution(s) \/ Finish(s) \/ Crash(s)
    BY <1>0, <1>2 DEF Unfinalize, DryRun, AbortExecution, Finish, Crash, LastUpdate, Idle
  <1>3. CASE StartExecution(s) \/ BuildTools(s)
    BY <1>0, <1>3 DEF StartExecution, BuildTools, Idle
  <1>4. CASE SkipAction(s) \/ ActionSucceeds(s) \/ ActionFails(s)
    BY <1>0, <1>4 DEF SkipAction, ActionSucceeds, ActionFails, Advance
  <1>5. QED
    BY <1>1, <1>2, <1>3, <1>4 DEF Reconcile

\* What the replica that takes a step holds afterwards agrees with the API server.
LEMMA ReconcileAgreesStep ==
  ASSUME TypeOK, TypeOK', VersionsAgree, NEW r \in Replicas, Reconcile(r)
  PROVE  ReconcileAgrees(r)'
  <1> DEFINE q == rec[r].plan
             copy == rec[r].copy
  <1>1. /\ q \in Plans /\ rec[r] \in Reconciles /\ copy \in Objects
        /\ obj \in [Plans -> Objects] /\ rec \in [Replicas -> Reconciles]
    BY DEF TypeOK, Reconciles
  <1>2. ReconcileAgrees(r)
    BY DEF VersionsAgree
  <1>3. CASE Idle(r)
    BY <1>1, <1>3 DEF Idle, NoReconcile, ReconcileAgrees
  <1>4. ASSUME NEW p \in Plans, Begin(r, p) PROVE ReconcileAgrees(r)'
    <2>1. CopyAgrees(cache[r][p], p) /\ obj' = obj
      BY <1>4 DEF VersionsAgree, Begin
    <2>2. PICK pc, cfg :
            /\ Take(r, p, pc, cfg)
            /\ \/ pc = "unfinalize"
               \/ /\ pc \in {"dry-run", "start"}
                  /\ cache[r][p].phase \in Armed /\ ~ cache[r][p].deleting
      BY <1>4, BeginTakes
    <2>3. rec'[r].copy = cache[r][p] /\ rec'[r].plan = p /\ rec'[r].pc = pc
      BY <1>1, <2>2 DEF Take
    <2>4. QED
      BY <2>1, <2>2, <2>3 DEF ReconcileAgrees, CopyAgrees, Fresh
  <1>5. CASE StartExecution(r) /\ ~ Idle(r)
    <2> DEFINE new == Bump([copy EXCEPT !.phase = "Executing"])
    <2>1. Accepts(q, copy) /\ obj' = [obj EXCEPT ![q] = new]
          /\ rec' = [rec EXCEPT ![r] = [rec[r] EXCEPT !.pc = "build", !.copy = new]]
      BY <1>5 DEF StartExecution
    <2>2. new.phase = "Executing" /\ new.rv \in Nat
      BY <1>1 DEF Bump, Objects
    <2>3. rec'[r].pc = "build" /\ rec'[r].copy = new /\ rec'[r].plan = q /\ obj'[q] = new
      BY <1>1, <2>1 DEF Reconciles
    <2>4. QED
      BY <2>2, <2>3 DEF ReconcileAgrees, Fresh
  <1>6. CASE BuildTools(r)
    <2>1. rec[r].pc = "build" /\ obj' = obj
      BY <1>6 DEF BuildTools
    <2>2. \E pc \in {"run", "abort"} : rec' = [rec EXCEPT ![r] = [rec[r] EXCEPT !.pc = pc]]
      BY <1>6 DEF BuildTools
    <2>3. rec'[r].pc \in {"run", "abort"} /\ rec'[r].plan = q /\ rec'[r].copy = copy
      BY <1>1, <2>2 DEF Reconciles
    <2>4. QED
      BY <1>2, <2>1, <2>3 DEF ReconcileAgrees, Fresh
  <1>7. CASE SkipAction(r) \/ ActionSucceeds(r) \/ ActionFails(r)
    <2>1. \E ok, new : Advance(r, ok, new) /\ new.rv = copy.rv
      BY <1>7, LoopAdvances
    <2>2. rec[r].pc = "run" /\ obj' = obj
      BY <1>7 DEF SkipAction, ActionSucceeds, ActionFails, Running
    <2>3. rec'[r].pc = "run" /\ rec'[r].copy.rv = copy.rv /\ rec'[r].plan = q
      BY <1>1, <2>1, <2>2 DEF Advance, Reconciles
    <2>4. QED
      BY <1>2, <2>2, <2>3 DEF ReconcileAgrees, Fresh
  <1>8. CASE Unfinalize(r) \/ DryRun(r) \/ AbortExecution(r) \/ Finish(r)
    BY <1>3, <1>8 DEF Unfinalize, DryRun, AbortExecution, Finish, LastUpdate
  <1>9. QED
    BY <1>3, <1>4, <1>5, <1>6, <1>7, <1>8 DEF Reconcile

\* Only replica r moves the reconcile of replica r.
LEMMA WhoMovesReconcile ==
  ASSUME TypeOK, [Next]_vars, NEW r \in Replicas
  PROVE  rec'[r] = rec[r] \/ Reconcile(r) \/ Crash(r)
  <1>1. CASE \E s \in Replicas : Reconcile(s)
    BY <1>1, OthersStay
  <1>2. CASE \E s \in Replicas : Crash(s) \/ \E x \in Plans : Sync(s, x)
    BY <1>2 DEF Crash, Sync, Idle, TypeOK
  <1>3. CASE \E u \in Users : Decide(u) \/
               (\E x \in Plans, verb \in {"approve", "reject"} : Request(u, x, verb))
    BY <1>3 DEF Decide, Request
  <1>4. CASE \E x \in Plans : MarkPending(x) \/ Touch(x) \/ Delete(x) \/ Rearm(x)
    BY <1>4 DEF MarkPending, Touch, Delete, Rearm
  <1>5. CASE UNCHANGED plans
    BY <1>5 DEF plans
  <1>6. QED
    BY <1>1, <1>2, <1>3, <1>4, <1>5, StepCases

\* A cache changes only by catching up with the API server.
LEMMA WhoMovesCache ==
  ASSUME TypeOK, [Next]_vars, NEW r \in Replicas, NEW p \in Plans
  PROVE  cache'[r][p] = cache[r][p] \/ (cache'[r][p] = obj[p] /\ obj' = obj)
  <1>0. cache \in [Replicas -> [Plans -> Objects]] /\ obj \in [Plans -> Objects]
    BY DEF TypeOK
  <1>1. CASE \E s \in Replicas : Reconcile(s)
    BY <1>1 DEF Reconcile, Begin, Unfinalize, DryRun, StartExecution, BuildTools,
         AbortExecution, SkipAction, ActionSucceeds, ActionFails, Finish
  <1>2. CASE \E s \in Replicas : Crash(s)
    BY <1>0, <1>2 DEF Crash
  <1>3. CASE \E s \in Replicas, x \in Plans : Sync(s, x)
    BY <1>0, <1>3 DEF Sync
  <1>4. CASE \E u \in Users : Decide(u) \/
               (\E x \in Plans, verb \in {"approve", "reject"} : Request(u, x, verb))
    BY <1>4 DEF Decide, Request
  <1>5. CASE \E x \in Plans : MarkPending(x) \/ Touch(x) \/ Delete(x) \/ Rearm(x)
    BY <1>5 DEF MarkPending, Touch, Delete, Rearm
  <1>6. CASE UNCHANGED plans
    BY <1>6 DEF plans
  <1>7. QED
    BY <1>1, <1>2, <1>3, <1>4, <1>5, <1>6, StepCases

LEMMA NextVersions ==
  ASSUME TypeOK, TypeOK', VersionsAgree, [Next]_vars
  PROVE  VersionsAgree'
  <1>1. \A p \in Plans : Grown(p)
    BY NextGrows
  <1>2. /\ rec \in [Replicas -> Reconciles] /\ http \in [Users -> Requests]
        /\ cache \in [Replicas -> [Plans -> Objects]] /\ obj \in [Plans -> Objects]
    BY DEF TypeOK
  <1>3. ASSUME NEW r \in Replicas, NEW p \in Plans PROVE CopyAgrees(cache[r][p], p)'
    <2>1. cache'[r][p] = cache[r][p] \/ (cache'[r][p] = obj[p] /\ obj' = obj)
      BY WhoMovesCache
    <2>2. CASE cache'[r][p] = cache[r][p]
      <3>1. CopyAgrees(cache[r][p], p) /\ cache[r][p] \in Objects
        BY <1>2 DEF VersionsAgree
      <3>2. QED
        BY <1>1, <2>2, <3>1, CopyStillAgrees DEF CopyAgrees, Fresh
    <2>3. CASE cache'[r][p] = obj[p] /\ obj' = obj
      BY <1>2, <2>3 DEF CopyAgrees, Fresh, Objects
    <2>4. QED
      BY <2>1, <2>2, <2>3
  <1>4. ASSUME NEW u \in Users PROVE RequestAgrees(u)'
    <2>1. RequestAgrees(u)
      BY DEF VersionsAgree
    <2>2. CASE http'[u] = http[u]
      BY <1>1, <2>1, <2>2, RequestStillAgrees
    <2>3. CASE Decide(u)
      BY <1>2, <2>3 DEF Decide, NoRequest, RequestAgrees
    <2>4. ASSUME NEW p \in Plans, NEW verb \in {"approve", "reject"}, Request(u, p, verb)
          PROVE  RequestAgrees(u)'
      <3>1. PICK read \in {obj[p]} \cup {cache[r][p] : r \in Replicas} :
              /\ read.phase = "Pending"
              /\ http' = [http EXCEPT ![u] =
                   [pc |-> "write", plan |-> p, verb |-> verb, copy |-> read]]
        BY <2>4 DEF Request, Decidable
      <3>2. obj' = obj
        BY <2>4 DEF Request
      <3>3. CopyAgrees(read, p)
        BY <1>2 DEF VersionsAgree, CopyAgrees, Fresh, Objects
      <3>4. QED
        BY <1>2, <3>1, <3>2, <3>3 DEF RequestAgrees, CopyAgrees, Fresh
    <2>5. http'[u] = http[u] \/ Decide(u) \/
            \E p \in Plans, verb \in {"approve", "reject"} : Request(u, p, verb)
      <3>1. CASE \E s \in Replicas : Reconcile(s)
        BY <3>1 DEF Reconcile, Begin, Unfinalize, DryRun, StartExecution, BuildTools,
             AbortExecution, SkipAction, ActionSucceeds, ActionFails, Finish
      <3>2. CASE \E s \in Replicas : Crash(s) \/ \E x \in Plans : Sync(s, x)
        BY <3>2 DEF Crash, Sync
      <3>3. CASE \E v \in Users : Decide(v) \/
                   (\E x \in Plans, verb \in {"approve", "reject"} : Request(v, x, verb))
        BY <1>2, <3>3 DEF Decide, Request
      <3>4. CASE \E x \in Plans : MarkPending(x) \/ Touch(x) \/ Delete(x) \/ Rearm(x)
        BY <3>4 DEF MarkPending, Touch, Delete, Rearm
      <3>5. CASE UNCHANGED plans
        BY <3>5 DEF plans
      <3>6. QED
        BY <3>1, <3>2, <3>3, <3>4, <3>5, StepCases
    <2>6. QED
      BY <2>2, <2>3, <2>4, <2>5
  <1>5. ASSUME NEW r \in Replicas PROVE ReconcileAgrees(r)'
    <2>1. ReconcileAgrees(r)
      BY DEF VersionsAgree
    <2>2. rec'[r] = rec[r] \/ Reconcile(r) \/ Crash(r)
      BY WhoMovesReconcile
    <2>3. CASE rec'[r] = rec[r]
      BY <1>1, <2>1, <2>3, ReconcileStillAgrees
    <2>4. CASE Crash(r)
      BY <1>2, <2>4 DEF Crash, Idle, NoReconcile, ReconcileAgrees
    <2>5. QED
      BY <2>2, <2>3, <2>4, ReconcileAgreesStep
  <1>6. QED
    BY <1>3, <1>4, <1>5 DEF VersionsAgree

-----------------------------------------------------------------------------
(* Armings are spent once.                                                  *)

\* What one step may do to the account of plan p: leave it or settle it without
\* a run, spend the arming, or open a new one.
Spends(p) ==
  \/ /\ armed'[p] = armed[p] /\ started'[p] = started[p] /\ rejected'[p] = rejected[p]
     /\ obj'[p].phase \in Armed => obj[p].phase \in Armed
  \/ /\ obj[p].phase \in Armed /\ obj'[p].phase \notin Armed
     /\ armed'[p] = armed[p]
     /\ \/ started'[p] = started[p] + 1 /\ rejected'[p] = rejected[p]
        \/ started'[p] = started[p]
  \/ /\ obj[p].phase \notin Armed
     /\ armed'[p] = armed[p] + 1 /\ started'[p] = started[p] /\ rejected'[p] = FALSE

\* An update by replica r that is not its update to Executing: the phase it
\* writes is no armed one, or the one it read.
LEMMA UpdateSpends ==
  ASSUME TypeOK, NEW q \in Plans, NEW copy \in Objects, NEW new \in Objects,
         CopyAgrees(copy, q) \/ new.phase \notin Armed,
         new.phase \in Armed => new.phase = copy.phase,
         obj' = obj \/ (Accepts(q, copy) /\ obj' = [obj EXCEPT ![q] = Bump(new)]),
         UNCHANGED <<armed, started, rejected>>, NEW p \in Plans
  PROVE  Spends(p)
  <1>1. Bump(new).phase = new.phase
    BY DEF Bump, Objects
  <1>2. CASE obj'[p] = obj[p]
    BY <1>2 DEF Spends
  <1>3. CASE obj'[p] # obj[p]
    <2>1. p = q /\ Accepts(q, copy) /\ obj'[p].phase = new.phase
      BY <1>1, <1>3 DEF TypeOK
    <2>2. new.phase \in Armed => obj[p].phase = new.phase
      BY <2>1 DEF CopyAgrees, Fresh, Accepts
    <2>3. QED
      BY <2>1, <2>2 DEF Spends
  <1>4. QED
    BY <1>2, <1>3

LEMMA ReconcileSpends ==
  ASSUME TypeOK, VersionsAgree, NEW r \in Replicas, Reconcile(r), NEW p \in Plans
  PROVE  Spends(p)
  <1> DEFINE q == rec[r].plan
             copy == rec[r].copy
  <1>1. /\ q \in Plans /\ copy \in Objects
        /\ obj \in [Plans -> Objects] /\ started \in [Plans -> Nat]
    BY DEF TypeOK, Reconciles
  <1>2. ReconcileAgrees(r)
    BY DEF VersionsAgree
  <1>3. CASE (\E x \in Plans : Begin(r, x)) \/ BuildTools(r)
             \/ SkipAction(r) \/ ActionSucceeds(r) \/ ActionFails(r)
    BY <1>3 DEF Begin, BuildTools, SkipAction, ActionSucceeds, ActionFails, history, Spends
  <1>4. CASE Unfinalize(r)
    <2> DEFINE new == Unfinalized(copy)
    <2>1. new \in Objects /\ new.phase = copy.phase
      BY <1>1, UnfinalizedType
    <2>2. obj' = obj \/ (Accepts(q, copy) /\ obj' = [obj EXCEPT ![q] = Bump(new)])
      BY <1>4 DEF Unfinalize
    <2>3. CopyAgrees(copy, q) /\ UNCHANGED <<armed, started, rejected>>
      BY <1>2, <1>4 DEF Unfinalize, ReconcileAgrees, history
    <2>4. QED
      BY <1>1, <2>1, <2>2, <2>3, UpdateSpends
  <1>5. CASE DryRun(r)
    <2> DEFINE skipped == [i \in 1 .. Len(spec[q].actions) |-> "Skipped"]
               new == [copy EXCEPT !.phase = "Completed", !.results = @ \o skipped]
    <2>1. Bump(new).phase = "Completed"
      BY <1>1 DEF Bump, Objects
    <2>2. obj' = obj \/ obj' = [obj EXCEPT ![q] = Bump(new)]
      BY <1>5 DEF DryRun, LastUpdate
    <2>3. UNCHANGED <<armed, started, rejected>>
      BY <1>5 DEF DryRun, history
    <2>4. QED
      BY <1>1, <2>1, <2>2, <2>3 DEF Spends, Armed
  <1>6. CASE StartExecution(r)
    <2> DEFINE new == Bump([copy EXCEPT !.phase = "Executing"])
    <2>1. new.phase = "Executing"
      BY <1>1 DEF Bump, Objects
    <2>2. CopyAgrees(copy, q) /\ copy.phase \in Armed
      BY <1>2, <1>6 DEF StartExecution, ReconcileAgrees
    <2>3. /\ UNCHANGED <<armed, rejected>>
          /\ \/ UNCHANGED <<obj, started>>
             \/ /\ Accepts(q, copy) /\ obj' = [obj EXCEPT ![q] = new]
                /\ started' = started \/ started' = [started EXCEPT ![q] = @ + 1]
      BY <1>6 DEF StartExecution
    <2>4. Accepts(q, copy) => obj[q].phase \in Armed
      BY <2>2 DEF Accepts, CopyAgrees, Fresh
    <2>5. QED
      BY <1>1, <2>1, <2>3, <2>4 DEF Spends, Armed
  <1>7. CASE AbortExecution(r)
    <2> DEFINE new == [copy EXCEPT !.phase = "Failed"]
    <2>1. Bump(new).phase = "Failed"
      BY <1>1 DEF Bump, Objects
    <2>2. obj' = obj \/ obj' = [obj EXCEPT ![q] = Bump(new)]
      BY <1>7 DEF AbortExecution, LastUpdate
    <2>3. UNCHANGED <<armed, started, rejected>>
      BY <1>7 DEF AbortExecution, history
    <2>4. QED
      BY <1>1, <2>1, <2>2, <2>3 DEF Spends, Armed
  <1>8. CASE Finish(r)
    <2> DEFINE new == [copy EXCEPT !.phase = FinalPhase(r)]
    <2>1. Bump(new).phase \in Terminal
      BY <1>1 DEF Bump, Objects, FinalPhase, Terminal
    <2>2. obj' = obj \/ obj' = [obj EXCEPT ![q] = Bump(new)]
      BY <1>8 DEF Finish, LastUpdate
    <2>3. UNCHANGED <<armed, started, rejected>>
      BY <1>8 DEF Finish, history
    <2>4. QED
      BY <1>1, <2>1, <2>2, <2>3 DEF Spends, Armed, Terminal
  <1>9. QED
    BY <1>3, <1>4, <1>5, <1>6, <1>7, <1>8 DEF Reconcile

\* A decision is taken on a Pending plan, whatever the request read.
LEMMA DecideSpends ==
  ASSUME TypeOK, VersionsAgree, NEW u \in Users, Decide(u), NEW p \in Plans
  PROVE  Spends(p)
  <1> DEFINE q == http[u].plan
             copy == http[u].copy
             new == [copy EXCEPT
                       !.phase = IF http[u].verb = "approve" THEN "Approved" ELSE "Failed"]
  <1>1. /\ q \in Plans /\ copy \in Objects
        /\ obj \in [Plans -> Objects] /\ rejected \in [Plans -> BOOLEAN]
    BY DEF TypeOK, Requests
  <1>2. CopyAgrees(copy, q) /\ copy.phase = "Pending"
    BY DEF Decide, VersionsAgree, RequestAgrees
  <1>3. Bump(new).phase \in {"Approved", "Failed"}
    BY <1>1 DEF Bump, Objects
  <1>4. UNCHANGED <<armed, started>>
    BY DEF Decide
  <1>5. CASE Accepts(q, copy)
    <2>1. obj[q].phase = "Pending"
      BY <1>2, <1>5 DEF Accepts, CopyAgrees, Fresh
    <2>2. obj' = [obj EXCEPT ![q] = Bump(new)]
      BY <1>5 DEF Decide
    <2>3. \A x \in Plans : x # q => rejected'[x] = rejected[x]
      BY <1>1, <1>5 DEF Decide
    <2>4. CASE p = q
      <3>1. obj'[p].phase \in {"Approved", "Failed"}
        BY <1>1, <1>3, <2>2, <2>4
      <3>2. QED
        BY <1>4, <2>1, <2>4, <3>1 DEF Spends, Armed
    <2>5. CASE p # q
      BY <1>1, <1>4, <2>2, <2>3, <2>5 DEF Spends
    <2>6. QED
      BY <2>4, <2>5
  <1>6. CASE ~ Accepts(q, copy)
    BY <1>4, <1>6 DEF Decide, Spends
  <1>7. QED
    BY <1>5, <1>6

LEMMA OutsideSpends ==
  ASSUME TypeOK, NEW q \in Plans, NEW p \in Plans,
         MarkPending(q) \/ Touch(q) \/ Delete(q) \/ Rearm(q)
  PROVE  Spends(p)
  <1>1. /\ obj[q] \in Objects /\ obj \in [Plans -> Objects]
        /\ armed \in [Plans -> Nat] /\ rejected \in [Plans -> BOOLEAN]
    BY DEF TypeOK
  <1>2. CASE MarkPending(q)
    BY <1>1, <1>2 DEF MarkPending, history, Spends, Bump, Objects, Armed
  <1>3. CASE Touch(q)
    BY <1>1, <1>3 DEF Touch, history, Spends, Bump, Objects
  <1>4. CASE Delete(q)
    BY <1>1, <1>4 DEF Delete, history, Spends, Bump, Objects
  <1>5. CASE Rearm(q)
    BY <1>1, <1>5 DEF Rearm, Spends, Bump, Objects
  <1>6. QED
    BY <1>2, <1>3, <1>4, <1>5

LEMMA NextSpends ==
  ASSUME TypeOK, VersionsAgree, [Next]_vars, NEW p \in Plans
  PROVE  Spends(p)
  <1>1. CASE \E r \in Replicas : Crash(r) \/ \E q \in Plans : Sync(r, q)
    BY <1>1 DEF Crash, Sync, history, Spends
  <1>2. CASE \E u \in Users, q \in Plans, verb \in {"approve", "reject"} : Request(u, q, verb)
    BY <1>2 DEF Request, history, Spends
  <1>3. CASE UNCHANGED plans
    BY <1>3 DEF plans, history, Spends
  <1>4. QED
    BY <1>1, <1>2, <1>3, ReconcileSpends, DecideSpends, OutsideSpends, StepCases

LEMMA NextArmings ==
  ASSUME TypeOK, TypeOK', VersionsAgree, ArmingSpentOnce, [Next]_vars
  PROVE  ArmingSpentOnce'
  <1> SUFFICES ASSUME NEW p \in Plans
               PROVE  (started[p] + One(obj[p].phase \in Armed) + One(rejected[p]) <= armed[p])'
    BY DEF ArmingSpentOnce
  <1>1. Spends(p)
    BY NextSpends
  <1>2. started[p] + One(obj[p].phase \in Armed) + One(rejected[p]) <= armed[p]
    BY DEF ArmingSpentOnce
  <1>3. /\ started[p] \in Nat /\ started'[p] \in Nat /\ armed[p] \in Nat /\ armed'[p] \in Nat
        /\ rejected[p] \in BOOLEAN /\ rejected'[p] \in BOOLEAN
    BY DEF TypeOK
  <1>4. QED
    BY <1>1, <1>2, <1>3 DEF Spends, One

-----------------------------------------------------------------------------
(* Runs only move forward.                                                  *)

\* The runs ahead of an action are finitely many.
LEMMA AheadFinite ==
  ASSUME NEW p, NEW i
  PROVE  IsFiniteSet(Ahead(p, i)) /\ Cardinality(Ahead(p, i)) \in Nat
  <1>1. IsFiniteSet(Replicas) /\ Ahead(p, i) \subseteq Replicas
    BY PlanAssumption DEF Ahead
  <1>2. QED
    BY <1>1, FS_Subset, FS_CardinalityType

\* What one step may do to the runs of p and the calls of its action i: nothing
\* but lose runs, start one, or have one run call the tool and pass on.
Passes(p, i) ==
  \/ /\ Ahead(p, i)' \subseteq Ahead(p, i)
     /\ attempts'[p][i] = attempts[p][i] /\ started'[p] = started[p]
  \/ \E r \in Replicas :
       /\ Ahead(p, i)' \subseteq Ahead(p, i) \cup {r}
       /\ attempts'[p][i] = attempts[p][i] /\ started'[p] = started[p] + 1
  \/ \E r \in Ahead(p, i) :
       /\ Ahead(p, i)' \subseteq Ahead(p, i) \ {r}
       /\ attempts'[p][i] = attempts[p][i] + 1 /\ started'[p] = started[p]

\* The loop of one run: it leaves action i = next behind, whatever it does to it.
LEMMA LoopPasses ==
  ASSUME TypeOK, NEW r \in Replicas, SkipAction(r) \/ ActionSucceeds(r) \/ ActionFails(r),
         NEW p \in Plans, NEW i \in Steps
  PROVE  Passes(p, i)
  <1> DEFINE q == rec[r].plan
             n == rec[r].next
  <1>1. /\ q \in Plans /\ n \in Nat /\ rec[r] \in Reconciles /\ rec \in [Replicas -> Reconciles]
        /\ i \in Nat /\ attempts \in [Plans -> [Steps -> Nat]]
    BY Bounds DEF TypeOK, Reconciles, Steps
  <1>2. /\ rec[r].pc = "run" /\ started' = started
        /\ attempts' = attempts \/ attempts' = Count(attempts, r)
    BY DEF SkipAction, ActionSucceeds, ActionFails, Running, history
  <1>3. /\ \A s \in Replicas \ {r} : rec'[s] = rec[s]
        /\ rec'[r].pc = "run" /\ rec'[r].plan = q /\ rec'[r].next = n + 1
    <2>1. PICK ok, new : Advance(r, ok, new)
      BY LoopAdvances
    <2>2. rec'[r] = [rec[r] EXCEPT !.next = rec[r].next + 1, !.ok = ok, !.copy = new]
      BY <1>1, <2>1 DEF Advance
    <2>3. QED
      BY <1>1, <1>2, <2>1, <2>2 DEF Advance, Reconciles
  <1>4. /\ Ahead(p, i)' \subseteq Ahead(p, i)
        /\ p = q /\ i = n => r \in Ahead(p, i) /\ Ahead(p, i)' \subseteq Ahead(p, i) \ {r}
    BY <1>1, <1>2, <1>3 DEF Ahead
  <1>5. \/ attempts'[p][i] = attempts[p][i]
        \/ p = q /\ i = n /\ attempts'[p][i] = attempts[p][i] + 1
    BY <1>1, <1>2 DEF Count
  <1>6. QED
    BY <1>2, <1>4, <1>5 DEF Passes

LEMMA ReconcilePasses ==
  ASSUME TypeOK, NEW r \in Replicas, Reconcile(r), NEW p \in Plans, NEW i \in Steps
  PROVE  Passes(p, i)
  <1>1. /\ rec[r] \in Reconciles /\ rec \in [Replicas -> Reconciles]
        /\ started \in [Plans -> Nat] /\ rec[r].plan \in Plans
        /\ \A s \in Replicas \ {r} : rec'[s] = rec[s]
    BY OthersStay DEF TypeOK, Reconciles
  <1>2. CASE Idle(r) /\ UNCHANGED <<attempts, started>>
    BY <1>1, <1>2 DEF Idle, NoReconcile, Ahead, Passes
  <1>3. ASSUME NEW q \in Plans, Begin(r, q) PROVE Passes(p, i)
    <2>1. rec'[r].pc \in {"unfinalize", "dry-run", "start"}
      BY <1>1, <1>3, BeginTakes DEF Take
    <2>2. UNCHANGED <<attempts, started>>
      BY <1>3 DEF Begin, history
    <2>3. QED
      BY <1>1, <2>1, <2>2 DEF Ahead, Passes
  <1>4. CASE StartExecution(r) /\ ~ Idle(r)
    <2>1. attempts' = attempts /\ started' = [started EXCEPT ![rec[r].plan] = @ + 1]
      BY <1>4 DEF StartExecution
    <2>2. \E new : rec' = [rec EXCEPT ![r] = [rec[r] EXCEPT !.pc = "build", !.copy = new]]
      BY <1>4 DEF StartExecution
    <2>3. rec'[r].plan = rec[r].plan
      BY <1>1, <2>2 DEF Reconciles
    <2>4. CASE p = rec[r].plan
      <3>1. Ahead(p, i)' \subseteq Ahead(p, i) \cup {r}
        BY <1>1 DEF Ahead
      <3>2. QED
        BY <1>1, <2>1, <2>4, <3>1 DEF Passes
    <2>5. CASE p # rec[r].plan
      BY <1>1, <2>1, <2>3, <2>5 DEF Ahead, Passes
    <2>6. QED
      BY <2>4, <2>5
  <1>5. CASE BuildTools(r)
    <2>1. rec[r].pc = "build" /\ UNCHANGED <<attempts, started>>
      BY <1>5 DEF BuildTools, history
    <2>2. \E pc : rec' = [rec EXCEPT ![r] = [rec[r] EXCEPT !.pc = pc]]
      BY <1>5 DEF BuildTools
    <2>3. rec'[r].plan = rec[r].plan /\ rec'[r].next = rec[r].next
      BY <1>1, <2>2 DEF Reconciles
    <2>4. QED
      BY <1>1, <2>1, <2>3 DEF Ahead, Passes
  <1>6. CASE StartExecution(r) /\ Idle(r) /\ started' = started
    BY <1>2, <1>6 DEF StartExecution
  <1>7. CASE Unfinalize(r) \/ DryRun(r) \/ AbortExecution(r) \/ Finish(r)
    BY <1>2, <1>7 DEF Unfinalize, DryRun, AbortExecution, Finish, LastUpdate, history
  <1>8. StartExecution(r) => ~ Idle(r) \/ (Idle(r) /\ started' = started)
    <2> SUFFICES ASSUME StartExecution(r), Idle(r) PROVE started' = started
      OBVIOUS
    <2>1. rec'[r].pc = "idle"
      BY <1>1 DEF Idle, NoReconcile
    <2>2. ASSUME NEW new,
                 rec' = [rec EXCEPT ![r] = [rec[r] EXCEPT !.pc = "build", !.copy = new]]
          PROVE  FALSE
      <3>1. rec'[r] = [rec[r] EXCEPT !.pc = "build", !.copy = new]
        BY <1>1, <2>2
      <3>2. rec'[r].pc = "build"
        BY <1>1, <3>1 DEF Reconciles
      <3>3. QED
        BY <2>1, <3>2
    <2>3. QED
      BY <2>2 DEF StartExecution
  <1>9. QED
    BY <1>3, <1>4, <1>5, <1>6, <1>7, <1>8, LoopPasses DEF Reconcile

LEMMA NextAttempts ==
  ASSUME TypeOK, TypeOK', AttemptsWithinRuns, [Next]_vars
  PROVE  AttemptsWithinRuns'
  <1> SUFFICES ASSUME NEW p \in Plans, NEW i \in Steps
               PROVE  (attempts[p][i] + Cardinality(Ahead(p, i)) <= started[p])'
    BY DEF AttemptsWithinRuns
  <1>1. Passes(p, i)
    <2>1. CASE \E r \in Replicas : Crash(r)
      <3>1. PICK r \in Replicas : Crash(r)
        BY <2>1
      <3>2. rec'[r].pc = "idle" /\ \A s \in Replicas \ {r} : rec'[s] = rec[s]
        BY <3>1 DEF Crash, Idle, NoReconcile, TypeOK
      <3>3. UNCHANGED <<attempts, started>>
        BY <3>1 DEF Crash, history
      <3>4. QED
        BY <3>2, <3>3 DEF Ahead, Passes
    <2>2. CASE \/ \E r \in Replicas, q \in Plans : Sync(r, q)
               \/ \E u \in Users : Decide(u) \/
                    (\E q \in Plans, verb \in {"approve", "reject"} : Request(u, q, verb))
               \/ \E q \in Plans : MarkPending(q) \/ Touch(q) \/ Delete(q) \/ Rearm(q)
               \/ UNCHANGED plans
      <3>1. UNCHANGED <<rec, attempts, started>>
        BY <2>2 DEF Sync, Decide, Request, MarkPending, Touch, Delete, Rearm, plans, history
      <3>2. QED
        BY <3>1 DEF Ahead, Passes
    <2>3. QED
      BY <2>1, <2>2, ReconcilePasses, StepCases
  <1>2. attempts[p][i] + Cardinality(Ahead(p, i)) <= started[p]
    BY DEF AttemptsWithinRuns
  <1>3. /\ attempts[p][i] \in Nat /\ attempts'[p][i] \in Nat
        /\ started[p] \in Nat /\ started'[p] \in Nat
        /\ IsFiniteSet(Ahead(p, i)) /\ Cardinality(Ahead(p, i)) \in Nat
    BY AheadFinite DEF TypeOK
  <1>4. IsFiniteSet(Ahead(p, i)') /\ Cardinality(Ahead(p, i)') \in Nat
    <2>1. Ahead(p, i)' \subseteq Replicas /\ IsFiniteSet(Replicas)
      BY PlanAssumption DEF Ahead
    <2>2. QED
      BY <2>1, FS_Subset, FS_CardinalityType
  <1>5. CASE /\ Ahead(p, i)' \subseteq Ahead(p, i)
             /\ attempts'[p][i] = attempts[p][i] /\ started'[p] = started[p]
    <2>1. Cardinality(Ahead(p, i)') <= Cardinality(Ahead(p, i))
      BY <1>3, <1>5, FS_Subset
    <2>2. QED
      BY <1>2, <1>3, <1>4, <1>5, <2>1
  <1>6. ASSUME NEW r \in Replicas, Ahead(p, i)' \subseteq Ahead(p, i) \cup {r},
               attempts'[p][i] = attempts[p][i], started'[p] = started[p] + 1
        PROVE  (attempts[p][i] + Cardinality(Ahead(p, i)) <= started[p])'
    <2>1. /\ IsFiniteSet(Ahead(p, i) \cup {r})
          /\ Cardinality(Ahead(p, i) \cup {r}) <= Cardinality(Ahead(p, i)) + 1
      <3>1. Cardinality(Ahead(p, i) \cup {r})
              = IF r \in Ahead(p, i) THEN Cardinality(Ahead(p, i)) ELSE Cardinality(Ahead(p, i)) + 1
        BY <1>3, FS_AddElement
      <3>2. IsFiniteSet(Ahead(p, i) \cup {r})
        BY <1>3, FS_AddElement
      <3>3. QED
        BY <1>3, <3>1, <3>2
    <2>2. Cardinality(Ahead(p, i)') <= Cardinality(Ahead(p, i) \cup {r})
      BY <1>6, <2>1, FS_Subset
    <2>3. Cardinality(Ahead(p, i) \cup {r}) \in Nat
      BY <2>1, FS_CardinalityType
    <2>4. QED
      BY <1>2, <1>3, <1>4, <1>6, <2>1, <2>2, <2>3
  <1>7. ASSUME NEW r \in Ahead(p, i), Ahead(p, i)' \subseteq Ahead(p, i) \ {r},
               attempts'[p][i] = attempts[p][i] + 1, started'[p] = started[p]
        PROVE  (attempts[p][i] + Cardinality(Ahead(p, i)) <= started[p])'
    <2>1. /\ IsFiniteSet(Ahead(p, i) \ {r})
          /\ Cardinality(Ahead(p, i) \ {r}) = Cardinality(Ahead(p, i)) - 1
      BY <1>3, FS_RemoveElement
    <2>2. Cardinality(Ahead(p, i)') <= Cardinality(Ahead(p, i) \ {r})
      BY <1>7, <2>1, FS_Subset
    <2>3. QED
      BY <1>2, <1>3, <1>4, <1>7, <2>1, <2>2
  <1>8. QED
    BY <1>1, <1>5, <1>6, <1>7 DEF Passes

-----------------------------------------------------------------------------
(* The first run of a plan reports what it did.                             *)

\* What one step may do to the first run of plan p: nothing, settle the arming
\* without a run, enter the run, take it one action further, close it, or put
\* it behind by re-arming the plan.
Quiet(p) ==
  /\ armed'[p] = armed[p] /\ started'[p] = started[p] /\ spec'[p] = spec[p]
  /\ attempts'[p] = attempts[p] /\ applied'[p] = applied[p]
  /\ obj'[p].results = obj[p].results
  /\ obj'[p].phase = obj[p].phase \/ {obj'[p].phase, obj[p].phase} \subseteq Armed
  /\ \A s \in Replicas : Executes(s, p)' =>
       Executes(s, p) /\ UNCHANGED <<rec[s].copy, rec[s].cfg, rec[s].next>>

Settles(p) ==
  /\ armed'[p] = armed[p] /\ started'[p] = started[p] /\ attempts'[p] = attempts[p]
  /\ obj[p].phase \in Armed /\ obj'[p].phase \in {"Approved", "Completed", "Failed"}
  /\ \A s \in Replicas : Executes(s, p)' => Executes(s, p)

Enters(p) ==
  /\ armed'[p] = armed[p] /\ attempts'[p] = attempts[p]
  /\ obj[p].phase \in Armed /\ obj'[p].phase = "Executing"
  /\ \E r \in Replicas :
       \A s \in Replicas : Executes(s, p)' => Executes(s, p) \/ (s = r /\ RunReports(s, p)')

Continues(p) ==
  /\ armed'[p] = armed[p] /\ obj' = obj
  /\ \E r \in Replicas :
       /\ Executes(r, p) /\ rec'[r].cfg = rec[r].cfg
       /\ RunReports(r, p) => RunReports(r, p)'
  /\ \A s \in Replicas : Executes(s, p)' => Executes(s, p)

Closes(p) ==
  /\ armed'[p] = armed[p] /\ spec'[p] = spec[p]
  /\ attempts'[p] = attempts[p] /\ applied'[p] = applied[p]
  /\ obj'[p].phase \in Terminal
  /\ \E r \in Replicas :
       /\ Executes(r, p) /\ ~ Executes(r, p)'
       /\ obj'[p].results = rec[r].copy.results
       /\ obj'[p].phase = "RolledBack" => rec[r].copy.phase = "RolledBack"
  /\ \A s \in Replicas : Executes(s, p)' => Executes(s, p)

Moves(p) ==
  Quiet(p) \/ Settles(p) \/ Enters(p) \/ Continues(p) \/ Closes(p) \/ armed'[p] = armed[p] + 1

\* Every one of these moves keeps the report of the first run in order.
LEMMA MovesKeep ==
  ASSUME TypeOK, ArmingSpentOnce, NEW p \in Plans, armed[p] >= 1,
         armed[p] = 1 => FirstRun(p), Moves(p)
  PROVE  armed'[p] >= 1 /\ (armed'[p] = 1 => FirstRun(p)')
  <1>1. armed[p] \in Nat /\ started[p] \in Nat
    BY DEF TypeOK
  <1>2. CASE armed'[p] = armed[p] + 1
    BY <1>1, <1>2
  <1>3. armed'[p] # armed[p] + 1 => armed'[p] = armed[p]
    BY DEF Moves, Quiet, Settles, Enters, Continues, Closes
  <1>4. SUFFICES ASSUME armed[p] = 1, armed'[p] = 1, FirstRun(p) PROVE FirstRun(p)'
    BY <1>1, <1>2, <1>3
  <1>5. started[p] + One(obj[p].phase \in Armed) + One(rejected[p]) <= 1
    BY <1>4 DEF ArmingSpentOnce
  <1>6. CASE Quiet(p)
    <2>1. \A results : Accounts(p, results) => Accounts(p, results)'
      BY <1>6 DEF Accounts, Quiet
    <2>2. Reported(p)' => Reported(p)
      BY <1>6 DEF Reported, Quiet, Armed, Terminal
    <2>3. obj[p].phase = "Executing" => obj'[p].phase = "Executing"
      BY <1>6 DEF Quiet, Armed
    <2>4. ASSUME NEW r \in Replicas, Executes(r, p)'
          PROVE  /\ obj'[p].phase = "Executing" /\ RunReports(r, p)'
                 /\ \A s \in Replicas : Executes(s, p)' => s = r
      <3>1. Executes(r, p) /\ UNCHANGED <<rec[r].copy, rec[r].cfg, rec[r].next>>
        BY <1>6, <2>4 DEF Quiet
      <3>2. RunReports(r, p)
        BY <1>4, <3>1 DEF FirstRun
      <3>3. RunReports(r, p)'
        BY <1>6, <3>1, <3>2 DEF RunReports, Accounts, SkipsAs, Quiet
      <3>4. \A s \in Replicas : Executes(s, p)' => Executes(s, p)
        BY <1>6 DEF Quiet
      <3>5. QED
        BY <1>4, <2>3, <3>1, <3>3, <3>4 DEF FirstRun
    <2>5. Reported(p)' => Accounts(p, obj[p].results)'
      BY <1>4, <1>6, <2>2 DEF FirstRun, Accounts, Quiet
    <2>6. /\ obj'[p].phase \in Armed => obj'[p].results = <<>>
          /\ obj'[p].phase = "RolledBack" => StoppedAtFailure(obj'[p].results)
      BY <1>4, <1>6 DEF FirstRun, Quiet, Armed
    <2>7. QED
      BY <2>4, <2>5, <2>6 DEF FirstRun
  <1>7. CASE Settles(p)
    <2>1. started'[p] = 0
      BY <1>1, <1>5, <1>7 DEF Settles, One
    <2>2. \A s \in Replicas : ~ Executes(s, p)'
      BY <1>4, <1>7 DEF Settles, FirstRun, Armed
    <2>3. ~ Reported(p)'
      BY <2>1 DEF Reported
    <2>4. obj'[p].phase \notin Armed \cup {"RolledBack"}
      BY <1>7 DEF Settles, Armed
    <2>5. QED
      BY <2>2, <2>3, <2>4 DEF FirstRun
  <1>8. CASE Enters(p)
    <2>1. \A s \in Replicas : ~ Executes(s, p)
      BY <1>4, <1>8 DEF Enters, FirstRun, Armed
    <2>2. PICK r \in Replicas :
            \A s \in Replicas : Executes(s, p)' => s = r /\ RunReports(s, p)'
      BY <1>8, <2>1 DEF Enters
    <2>3. obj'[p].phase = "Executing"
      BY <1>8 DEF Enters
    <2>4. QED
      BY <2>2, <2>3 DEF FirstRun, Reported, Armed, Terminal
  <1>9. CASE Continues(p)
    <2>1. PICK r \in Replicas : Executes(r, p) /\ (RunReports(r, p) => RunReports(r, p)')
      BY <1>9 DEF Continues
    <2>2. /\ RunReports(r, p)'
          /\ \A s \in Replicas : Executes(s, p)' => s = r
          /\ obj'[p].phase = "Executing"
      BY <1>4, <1>9, <2>1 DEF Continues, FirstRun
    <2>3. QED
      BY <2>2 DEF FirstRun, Reported, Armed, Terminal
  <1>10. CASE Closes(p)
    <2>1. PICK r \in Replicas :
            /\ Executes(r, p) /\ ~ Executes(r, p)'
            /\ obj'[p].results = rec[r].copy.results
            /\ obj'[p].phase = "RolledBack" => rec[r].copy.phase = "RolledBack"
      BY <1>10 DEF Closes
    <2>2. RunReports(r, p) /\ \A s \in Replicas : ~ Executes(s, p)'
      BY <1>4, <1>10, <2>1 DEF Closes, FirstRun
    <2>3. Accounts(p, obj[p].results)'
      BY <1>10, <2>1, <2>2 DEF RunReports, Accounts, Closes
    <2>4. obj'[p].phase = "RolledBack" => StoppedAtFailure(obj'[p].results)
      BY <2>1, <2>2 DEF RunReports
    <2>5. obj'[p].phase \notin Armed
      BY <1>10 DEF Closes, Terminal, Armed
    <2>6. QED
      BY <2>2, <2>3, <2>4, <2>5 DEF FirstRun
  <1>11. QED
    BY <1>2, <1>4, <1>6, <1>7, <1>8, <1>9, <1>10 DEF Moves

\* A run in its loop stands at an action of the plan.
LEMMA RunningStep ==
  ASSUME TypeOK, NEW r \in Replicas, Running(r)
  PROVE  rec[r].next \in Steps /\ rec[r].plan \in Plans /\ Executes(r, rec[r].plan)
  <1>1. rec[r].plan \in Plans /\ rec[r].next \in Nat \ {0}
    BY DEF TypeOK, Reconciles
  <1>2. /\ Len(spec[rec[r].plan].actions) <= MaxLen
        /\ Len(spec[rec[r].plan].actions) \in Nat
    BY <1>1, PlanAssumption, LenProperties DEF TypeOK
  <1>3. QED
    BY <1>1, <1>2, Bounds DEF Running, Steps, Executes

\* What an iteration at action n of plan p leaves of the report old it found: an
\* entry for n, and the earlier ones but for what a rollback relabels.
Lengthens(p, n, old, new) ==
  /\ Len(new) = n
  /\ \A i \in 1 .. n - 1 : new[i] = old[i] \/ {new[i], old[i]} \subseteq {"Success", "RolledBack"}
  /\ applied'[p][n] = One(new[n] \in {"Success", "RolledBack"})
  /\ attempts'[p][n] = One(new[n] # "Skipped" /\ HasTool(spec[p].actions[n]))
  /\ \A i \in Steps \ {n} :
       attempts'[p][i] = attempts[p][i] /\ applied'[p][i] = applied[p][i]

LEMMA LengthenedAccounts ==
  ASSUME TypeOK, NEW p \in Plans, NEW n \in Nat \ {0}, NEW old \in Seq(Results),
         Len(old) = n - 1, Accounts(p, old), spec' = spec, NEW r \in Replicas,
         rec'[r].copy.results \in Seq(Results),
         Lengthens(p, n, old, rec'[r].copy.results)
  PROVE  Accounts(p, rec[r].copy.results)'
  <1> DEFINE new == rec'[r].copy.results
  <1> SUFFICES ASSUME NEW i \in Steps
               PROVE  IF i \in DOMAIN new
                        THEN /\ applied'[p][i] = One(new[i] \in {"Success", "RolledBack"})
                             /\ attempts'[p][i] =
                                  One(new[i] # "Skipped" /\ HasTool(spec[p].actions[i]))
                        ELSE attempts'[p][i] = 0
    BY DEF Accounts
  <1>1. DOMAIN new = 1 .. n /\ DOMAIN old = 1 .. n - 1 /\ i \in Nat \ {0}
    BY Bounds, LenProperties DEF Steps, Lengthens
  <1> HIDE DEF new
  <1>2. CASE i = n
    BY <1>1, <1>2 DEF Lengthens, new
  <1>3. CASE i \in 1 .. n - 1
    <2>1. new[i] = old[i] \/ {new[i], old[i]} \subseteq {"Success", "RolledBack"}
      BY <1>3 DEF Lengthens, new
    <2>2. attempts'[p][i] = attempts[p][i] /\ applied'[p][i] = applied[p][i]
      BY <1>3 DEF Lengthens
    <2>3. /\ applied[p][i] = One(old[i] \in {"Success", "RolledBack"})
          /\ attempts[p][i] = One(old[i] # "Skipped" /\ HasTool(spec[p].actions[i]))
      BY <1>1, <1>3 DEF Accounts
    <2>4. i \in DOMAIN new
      BY <1>1, <1>3
    <2>5. QED
      BY <2>1, <2>2, <2>3, <2>4
  <1>4. CASE i > n
    <2>1. i \notin DOMAIN new /\ i \notin DOMAIN old
      BY <1>1, <1>4
    <2>2. attempts'[p][i] = attempts[p][i]
      BY <1>4 DEF Lengthens
    <2>3. QED
      BY <2>1, <2>2 DEF Accounts
  <1>5. QED
    BY <1>1, <1>2, <1>3, <1>4

\* One iteration keeps the report the run carries in step with what it did.
LEMMA LoopReports ==
  ASSUME TypeOK, FirstRunsReport, NEW r \in Replicas, NEW p \in Plans, rec[r].plan = p,
         SkipAction(r) \/ ActionSucceeds(r) \/ ActionFails(r)
  PROVE  RunReports(r, p) => RunReports(r, p)'
  <1> DEFINE n == rec[r].next
             copy == rec[r].copy
             old == copy.results
  <1>1. /\ Running(r) /\ p \in Plans /\ n \in Steps /\ n \in Nat \ {0}
        /\ rec[r] \in Reconciles /\ rec \in [Replicas -> Reconciles]
        /\ copy \in Objects /\ old \in Seq(Results)
        /\ attempts \in [Plans -> [Steps -> Nat]] /\ applied \in [Plans -> [Steps -> Nat]]
        /\ spec' = spec
    <2>1. Running(r) /\ spec' = spec
      BY DEF SkipAction, ActionSucceeds, ActionFails
    <2>2. n \in Steps /\ p \in Plans
      BY <2>1, RunningStep
    <2>3. QED
      BY <2>1, <2>2 DEF TypeOK, Reconciles, Objects
  <1> SUFFICES ASSUME RunReports(r, p) PROVE RunReports(r, p)'
    OBVIOUS
  <1>2. /\ Len(old) = n - 1 /\ Accounts(p, old) /\ copy.phase = "Executing"
        /\ SkipsAs(rec[r].cfg, p, old)
        /\ spec[p].rollback => \A i \in DOMAIN old : old[i] \in {"Success", "Skipped"}
        /\ DOMAIN old = 1 .. n - 1
    BY <1>1, LenProperties DEF RunReports, Running
  <1>0. \A i \in 1 .. n : i = n \/ i \in 1 .. n - 1
    BY <1>1
  <1>3. attempts[p][n] = 0 /\ applied[p][n] = 0
    <2>1. n \notin DOMAIN old
      BY <1>1, <1>2, LenProperties
    <2>2. attempts[p][n] = 0 /\ applied[p][n] <= attempts[p][n]
      BY <1>1, <1>2, <2>1 DEF Accounts, FirstRunsReport
    <2>3. QED
      BY <1>1, <2>2
  <1>4. ASSUME NEW ok, NEW new, Advance(r, ok, new)
        PROVE  /\ rec'[r].copy = new /\ rec'[r].next = n + 1 /\ rec'[r].plan = p
               /\ rec'[r].cfg = rec[r].cfg
    <2>1. rec'[r] = [rec[r] EXCEPT !.next = rec[r].next + 1, !.ok = ok, !.copy = new]
      BY <1>1, <1>4 DEF Advance
    <2>2. QED
      BY <1>1, <2>1 DEF Reconciles
  <1>5. ASSUME NEW result \in Results
        PROVE  LET new == Report(r, result).results
               IN  /\ new = Append(old, result) /\ Report(r, result).phase = "Executing"
                   /\ new \in Seq(Results) /\ Len(new) = n /\ DOMAIN new = 1 .. n
                   /\ new[n] = result /\ \A i \in 1 .. n - 1 : new[i] = old[i]
    <2>1. Report(r, result).results = Append(old, result) /\ Report(r, result).phase = "Executing"
      BY <1>1, <1>2 DEF Report, Objects
    <2>2. /\ Append(old, result) \in Seq(Results) /\ Len(Append(old, result)) = n
          /\ Append(old, result)[n] = result
          /\ \A i \in 1 .. n - 1 : Append(old, result)[i] = old[i]
      <3>1. Len(old) + 1 = n
        BY <1>1, <1>2
      <3>2. /\ Append(old, result) \in Seq(Results)
            /\ Len(Append(old, result)) = Len(old) + 1
            /\ \A i \in 1 .. Len(old) : Append(old, result)[i] = old[i]
            /\ Append(old, result)[Len(old) + 1] = result
        BY <1>1, <1>5, AppendProperties
      <3>3. QED
        BY <1>2, <3>1, <3>2
    <2>3. DOMAIN Append(old, result) = 1 .. n
      BY <2>2, LenProperties
    <2>4. QED
      BY <2>1, <2>2, <2>3
  <1>10. ASSUME NEW new, DOMAIN new = 1 .. n, new = rec'[r].copy.results,
                rec'[r].cfg = rec[r].cfg,
                \A i \in 1 .. n - 1 :
                  new[i] = old[i] \/ {new[i], old[i]} \subseteq {"Success", "RolledBack"},
                new[n] = "Skipped" <=> ~ ActionAllowed(r)
         PROVE  SkipsAs(rec[r].cfg, p, rec[r].copy.results)'
    <2> SUFFICES ASSUME NEW i \in 1 .. n
                 PROVE  new[i] = "Skipped" <=> ~ AllowedBy(rec[r].cfg, spec[p].actions[i])
      BY <1>1, <1>10 DEF SkipsAs
    <2>1. CASE i = n
      BY <1>10, <2>1 DEF ActionAllowed, CurrentAction
    <2>2. CASE i \in 1 .. n - 1
      BY <1>2, <1>10, <2>2 DEF SkipsAs
    <2>3. QED
      BY <1>0, <2>1, <2>2
  <1>6. CASE SkipAction(r)
    <2> DEFINE new == Report(r, "Skipped")
    <2>1. rec'[r].copy = new /\ rec'[r].next = n + 1 /\ rec'[r].cfg = rec[r].cfg
      BY <1>4, <1>6 DEF SkipAction
    <2>2. attempts' = attempts /\ applied' = applied
      BY <1>6 DEF SkipAction, history
    <2>3. /\ new.results \in Seq(Results) /\ new.phase = "Executing"
          /\ Len(new.results) = n /\ DOMAIN new.results = 1 .. n /\ new.results[n] = "Skipped"
          /\ \A i \in 1 .. n - 1 : new.results[i] = old[i]
      BY <1>5 DEF Results
    <2> HIDE DEF new
    <2>4. Lengthens(p, n, old, rec'[r].copy.results)
      BY <1>3, <2>1, <2>2, <2>3 DEF Lengthens, One
    <2>5. Accounts(p, rec[r].copy.results)'
      BY <1>1, <1>2, <2>1, <2>3, <2>4, LengthenedAccounts
    <2>6. spec[p].rollback => \A i \in 1 .. n : new.results[i] \in {"Success", "Skipped"}
      BY <1>0, <1>2, <2>3
    <2>7. SkipsAs(rec[r].cfg, p, rec[r].copy.results)'
      BY <1>6, <1>10, <2>1, <2>3 DEF SkipAction
    <2>8. QED
      BY <1>1, <2>1, <2>3, <2>5, <2>6, <2>7 DEF RunReports
  <1>7. CASE ActionSucceeds(r)
    <2> DEFINE new == Report(r, "Success")
    <2>1. rec'[r].copy = new /\ rec'[r].next = n + 1 /\ rec'[r].cfg = rec[r].cfg
      BY <1>4, <1>7 DEF ActionSucceeds
    <2>2. /\ attempts'[p][n] = 1 /\ applied'[p][n] = 1
          /\ \A i \in Steps \ {n} : attempts'[p][i] = attempts[p][i] /\ applied'[p][i] = applied[p][i]
      BY <1>1, <1>3, <1>7 DEF ActionSucceeds, Count
    <2>8. HasTool(spec[p].actions[n]) /\ ActionAllowed(r)
      BY <1>7 DEF ActionSucceeds, CurrentAction
    <2>3. /\ new.results \in Seq(Results) /\ new.phase = "Executing"
          /\ Len(new.results) = n /\ DOMAIN new.results = 1 .. n /\ new.results[n] = "Success"
          /\ \A i \in 1 .. n - 1 : new.results[i] = old[i]
      BY <1>5 DEF Results
    <2> HIDE DEF new
    <2>4. Lengthens(p, n, old, rec'[r].copy.results)
      BY <2>1, <2>2, <2>3, <2>8 DEF Lengthens, One
    <2>5. Accounts(p, rec[r].copy.results)'
      BY <1>1, <1>2, <2>1, <2>3, <2>4, LengthenedAccounts
    <2>6. spec[p].rollback => \A i \in 1 .. n : new.results[i] \in {"Success", "Skipped"}
      BY <1>0, <1>2, <2>3
    <2>7. SkipsAs(rec[r].cfg, p, rec[r].copy.results)'
      BY <1>10, <2>1, <2>3, <2>8
    <2>9. QED
      BY <1>1, <2>1, <2>3, <2>5, <2>6, <2>7 DEF RunReports
  <1>8. CASE ActionFails(r)
    <2> DEFINE failed == Report(r, "Failed")
               new == IF spec[p].rollback THEN RolledBack(r) ELSE failed
    <2>1. rec'[r].copy = new /\ rec'[r].next = n + 1 /\ rec'[r].cfg = rec[r].cfg
      BY <1>4, <1>8 DEF ActionFails
    <2>2. /\ attempts'[p][n] = One(HasTool(spec[p].actions[n])) /\ applied'[p][n] = 0
          /\ \A i \in Steps \ {n} : attempts'[p][i] = attempts[p][i] /\ applied'[p][i] = applied[p][i]
      BY <1>1, <1>3, <1>8 DEF ActionFails, Count, CurrentAction, One
    <2>3. /\ failed \in Objects /\ failed.phase = "Executing"
          /\ failed.results \in Seq(Results)
          /\ Len(failed.results) = n /\ DOMAIN failed.results = 1 .. n
          /\ failed.results[n] = "Failed"
          /\ \A i \in 1 .. n - 1 : failed.results[i] = old[i]
      BY <1>5, ReportType DEF Results
    <2>4. CASE spec[p].rollback
      <3> DEFINE rolled == RollBack(failed.results, n)
      <3>1. rolled \in Seq(Results)
        BY <2>3, RollBackType
      <3>2. new.results = rolled /\ new.phase = "RolledBack"
        <4>1. new = [failed EXCEPT !.results = rolled, !.phase = "RolledBack"]
          BY <2>4 DEF RolledBack
        <4>2. QED
          BY <2>3, <4>1 DEF Objects
      <3>3. /\ DOMAIN rolled = 1 .. n /\ rolled[n] = "Failed"
            /\ \A i \in 1 .. n - 1 :
                 rolled[i] = IF failed.results[i] = "Success" THEN "RolledBack"
                                                              ELSE failed.results[i]
        BY <1>1, <2>3 DEF RollBack
      <3>4. Len(rolled) = n
        BY <1>1, <3>1, <3>3, LenProperties
      <3>5. \A i \in 1 .. n - 1 :
              /\ rolled[i] \in {"RolledBack", "Skipped"}
              /\ rolled[i] = old[i] \/ {rolled[i], old[i]} \subseteq {"Success", "RolledBack"}
        BY <1>2, <2>3, <2>4, <3>3
      <3> HIDE DEF rolled, new
      <3>6. StoppedAtFailure(rolled)
        <4>1. rolled # <<>>
          BY <1>1, <3>4
        <4>2. QED
          BY <1>0, <3>3, <3>4, <3>5, <4>1 DEF StoppedAtFailure
      <3>7. Lengthens(p, n, old, rec'[r].copy.results)
        BY <2>1, <2>2, <3>2, <3>3, <3>4, <3>5 DEF Lengthens, One
      <3>8. Accounts(p, rec[r].copy.results)'
        BY <1>1, <1>2, <2>1, <3>1, <3>2, <3>7, LengthenedAccounts
      <3>9. SkipsAs(rec[r].cfg, p, rec[r].copy.results)'
        BY <1>8, <1>10, <2>1, <3>2, <3>3, <3>5 DEF ActionFails
      <3>10. QED
        BY <1>1, <2>1, <3>2, <3>4, <3>6, <3>8, <3>9 DEF RunReports
    <2>5. CASE ~ spec[p].rollback
      <3>1. rec'[r].copy = failed
        BY <2>1, <2>5
      <3> HIDE DEF new, failed
      <3>2. Lengthens(p, n, old, rec'[r].copy.results)
        BY <2>2, <2>3, <3>1 DEF Lengthens, One
      <3>3. Accounts(p, rec[r].copy.results)'
        BY <1>1, <1>2, <2>3, <3>1, <3>2, LengthenedAccounts
      <3>4. SkipsAs(rec[r].cfg, p, rec[r].copy.results)'
        BY <1>8, <1>10, <2>1, <2>3, <3>1 DEF ActionFails
      <3>5. QED
        BY <1>1, <2>1, <2>3, <2>5, <3>1, <3>3, <3>4 DEF RunReports
    <2>6. QED
      BY <2>4, <2>5
  <1>9. QED
    BY <1>6, <1>7, <1>8

\* A step of one replica that ends its reconcile adds no run.
LEMMA IdleStops ==
  ASSUME TypeOK, NEW r \in Replicas, Reconcile(r) \/ Crash(r), Idle(r), NEW p \in Plans
  PROVE  /\ ~ Executes(r, p)'
         /\ \A s \in Replicas : Executes(s, p)' => Executes(s, p) /\ rec'[s] = rec[s]
  <1>1. rec'[r].pc = "idle"
    BY DEF Idle, NoReconcile, TypeOK
  <1>2. \A s \in Replicas \ {r} : rec'[s] = rec[s]
    BY OthersStay
  <1>3. QED
    BY <1>1, <1>2 DEF Executes

\* Nothing that happened to plan p, nor to the report of a run of p, is quiet.
LEMMA StillQuiet ==
  ASSUME NEW p \in Plans, obj'[p] = obj[p], UNCHANGED <<spec, history>>,
         \A s \in Replicas : Executes(s, p)' =>
           Executes(s, p) /\ UNCHANGED <<rec[s].copy, rec[s].cfg, rec[s].next>>
  PROVE  Quiet(p)
  BY DEF Quiet, history

\* A run closes with the report it carries, or the update does not go through.
LEMMA LastUpdateCloses ==
  ASSUME TypeOK, NEW r \in Replicas, Reconcile(r), NEW new \in Objects,
         rec[r].pc \in {"run", "abort"}, LastUpdate(r, rec[r].plan, new),
         new.phase \in Terminal, new.results = rec[r].copy.results,
         new.phase = "RolledBack" => rec[r].copy.phase = "RolledBack",
         UNCHANGED <<spec, history>>, NEW p \in Plans
  PROVE  Quiet(p) \/ Closes(p)
  <1> DEFINE q == rec[r].plan
  <1>1. q \in Plans /\ obj \in [Plans -> Objects]
    BY DEF TypeOK, Reconciles
  <1>2. /\ ~ Executes(r, p)'
        /\ \A s \in Replicas : Executes(s, p)' => Executes(s, p) /\ rec'[s] = rec[s]
    BY IdleStops DEF LastUpdate
  <1>3. CASE obj'[p] = obj[p]
    BY <1>2, <1>3, StillQuiet
  <1>4. CASE obj'[p] # obj[p]
    <2>1. p = q /\ obj'[p] = Bump(new)
      BY <1>1, <1>4 DEF LastUpdate
    <2>2. Bump(new).phase = new.phase /\ Bump(new).results = new.results
      BY DEF Bump, Objects
    <2>3. Executes(r, p)
      BY <2>1 DEF Executes
    <2>4. QED
      BY <1>2, <2>1, <2>2, <2>3 DEF Closes, history
  <1>5. QED
    BY <1>3, <1>4

\* The update to Executing finds an armed plan nothing was done for yet.
LEMMA StartEnters ==
  ASSUME IInv, NEW r \in Replicas, StartExecution(r), NEW p \in Plans, armed[p] = 1
  PROVE  Quiet(p) \/ Enters(p)
  <1> DEFINE q == rec[r].plan
             copy == rec[r].copy
             new == Bump([copy EXCEPT !.phase = "Executing"])
  <1>1. /\ TypeOK /\ q \in Plans /\ rec[r] \in Reconciles /\ copy \in Objects
        /\ obj \in [Plans -> Objects] /\ rec \in [Replicas -> Reconciles]
        /\ started \in [Plans -> Nat] /\ attempts \in [Plans -> [Steps -> Nat]]
        /\ rec[r].pc = "start" /\ rec[r].next = 1
        /\ UNCHANGED <<spec, armed, attempts, applied>>
    BY DEF IInv, TypeOK, Reconciles, FirstRunsReport, StartExecution
  <1>2. CopyAgrees(copy, q) /\ copy.phase \in Armed
    BY <1>1 DEF IInv, VersionsAgree, ReconcileAgrees
  <1>3. new.phase = "Executing" /\ new.results = copy.results
    BY <1>1 DEF Bump, Objects
  <1>4. \A s \in Replicas \ {r} : rec'[s] = rec[s]
    BY <1>1, OthersStay DEF Reconcile
  <1>5. CASE UNCHANGED <<obj, started>> /\ Idle(r)
    <2>1. \A s \in Replicas : Executes(s, p)' => Executes(s, p) /\ rec'[s] = rec[s]
      BY <1>1, <1>5, IdleStops DEF Reconcile
    <2>2. QED
      BY <1>1, <1>5, <2>1 DEF Quiet
  <1>6. CASE /\ Accepts(q, copy) /\ obj' = [obj EXCEPT ![q] = new] /\ Idle(r)
             /\ started' = started
    <2>1. \A s \in Replicas : Executes(s, p)' => Executes(s, p) /\ rec'[s] = rec[s]
      BY <1>1, <1>6, IdleStops DEF Reconcile
    <2>2. CASE p = q
      <3>1. obj[p].phase \in Armed /\ obj'[p].phase = "Executing"
        BY <1>1, <1>2, <1>3, <1>6, <2>2 DEF Accepts, CopyAgrees, Fresh
      <3>2. QED
        BY <1>1, <2>1, <3>1 DEF Enters
    <2>3. CASE p # q
      BY <1>1, <1>6, <2>1, <2>3 DEF Quiet
    <2>4. QED
      BY <2>2, <2>3
  <1>7. CASE /\ Accepts(q, copy) /\ obj' = [obj EXCEPT ![q] = new]
             /\ rec' = [rec EXCEPT ![r] = [rec[r] EXCEPT !.pc = "build", !.copy = new]]
             /\ started' = [started EXCEPT ![q] = @ + 1]
    <2>1. /\ rec'[r].pc = "build" /\ rec'[r].plan = q
          /\ rec'[r].copy = new /\ rec'[r].next = 1
      BY <1>1, <1>7 DEF Reconciles
    <2>2. CASE p = q
      <3>1. obj[p].phase \in Armed /\ obj[p] = copy /\ obj'[p].phase = "Executing"
        BY <1>1, <1>2, <1>3, <1>7, <2>2 DEF Accepts, CopyAgrees, Fresh
      <3>2. new.results = <<>>
        BY <1>3, <3>1 DEF IInv, FirstRunsReport, FirstRun
      <3>3. started[p] = 0
        <4>1. started[p] + One(obj[p].phase \in Armed) + One(rejected[p]) <= armed[p]
          BY DEF IInv, ArmingSpentOnce
        <4>2. One(obj[p].phase \in Armed) = 1 /\ One(rejected[p]) \in {0, 1}
          BY <3>1 DEF One
        <4>3. started[p] \in Nat
          BY <1>1, <2>2
        <4>4. QED
          BY <4>1, <4>2, <4>3
      <3>4. \A i \in Steps : attempts[p][i] = 0
        <4>1. \A i \in Steps : attempts[p][i] + Cardinality(Ahead(p, i)) <= 0
          BY <3>3 DEF IInv, AttemptsWithinRuns
        <4>2. \A i \in Steps : attempts[p][i] \in Nat /\ Cardinality(Ahead(p, i)) \in Nat
          BY <1>1, AheadFinite
        <4>3. QED
          BY <4>1, <4>2
      <3> HIDE DEF new
      <3>5. RunReports(r, p)'
        BY <1>1, <1>3, <2>1, <3>2, <3>4 DEF RunReports, Accounts, SkipsAs
      <3>6. QED
        BY <1>1, <1>4, <3>1, <3>5 DEF Enters, Executes
    <2>3. CASE p # q
      BY <1>1, <1>4, <1>7, <2>1, <2>3 DEF Quiet, Executes
    <2>4. QED
      BY <2>2, <2>3
  <1>8. QED
    BY <1>5, <1>6, <1>7 DEF StartExecution

LEMMA ReconcileMoves ==
  ASSUME IInv, NEW r \in Replicas, Reconcile(r), NEW p \in Plans, armed[p] = 1
  PROVE  Moves(p)
  <1> DEFINE q == rec[r].plan
             copy == rec[r].copy
  <1>1. /\ TypeOK /\ q \in Plans /\ rec[r] \in Reconciles /\ copy \in Objects
        /\ obj \in [Plans -> Objects] /\ rec \in [Replicas -> Reconciles]
    BY DEF IInv, TypeOK, Reconciles
  <1>2. ReconcileAgrees(r)
    BY DEF IInv, VersionsAgree
  <1>3. \A s \in Replicas \ {r} : rec'[s] = rec[s]
    BY <1>1, OthersStay
  <1>4. CASE \E x \in Plans : Begin(r, x)
    <2>1. rec'[r].pc \in {"unfinalize", "dry-run", "start"}
      BY <1>1, <1>4, BeginTakes DEF Take
    <2>2. \A s \in Replicas : Executes(s, p)' => Executes(s, p) /\ rec'[s] = rec[s]
      BY <1>3, <2>1 DEF Executes
    <2>3. UNCHANGED <<obj, spec, history>>
      BY <1>4 DEF Begin
    <2>4. QED
      BY <2>2, <2>3, StillQuiet DEF Moves
  <1>5. CASE Unfinalize(r)
    <2>1. \A s \in Replicas : Executes(s, p)' => Executes(s, p) /\ rec'[s] = rec[s]
      BY <1>1, <1>5, IdleStops DEF Unfinalize
    <2>2. UNCHANGED <<spec, history>>
      BY <1>5 DEF Unfinalize
    <2>3. obj'[p].phase = obj[p].phase /\ obj'[p].results = obj[p].results
      <3> DEFINE new == Unfinalized(copy)
      <3>1. obj' = obj \/ (Accepts(q, copy) /\ obj' = [obj EXCEPT ![q] = Bump(new)])
        BY <1>5 DEF Unfinalize
      <3>2. CopyAgrees(copy, q)
        BY <1>2, <1>5 DEF Unfinalize, ReconcileAgrees
      <3>3. Bump(new).phase = copy.phase /\ Bump(new).results = copy.results
        BY <1>1 DEF Bump, Unfinalized, Objects
      <3>4. QED
        BY <1>1, <3>1, <3>2, <3>3 DEF Accepts, CopyAgrees, Fresh
    <2>4. QED
      BY <2>1, <2>2, <2>3 DEF Quiet, Moves, history
  <1>6. CASE DryRun(r)
    <2> DEFINE skipped == [i \in 1 .. Len(spec[q].actions) |-> "Skipped"]
               new == [copy EXCEPT !.phase = "Completed", !.results = @ \o skipped]
    <2>1. \A s \in Replicas : Executes(s, p)' => Executes(s, p) /\ rec'[s] = rec[s]
      BY <1>1, <1>6, IdleStops DEF DryRun, LastUpdate
    <2>2. UNCHANGED <<spec, history>>
      BY <1>6 DEF DryRun
    <2>3. CASE obj'[p] = obj[p]
      BY <2>1, <2>2, <2>3, StillQuiet DEF Moves
    <2>4. CASE obj'[p] # obj[p]
      <3>1. p = q /\ Accepts(q, copy) /\ obj'[p] = Bump(new)
        BY <1>1, <1>6, <2>4 DEF DryRun, LastUpdate
      <3>2. obj[p].phase \in Armed
        BY <1>2, <1>6, <3>1 DEF DryRun, ReconcileAgrees, CopyAgrees, Fresh, Accepts
      <3>3. Bump(new).phase = "Completed"
        BY <1>1 DEF Bump, Objects
      <3>4. QED
        BY <2>1, <2>2, <3>1, <3>2, <3>3 DEF Settles, Moves, history
    <2>5. QED
      BY <2>3, <2>4
  <1>7. CASE BuildTools(r)
    <2>1. rec[r].pc = "build" /\ UNCHANGED <<obj, spec, history>>
      BY <1>7 DEF BuildTools
    <2>2. \E pc : rec' = [rec EXCEPT ![r] = [rec[r] EXCEPT !.pc = pc]]
      BY <1>7 DEF BuildTools
    <2>3. rec'[r].plan = q /\ UNCHANGED <<rec[r].copy, rec[r].cfg, rec[r].next>>
      BY <1>1, <2>2 DEF Reconciles
    <2>4. \A s \in Replicas : Executes(s, p)' =>
            Executes(s, p) /\ UNCHANGED <<rec[s].copy, rec[s].cfg, rec[s].next>>
      BY <1>3, <2>1, <2>3 DEF Executes
    <2>5. QED
      BY <2>1, <2>4, StillQuiet DEF Moves
  <1>8. CASE SkipAction(r) \/ ActionSucceeds(r) \/ ActionFails(r)
    <2>1. /\ rec[r].pc = "run" /\ UNCHANGED <<obj, spec, armed, started>>
          /\ attempts' = attempts \/ attempts' = Count(attempts, r)
          /\ applied' = applied \/ applied' = Count(applied, r)
      BY <1>8 DEF SkipAction, ActionSucceeds, ActionFails, Running, history
    <2>2. PICK ok, new : Advance(r, ok, new)
      BY <1>1, <1>8, LoopAdvances
    <2>3. rec'[r].plan = q /\ rec'[r].cfg = rec[r].cfg
      BY <1>1, <2>2 DEF Advance, Reconciles
    <2>4. CASE p = q
      <3>1. Executes(r, p) /\ (RunReports(r, p) => RunReports(r, p)')
        BY <1>1, <1>8, <2>1, <2>4, LoopReports DEF Executes, IInv
      <3>2. \A s \in Replicas : Executes(s, p)' => Executes(s, p)
        BY <1>3, <3>1 DEF Executes
      <3>3. QED
        BY <2>1, <2>3, <3>1, <3>2 DEF Continues, Moves
    <2>5. CASE p # q
      <3>1. attempts'[p] = attempts[p] /\ applied'[p] = applied[p]
        BY <1>1, <2>1, <2>5 DEF Count, TypeOK
      <3>2. \A s \in Replicas : Executes(s, p)' => Executes(s, p) /\ rec'[s] = rec[s]
        BY <1>3, <2>3, <2>5 DEF Executes
      <3>3. QED
        BY <2>1, <3>1, <3>2 DEF Quiet, Moves
    <2>6. QED
      BY <2>4, <2>5
  <1>9. CASE AbortExecution(r)
    <2> DEFINE new == [copy EXCEPT !.phase = "Failed"]
    <2>1. new \in Objects /\ new.phase = "Failed" /\ new.results = copy.results
      BY <1>1 DEF Objects, Phases
    <2>2. /\ rec[r].pc = "abort" /\ LastUpdate(r, q, new) /\ UNCHANGED <<spec, history>>
      BY <1>9 DEF AbortExecution
    <2> HIDE DEF new
    <2>3. QED
      BY <1>1, <2>1, <2>2, LastUpdateCloses DEF Terminal, Moves
  <1>10. CASE Finish(r)
    <2> DEFINE new == [copy EXCEPT !.phase = FinalPhase(r)]
    <2>1. /\ new \in Objects /\ new.phase \in Terminal /\ new.results = copy.results
          /\ new.phase = "RolledBack" => copy.phase = "RolledBack"
      BY <1>1 DEF Objects, Phases, FinalPhase, Terminal
    <2>2. /\ rec[r].pc = "run" /\ LastUpdate(r, q, new) /\ UNCHANGED <<spec, history>>
      BY <1>10 DEF Finish
    <2> HIDE DEF new
    <2>3. QED
      BY <1>1, <2>1, <2>2, LastUpdateCloses DEF Moves
  <1>11. QED
    BY <1>4, <1>5, <1>6, <1>7, <1>8, <1>9, <1>10, StartEnters DEF Reconcile, Moves

\* The dashboard, the outside world, the informers and crashes.
LEMMA DecideMoves ==
  ASSUME IInv, NEW u \in Users, Decide(u), NEW p \in Plans
  PROVE  Moves(p)
  <1> DEFINE q == http[u].plan
             copy == http[u].copy
             new == [copy EXCEPT
                       !.phase = IF http[u].verb = "approve" THEN "Approved" ELSE "Failed"]
  <1>1. /\ TypeOK /\ q \in Plans /\ copy \in Objects /\ obj \in [Plans -> Objects]
        /\ UNCHANGED <<rec, spec, armed, started, attempts, applied>>
    BY DEF IInv, TypeOK, Requests, Decide
  <1>2. CopyAgrees(copy, q) /\ copy.phase = "Pending"
    BY DEF Decide, IInv, VersionsAgree, RequestAgrees
  <1>3. \A s \in Replicas : Executes(s, p)' => Executes(s, p) /\ rec'[s] = rec[s]
    BY <1>1 DEF Executes
  <1>4. CASE obj'[p] = obj[p]
    BY <1>1, <1>3, <1>4 DEF Quiet, Moves
  <1>5. CASE obj'[p] # obj[p]
    <2>1. p = q /\ Accepts(q, copy) /\ obj'[p] = Bump(new)
      BY <1>1, <1>5 DEF Decide
    <2>2. obj[p].phase = "Pending"
      BY <1>2, <2>1 DEF Accepts, CopyAgrees, Fresh
    <2>3. Bump(new).phase \in {"Approved", "Failed"}
      BY <1>1 DEF Bump, Objects
    <2>4. QED
      BY <1>1, <1>3, <2>1, <2>2, <2>3 DEF Settles, Moves, Armed
  <1>6. QED
    BY <1>4, <1>5

LEMMA EnvironmentMoves ==
  ASSUME IInv, NEW p \in Plans,
         \/ \E r \in Replicas : Crash(r) \/ \E q \in Plans : Sync(r, q)
         \/ \E u \in Users, q \in Plans, verb \in {"approve", "reject"} : Request(u, q, verb)
         \/ \E q \in Plans : MarkPending(q) \/ Touch(q) \/ Delete(q) \/ Rearm(q)
         \/ UNCHANGED plans
  PROVE  Moves(p)
  <1>1. /\ TypeOK /\ obj \in [Plans -> Objects] /\ armed \in [Plans -> Nat]
    BY DEF IInv, TypeOK
  <1>2. ASSUME NEW r \in Replicas, Crash(r) PROVE Moves(p)
    <2>1. \A s \in Replicas : Executes(s, p)' => Executes(s, p) /\ rec'[s] = rec[s]
      BY <1>1, <1>2, IdleStops DEF Crash
    <2>2. QED
      BY <1>2, <2>1, StillQuiet DEF Crash, Moves
  <1>3. CASE \/ \E r \in Replicas, q \in Plans : Sync(r, q)
             \/ \E u \in Users, q \in Plans, verb \in {"approve", "reject"} : Request(u, q, verb)
             \/ UNCHANGED plans
    <2>1. UNCHANGED <<obj, spec, rec, history>>
      BY <1>3 DEF Sync, Request, plans
    <2>2. QED
      BY <2>1, StillQuiet DEF Moves, Executes
  <1>4. ASSUME NEW q \in Plans, MarkPending(q) \/ Touch(q) \/ Delete(q) PROVE Moves(p)
    <2>1. UNCHANGED <<spec, rec, history>>
      BY <1>4 DEF MarkPending, Touch, Delete
    <2>2. /\ obj'[p].results = obj[p].results
          /\ obj'[p].phase = obj[p].phase \/ {obj'[p].phase, obj[p].phase} \subseteq Armed
      <3>1. obj[p] \in Objects /\ obj[q] \in Objects
        BY <1>1
      <3>2. CASE MarkPending(q)
        BY <1>1, <3>1, <3>2 DEF MarkPending, Bump, Objects, Armed
      <3>3. CASE Touch(q)
        BY <1>1, <3>1, <3>3 DEF Touch, Bump, Objects
      <3>4. CASE Delete(q)
        BY <1>1, <3>1, <3>4 DEF Delete, Bump, Objects
      <3>5. QED
        BY <1>4, <3>2, <3>3, <3>4
    <2>3. QED
      BY <2>1, <2>2 DEF Quiet, Moves, Executes, history
  <1>5. ASSUME NEW q \in Plans, Rearm(q) PROVE Moves(p)
    <2>1. UNCHANGED <<spec, rec, started, attempts, applied>>
      BY <1>5 DEF Rearm
    <2>2. CASE p = q
      <3>1. armed'[p] = armed[p] + 1
        BY <1>1, <1>5, <2>2 DEF Rearm
      <3>2. QED
        BY <3>1 DEF Moves
    <2>3. CASE p # q
      <3>1. armed'[p] = armed[p] /\ obj'[p] = obj[p]
        BY <1>1, <1>5, <2>3 DEF Rearm
      <3>2. QED
        BY <2>1, <3>1 DEF Quiet, Moves, Executes
    <2>4. QED
      BY <2>2, <2>3
  <1>6. QED
    BY <1>2, <1>3, <1>4, <1>5

\* A tool call is counted before its success is.
LEMMA NextApplied ==
  ASSUME IInv, [Next]_vars, NEW p \in Plans, NEW i \in Steps
  PROVE  applied'[p][i] <= attempts'[p][i]
  <1>1. /\ applied[p][i] <= attempts[p][i] /\ TypeOK
        /\ attempts \in [Plans -> [Steps -> Nat]] /\ applied \in [Plans -> [Steps -> Nat]]
    BY DEF IInv, FirstRunsReport, TypeOK
  <1>2. ASSUME NEW r \in Replicas,
               attempts' = Count(attempts, r) \/ UNCHANGED <<attempts, applied>>,
               applied' = Count(applied, r) \/ applied' = applied
        PROVE  applied'[p][i] <= attempts'[p][i]
    <2>1. rec[r].plan \in Plans
      BY <1>1 DEF TypeOK, Reconciles
    <2>2. CASE p = rec[r].plan /\ i = rec[r].next
      <3>1. /\ Count(attempts, r)[p][i] = attempts[p][i] + 1
            /\ Count(applied, r)[p][i] = applied[p][i] + 1
        BY <1>1, <2>1, <2>2 DEF Count
      <3>2. attempts[p][i] \in Nat /\ applied[p][i] \in Nat
        BY <1>1
      <3>3. QED
        BY <1>1, <1>2, <3>1, <3>2
    <2>3. CASE ~ (p = rec[r].plan /\ i = rec[r].next)
      <3>1. /\ Count(attempts, r)[p][i] = attempts[p][i]
            /\ Count(applied, r)[p][i] = applied[p][i]
        BY <1>1, <2>1, <2>3 DEF Count
      <3>2. QED
        BY <1>1, <1>2, <3>1
    <2>4. QED
      BY <2>2, <2>3
  <1>3. CASE \E r \in Replicas : ActionSucceeds(r) \/ ActionFails(r)
    BY <1>2, <1>3 DEF ActionSucceeds, ActionFails
  <1>4. ASSUME ~ \E r \in Replicas : ActionSucceeds(r) \/ ActionFails(r)
        PROVE  UNCHANGED <<attempts, applied>>
    <2>1. CASE \E r \in Replicas : Reconcile(r)
      BY <1>4, <2>1 DEF Reconcile, Begin, Unfinalize, DryRun, StartExecution, BuildTools,
        AbortExecution, SkipAction, Finish, history
    <2>2. CASE UNCHANGED plans \/ \E r \in Replicas : Crash(r) \/ \E q \in Plans : Sync(r, q)
      BY <2>2 DEF Crash, Sync, history, plans
    <2>3. CASE \E u \in Users : Decide(u) \/
                 (\E q \in Plans, verb \in {"approve", "reject"} : Request(u, q, verb))
      BY <2>3 DEF Decide, Request, history
    <2>4. CASE \E q \in Plans : MarkPending(q) \/ Touch(q) \/ Delete(q) \/ Rearm(q)
      BY <2>4 DEF MarkPending, Touch, Delete, Rearm, history
    <2>5. QED
      BY <2>1, <2>2, <2>3, <2>4, StepCases
  <1>5. QED
    BY <1>1, <1>3, <1>4

\* Whatever takes a plan up takes it up at its first action.
LEMMA NextFirst ==
  ASSUME IInv, [Next]_vars, NEW r \in Replicas, rec'[r].pc \notin {"build", "run", "abort"}
  PROVE  rec'[r].next = 1
  <1>1. /\ rec[r].pc \notin {"build", "run", "abort"} => rec[r].next = 1
        /\ TypeOK /\ rec \in [Replicas -> Reconciles] /\ rec[r] \in Reconciles
    BY DEF IInv, FirstRunsReport, TypeOK
  <1>2. CASE rec'[r] = rec[r]
    BY <1>1, <1>2
  <1>3. CASE Idle(r)
    BY <1>1, <1>3 DEF Idle, NoReconcile
  <1>4. CASE Reconcile(r)
    <2>1. CASE \E x \in Plans : Begin(r, x)
      BY <1>1, <2>1, BeginTakes DEF Take
    <2>2. CASE Unfinalize(r) \/ DryRun(r) \/ AbortExecution(r) \/ Finish(r)
      BY <1>3, <2>2 DEF Unfinalize, DryRun, AbortExecution, Finish, LastUpdate
    <2>3. CASE StartExecution(r)
      <3>1. ASSUME NEW new,
                   rec' = [rec EXCEPT ![r] = [rec[r] EXCEPT !.pc = "build", !.copy = new]]
            PROVE  FALSE
        BY <1>1, <3>1 DEF Reconciles
      <3>2. QED
        BY <1>3, <2>3, <3>1 DEF StartExecution
    <2>4. CASE BuildTools(r)
      BY <1>1, <2>4 DEF BuildTools, Reconciles
    <2>5. CASE SkipAction(r) \/ ActionSucceeds(r) \/ ActionFails(r)
      <3>1. PICK ok, new : Advance(r, ok, new)
        BY <1>1, <2>5, LoopAdvances
      <3>2. rec[r].pc = "run"
        BY <2>5 DEF SkipAction, ActionSucceeds, ActionFails, Running
      <3>3. rec'[r].pc = "run"
        BY <1>1, <3>1, <3>2 DEF Advance, Reconciles
      <3>4. QED
        BY <3>3
    <2>6. QED
      BY <1>4, <2>1, <2>2, <2>3, <2>4, <2>5 DEF Reconcile
  <1>5. rec'[r] = rec[r] \/ Reconcile(r) \/ Idle(r)
    BY <1>1, WhoMovesReconcile DEF Crash
  <1>6. QED
    BY <1>2, <1>3, <1>4, <1>5

LEMMA NextReports ==
  ASSUME IInv, TypeOK', [Next]_vars
  PROVE  FirstRunsReport'
  <1>1. ASSUME NEW p \in Plans PROVE armed'[p] >= 1 /\ (armed'[p] = 1 => FirstRun(p)')
    <2>1. /\ TypeOK /\ ArmingSpentOnce /\ VersionsAgree
          /\ armed[p] >= 1 /\ (armed[p] = 1 => FirstRun(p))
          /\ armed[p] \in Nat
      BY DEF IInv, FirstRunsReport, TypeOK
    <2>2. CASE armed[p] = 1
      <3>1. Moves(p)
        BY <2>2, ReconcileMoves, DecideMoves, EnvironmentMoves, StepCases
      <3>2. QED
        BY <2>1, <3>1, MovesKeep
    <2>3. CASE armed[p] # 1
      <3>1. armed'[p] = armed[p] \/ armed'[p] = armed[p] + 1
        BY <2>1, NextSpends DEF Spends
      <3>2. QED
        BY <2>1, <2>3, <3>1
    <2>4. QED
      BY <2>2, <2>3
  <1>2. QED
    BY <1>1, NextApplied, NextFirst DEF FirstRunsReport

-----------------------------------------------------------------------------
(* Only a fault strands a plan.                                             *)

\* Faults are never taken back.
LEMMA NextFaults ==
  ASSUME TypeOK, [Next]_vars, faults' = 0
  PROVE  faults = 0
  <1>1. faults \in Nat
    BY Bounds DEF TypeOK
  <1>2. faults' = faults \/ faults' = faults + 1
    <2> DEFINE crashed == \E r \in Replicas : Crash(r) \/ \E q \in Plans : Sync(r, q)
               asked == \E u \in Users, q \in Plans, verb \in {"approve", "reject"} :
                          Request(u, q, verb)
    <2>1. CASE \E r \in Replicas : Reconcile(r)
      BY <2>1 DEF Reconcile, Begin, Unfinalize, DryRun, StartExecution, BuildTools,
        AbortExecution, SkipAction, ActionSucceeds, ActionFails, Finish, LastUpdate
    <2>2. CASE crashed \/ UNCHANGED plans
      BY <2>2 DEF Crash, Sync, plans
    <2>3. CASE asked \/ \E u \in Users : Decide(u)
      BY <2>3 DEF Decide, Request
    <2>4. CASE \E q \in Plans : MarkPending(q) \/ Touch(q) \/ Delete(q) \/ Rearm(q)
      BY <2>4 DEF MarkPending, Touch, Delete, Rearm
    <2>5. QED
      BY <2>1, <2>2, <2>3, <2>4, StepCases
  <1>3. QED
    BY <1>1, <1>2

\* How a step without a fault writes plan p: the update to Executing of a run it
\* starts, or a phase that is not Executing, over one that is not or to close a run.
Writes(p) ==
  \/ obj'[p] = obj[p]
  \/ obj'[p].phase # "Executing" /\ obj'[p].deleting = obj[p].deleting
  \/ \E r \in Replicas :
       /\ StartExecution(r) /\ rec'[r].pc = "build" /\ rec'[r].plan = p
       /\ rec'[r].copy = obj'[p] /\ ~ obj'[p].deleting

LEMMA ReconcileWrites ==
  ASSUME IInv, faults = 0, faults' = 0, NEW r \in Replicas, Reconcile(r), NEW p \in Plans
  PROVE  Writes(p)
  <1> DEFINE q == rec[r].plan
             copy == rec[r].copy
  <1>1. /\ TypeOK /\ q \in Plans /\ rec[r] \in Reconciles /\ copy \in Objects
        /\ obj \in [Plans -> Objects] /\ rec \in [Replicas -> Reconciles]
    BY DEF IInv, TypeOK, Reconciles
  <1>2. ~ copy.deleting /\ rec[r].pc # "unfinalize" /\ ~ obj[p].deleting
    BY DEF IInv, NothingDeleted
  <1>3. CASE (\E x \in Plans : Begin(r, x)) \/ BuildTools(r)
             \/ SkipAction(r) \/ ActionSucceeds(r) \/ ActionFails(r)
    BY <1>3 DEF Begin, BuildTools, SkipAction, ActionSucceeds, ActionFails, Writes
  <1>4. CASE Unfinalize(r)
    BY <1>2, <1>4 DEF Unfinalize
  <1>5. ASSUME NEW new \in Objects, LastUpdate(r, q, new),
               ~ new.deleting, new.phase # "Executing"
        PROVE  Writes(p)
    <2>1. obj' = obj \/ obj' = [obj EXCEPT ![q] = Bump(new)]
      BY <1>5 DEF LastUpdate
    <2>2. Bump(new).phase = new.phase /\ Bump(new).deleting = new.deleting
      BY <1>5, BumpObject
    <2>3. new.deleting \in BOOLEAN /\ obj[p].deleting \in BOOLEAN
      BY <1>1 DEF Objects
    <2>4. QED
      BY <1>1, <1>2, <1>5, <2>1, <2>2, <2>3 DEF Writes
  <1>6. CASE DryRun(r)
    <2> DEFINE skipped == [i \in 1 .. Len(spec[q].actions) |-> "Skipped"]
               new == [copy EXCEPT !.phase = "Completed", !.results = @ \o skipped]
    <2>1. obj' = obj \/ obj' = [obj EXCEPT ![q] = Bump(new)]
      BY <1>6 DEF DryRun, LastUpdate
    <2>2. Bump(new).phase = "Completed" /\ Bump(new).deleting = copy.deleting
      BY <1>1 DEF Bump, Objects
    <2>3. copy.deleting \in BOOLEAN /\ obj[p].deleting \in BOOLEAN
      BY <1>1 DEF Objects
    <2>4. QED
      BY <1>1, <1>2, <2>1, <2>2, <2>3 DEF Writes
  <1>7. CASE StartExecution(r)
    <2> DEFINE new == Bump([copy EXCEPT !.phase = "Executing"])
    <2>1. \/ obj' = obj
          \/ /\ obj' = [obj EXCEPT ![q] = new]
             /\ rec' = [rec EXCEPT ![r] = [rec[r] EXCEPT !.pc = "build", !.copy = new]]
      BY <1>7 DEF StartExecution
    <2>2. ~ new.deleting
      BY <1>1, <1>2 DEF Bump, Objects
    <2>3. CASE obj'[p] = obj[p]
      BY <2>3 DEF Writes
    <2>4. CASE obj'[p] # obj[p]
      <3>1. p = q /\ obj'[p] = new
        BY <1>1, <2>1, <2>4
      <3>2. rec' = [rec EXCEPT ![r] = [rec[r] EXCEPT !.pc = "build", !.copy = new]]
        BY <2>1, <2>4
      <3>3. rec'[r].pc = "build" /\ rec'[r].plan = q /\ rec'[r].copy = new
        BY <1>1, <3>2 DEF Reconciles
      <3>4. QED
        BY <1>7, <2>2, <3>1, <3>3 DEF Writes
    <2>5. QED
      BY <2>3, <2>4
  <1>8. CASE AbortExecution(r)
    <2> DEFINE new == [copy EXCEPT !.phase = "Failed"]
    <2>1. new \in Objects /\ new.phase = "Failed" /\ new.deleting = copy.deleting
      BY <1>1 DEF Objects, Phases
    <2> HIDE DEF new
    <2>2. LastUpdate(r, q, new)
      BY <1>8 DEF AbortExecution, new
    <2>3. QED
      BY <1>2, <1>5, <2>1, <2>2
  <1>9. CASE Finish(r)
    <2> DEFINE new == [copy EXCEPT !.phase = FinalPhase(r)]
    <2>1. new \in Objects /\ new.phase # "Executing" /\ new.deleting = copy.deleting
      BY <1>1 DEF Objects, Phases, FinalPhase
    <2> HIDE DEF new
    <2>2. LastUpdate(r, q, new)
      BY <1>9 DEF Finish, new
    <2>3. QED
      BY <1>2, <1>5, <2>1, <2>2
  <1>10. QED
    BY <1>3, <1>4, <1>6, <1>7, <1>8, <1>9 DEF Reconcile

LEMMA NextWrites ==
  ASSUME IInv, [Next]_vars, faults = 0, faults' = 0, NEW p \in Plans
  PROVE  Writes(p)
  <1>1. TypeOK /\ obj \in [Plans -> Objects]
    BY DEF IInv, TypeOK
  <1>2. CASE \E r \in Replicas : Crash(r) \/ \E q \in Plans : Sync(r, q)
    BY <1>2 DEF Crash, Sync, Writes
  <1>3. CASE \E u \in Users, q \in Plans, verb \in {"approve", "reject"} : Request(u, q, verb)
    BY <1>3 DEF Request, Writes
  <1>4. ASSUME NEW u \in Users, Decide(u) PROVE Writes(p)
    <2> DEFINE q == http[u].plan
               copy == http[u].copy
               new == [copy EXCEPT
                         !.phase = IF http[u].verb = "approve" THEN "Approved" ELSE "Failed"]
    <2>1. q \in Plans /\ copy \in Objects
      BY <1>1 DEF TypeOK, Requests
    <2>2. CopyAgrees(copy, q)
      BY <1>4 DEF Decide, IInv, VersionsAgree, RequestAgrees
    <2>3. obj' = obj \/ (Accepts(q, copy) /\ obj' = [obj EXCEPT ![q] = Bump(new)])
      BY <1>4 DEF Decide
    <2>4. Bump(new).phase # "Executing" /\ Bump(new).deleting = copy.deleting
      BY <2>1 DEF Bump, Objects
    <2>5. QED
      BY <1>1, <2>1, <2>2, <2>3, <2>4 DEF Writes, Accepts, CopyAgrees, Fresh
  <1>5. ASSUME NEW q \in Plans, MarkPending(q) \/ Touch(q) \/ Delete(q) \/ Rearm(q)
        PROVE  Writes(p)
    <2>1. obj[q] \in Objects
      BY <1>1
    <2>2. ~ Touch(q) /\ ~ Delete(q)
      BY DEF Touch, Delete
    <2>3. CASE MarkPending(q)
      BY <1>1, <2>1, <2>3 DEF MarkPending, Writes, Bump, Objects
    <2>4. CASE Rearm(q)
      BY <1>1, <2>1, <2>4 DEF Rearm, Writes, Bump, Objects
    <2>5. QED
      BY <1>5, <2>2, <2>3, <2>4
  <1>6. CASE UNCHANGED plans
    BY <1>6 DEF plans, Writes
  <1>7. QED
    BY <1>2, <1>3, <1>4, <1>5, <1>6, ReconcileWrites, StepCases

\* Without a fault there is nothing to unfinalize.
LEMMA NextUndeleted ==
  ASSUME IInv, TypeOK', [Next]_vars
  PROVE  NothingDeleted'
  <1> SUFFICES ASSUME faults' = 0
               PROVE  /\ \A p \in Plans : ~ obj'[p].deleting
                      /\ \A r \in Replicas, p \in Plans : ~ cache'[r][p].deleting
                      /\ \A r \in Replicas : rec'[r].pc # "unfinalize" /\ ~ rec'[r].copy.deleting
    BY DEF NothingDeleted
  <1>1. /\ TypeOK /\ faults = 0 /\ obj \in [Plans -> Objects] /\ rec \in [Replicas -> Reconciles]
        /\ cache \in [Replicas -> [Plans -> Objects]]
    BY NextFaults DEF IInv, TypeOK
  <1>2. /\ \A p \in Plans : ~ obj[p].deleting
        /\ \A r \in Replicas, p \in Plans : ~ cache[r][p].deleting
        /\ \A r \in Replicas : rec[r].pc # "unfinalize" /\ ~ rec[r].copy.deleting
    BY <1>1 DEF IInv, NothingDeleted
  <1>3. \A p \in Plans : ~ obj'[p].deleting
    BY <1>1, <1>2, NextWrites DEF Writes
  <1>4. ASSUME NEW r \in Replicas, NEW p \in Plans PROVE ~ cache'[r][p].deleting
    BY <1>1, <1>2, WhoMovesCache
  <1>5. ASSUME NEW r \in Replicas
        PROVE  rec'[r].pc # "unfinalize" /\ ~ rec'[r].copy.deleting
    <2>1. CASE rec'[r] = rec[r]
      BY <1>2, <2>1
    <2>2. CASE Idle(r)
      BY <1>1, <2>2 DEF Idle, NoReconcile, NoObject
    <2>3. CASE \E x \in Plans : Begin(r, x)
      <3>1. PICK x \in Plans : Begin(r, x)
        BY <2>3
      <3>2. PICK pc, cfg : Take(r, x, pc, cfg) /\ pc # "unfinalize"
        BY <1>1, <1>2, <3>1, BeginTakes
      <3>3. rec'[r].pc = pc /\ rec'[r].copy = cache[r][x]
        BY <1>1, <3>2 DEF Take
      <3>4. QED
        BY <1>2, <3>2, <3>3
    <2>4. CASE Unfinalize(r) \/ DryRun(r) \/ AbortExecution(r) \/ Finish(r)
      BY <2>2, <2>4 DEF Unfinalize, DryRun, AbortExecution, Finish, LastUpdate
    <2>5. CASE StartExecution(r)
      <3> DEFINE new == Bump([rec[r].copy EXCEPT !.phase = "Executing"])
      <3>1. CASE Idle(r)
        BY <2>2, <3>1
      <3>2. CASE rec' = [rec EXCEPT ![r] = [rec[r] EXCEPT !.pc = "build", !.copy = new]]
        <4>1. rec[r] \in Reconciles /\ rec[r].copy \in Objects
          BY <1>1 DEF Reconciles
        <4>2. new.deleting = rec[r].copy.deleting
          BY <4>1 DEF Bump, Objects
        <4>3. rec'[r].pc = "build" /\ rec'[r].copy = new
          BY <1>1, <3>2, <4>1 DEF Reconciles
        <4>4. QED
          BY <1>2, <4>2, <4>3
      <3>3. QED
        BY <2>5, <3>1, <3>2 DEF StartExecution
    <2>6. CASE BuildTools(r)
      <3>1. \E pc \in {"run", "abort"} : rec' = [rec EXCEPT ![r] = [rec[r] EXCEPT !.pc = pc]]
        BY <2>6 DEF BuildTools
      <3>2. rec'[r].pc \in {"run", "abort"} /\ rec'[r].copy = rec[r].copy
        BY <1>1, <3>1 DEF Reconciles
      <3>3. QED
        BY <1>2, <3>2
    <2>7. CASE SkipAction(r) \/ ActionSucceeds(r) \/ ActionFails(r)
      BY <1>1, <1>2, <2>7, LoopCarries
    <2>8. QED
      BY <1>1, <2>1, <2>2, <2>3, <2>4, <2>5, <2>6, <2>7, WhoMovesReconcile DEF Reconcile, Crash
  <1>6. QED
    BY <1>3, <1>4, <1>5

\* A plan in Executing keeps its executor until that executor closes it.
LEMMA NextExecutor ==
  ASSUME IInv, TypeOK', [Next]_vars
  PROVE  ExecutingHasExecutor'
  <1> SUFFICES ASSUME NEW p \in Plans, obj'[p].exists, obj'[p].phase = "Executing", faults' = 0
               PROVE  \E r \in Replicas : /\ rec'[r].pc \in {"build", "run", "abort"}
                                          /\ rec'[r].plan = p
                                          /\ rec'[r].copy.rv = obj'[p].rv
    BY DEF ExecutingHasExecutor
  <1>1. /\ TypeOK /\ faults = 0 /\ obj \in [Plans -> Objects] /\ rec \in [Replicas -> Reconciles]
    BY NextFaults DEF IInv, TypeOK
  <1>2. CASE obj'[p] # obj[p]
    BY <1>1, <1>2, NextWrites DEF Writes
  <1>3. CASE obj'[p] = obj[p]
    <2>1. PICK r \in Replicas : /\ rec[r].pc \in {"build", "run", "abort"}
                                /\ rec[r].plan = p
                                /\ rec[r].copy.rv = obj[p].rv
      BY <1>1, <1>3 DEF IInv, ExecutingHasExecutor
    <2>2. rec[r] \in Reconciles /\ rec[r].copy \in Objects
      BY <1>1 DEF Reconciles
    <2>3. ~ Crash(r)
      BY <1>1 DEF Crash
    <2>4. CASE rec'[r] = rec[r]
      BY <1>3, <2>1, <2>4
    <2>5. CASE BuildTools(r)
      <3>1. \E pc \in {"run", "abort"} : rec' = [rec EXCEPT ![r] = [rec[r] EXCEPT !.pc = pc]]
        BY <2>5 DEF BuildTools
      <3>2. /\ rec'[r].pc \in {"run", "abort"} /\ rec'[r].copy = rec[r].copy
            /\ rec'[r].plan = rec[r].plan
        BY <1>1, <2>2, <3>1 DEF Reconciles
      <3>3. QED
        BY <1>3, <2>1, <3>2
    <2>6. CASE SkipAction(r) \/ ActionSucceeds(r) \/ ActionFails(r)
      BY <1>1, <1>3, <2>1, <2>6, LoopCarries
    <2>7. ASSUME NEW new \in Objects, LastUpdate(r, p, new), new.rv = rec[r].copy.rv
          PROVE  FALSE
      <3>1. Accepts(p, rec[r].copy)
        BY <1>3, <2>1 DEF Accepts
      <3>2. obj' = [obj EXCEPT ![p] = Bump(new)]
        BY <1>1, <2>7, <3>1 DEF LastUpdate
      <3>3. obj'[p].rv = obj[p].rv + 1
        BY <1>1, <2>1, <2>7, <3>2, BumpObject
      <3>4. QED
        BY <1>1, <1>3, <3>3 DEF Objects
    <2>8. CASE AbortExecution(r)
      <3> DEFINE new == [rec[r].copy EXCEPT !.phase = "Failed"]
      <3>1. new \in Objects /\ new.rv = rec[r].copy.rv
        BY <2>2 DEF Objects, Phases
      <3> HIDE DEF new
      <3>2. LastUpdate(r, p, new)
        BY <2>1, <2>8 DEF AbortExecution, new
      <3>3. QED
        BY <2>7, <3>1, <3>2
    <2>9. CASE Finish(r)
      <3> DEFINE new == [rec[r].copy EXCEPT !.phase = FinalPhase(r)]
      <3>1. new \in Objects /\ new.rv = rec[r].copy.rv
        BY <2>2 DEF Objects, Phases, FinalPhase
      <3> HIDE DEF new
      <3>2. LastUpdate(r, p, new)
        BY <2>1, <2>9 DEF Finish, new
      <3>3. QED
        BY <2>7, <3>1, <3>2
    <2>10. ~ (\E x \in Plans : Begin(r, x)) /\ ~ Unfinalize(r) /\ ~ DryRun(r) /\ ~ StartExecution(r)
      BY <2>1 DEF Begin, Unfinalize, DryRun, StartExecution
    <2>11. QED
      BY <1>1, <2>3, <2>4, <2>5, <2>6, <2>8, <2>9, <2>10, WhoMovesReconcile DEF Reconcile
  <1>4. QED
    BY <1>2, <1>3

-----------------------------------------------------------------------------
(* The theorems.                                                            *)

LEMMA InitInductive == Init => IInv
  <1> SUFFICES ASSUME Init PROVE IInv
    OBVIOUS
  <1>1. TypeOK
    BY InitType
  <1>2. VersionsAgree
    <2>1. \A r \in Replicas, p \in Plans : CopyAgrees(cache[r][p], p)
      BY <1>1 DEF Init, CopyAgrees, Fresh, TypeOK, Objects
    <2>2. \A u \in Users : RequestAgrees(u)
      BY DEF Init, RequestAgrees, NoRequest
    <2>3. \A r \in Replicas : ReconcileAgrees(r)
      BY DEF Init, ReconcileAgrees, NoReconcile
    <2>4. QED
      BY <2>1, <2>2, <2>3 DEF VersionsAgree
  <1>3. ArmingSpentOnce
    BY DEF Init, ArmingSpentOnce, One
  <1>4. AttemptsWithinRuns
    <2>1. \A p \in Plans, i \in Steps : Ahead(p, i) = {}
      BY DEF Init, Ahead, NoReconcile
    <2>2. Cardinality({}) = 0
      BY FS_EmptySet
    <2>3. \A p \in Plans, i \in Steps : attempts[p][i] = 0 /\ started[p] = 0
      BY DEF Init
    <2>4. \A p \in Plans, i \in Steps : attempts[p][i] + Cardinality(Ahead(p, i)) <= started[p]
      BY <2>1, <2>2, <2>3
    <2>5. QED
      BY <2>4 DEF AttemptsWithinRuns
  <1>5. FirstRunsReport
    <2>1. ASSUME NEW p \in Plans PROVE FirstRun(p)
      <3>1. obj[p].phase = "" /\ obj[p].results = <<>> /\ started[p] = 0
        BY DEF Init, NewPlan
      <3>2. \A r \in Replicas : ~ Executes(r, p)
        BY DEF Init, NoReconcile, Executes
      <3>3. ~ Reported(p)
        BY <3>1 DEF Reported, Terminal
      <3>4. obj[p].phase # "RolledBack"
        BY <3>1
      <3>5. QED
        BY <3>1, <3>2, <3>3, <3>4 DEF FirstRun
    <2>2. QED
      BY <2>1 DEF Init, FirstRunsReport, NoReconcile
  <1>6. NothingDeleted
    BY DEF Init, NothingDeleted, NewPlan, NoReconcile, NoObject
  <1>7. ExecutingHasExecutor
    BY DEF Init, ExecutingHasExecutor, NewPlan
  <1>8. QED
    BY <1>1, <1>2, <1>3, <1>4, <1>5, <1>6, <1>7 DEF IInv

LEMMA NextInductive == IInv /\ [Next]_vars => IInv'
  <1> SUFFICES ASSUME IInv, [Next]_vars PROVE IInv'
    OBVIOUS
  <1>1. TypeOK /\ VersionsAgree /\ ArmingSpentOnce /\ AttemptsWithinRuns
    BY DEF IInv
  <1>2. TypeOK'
    BY <1>1, NextType
  <1>3. QED
    BY <1>1, <1>2, NextVersions, NextArmings, NextAttempts, NextReports, NextUndeleted,
      NextExecutor DEF IInv

\* The inductive invariant holds of every execution: it is what the optimistic
\* concurrency of the API server buys the controllers and the dashboard.
THEOREM Inductive == Spec => []IInv
  BY InitInductive, NextInductive, PTL DEF Spec

LEMMA InductiveAtMostOnce == IInv => AtMostOncePerArming
  <1> SUFFICES ASSUME IInv, NEW p \in Plans, NEW i \in Steps
               PROVE  attempts[p][i] <= armed[p]
    BY DEF AtMostOncePerArming
  <1>1. attempts[p][i] + Cardinality(Ahead(p, i)) <= started[p]
    BY DEF IInv, AttemptsWithinRuns
  <1>2. started[p] + One(obj[p].phase \in Armed) + One(rejected[p]) <= armed[p]
    BY DEF IInv, ArmingSpentOnce
  <1>3. /\ attempts[p][i] \in Nat /\ started[p] \in Nat /\ armed[p] \in Nat
        /\ Cardinality(Ahead(p, i)) \in Nat
    BY AheadFinite DEF IInv, TypeOK
  <1>4. QED
    BY <1>1, <1>2, <1>3 DEF One

\* For any number of replicas, stale caches, crashes and lost answers, no arming
\* of a plan makes the tool of one of its actions run twice.
THEOREM AtMostOnce == Spec => []AtMostOncePerArming
  BY Inductive, InductiveAtMostOnce, PTL

LEMMA InductiveRejected == IInv => RejectedNeverRuns
  <1> SUFFICES ASSUME IInv, NEW p \in Plans, rejected[p], armed[p] = 1
               PROVE  started[p] = 0 /\ \A i \in Steps : attempts[p][i] = 0
    BY DEF RejectedNeverRuns
  <1>1. started[p] \in Nat /\ started[p] = 0
    <2>1. started[p] + One(obj[p].phase \in Armed) + One(rejected[p]) <= armed[p]
      BY DEF IInv, ArmingSpentOnce
    <2>2. started[p] \in Nat
      BY DEF IInv, TypeOK
    <2>3. QED
      BY <2>1, <2>2 DEF One
  <1>2. ASSUME NEW i \in Steps PROVE attempts[p][i] = 0
    <2>1. attempts[p][i] + Cardinality(Ahead(p, i)) <= started[p]
      BY DEF IInv, AttemptsWithinRuns
    <2>2. attempts[p][i] \in Nat /\ Cardinality(Ahead(p, i)) \in Nat
      BY AheadFinite DEF IInv, TypeOK
    <2>3. QED
      BY <1>1, <2>1, <2>2
  <1>3. QED
    BY <1>1, <1>2

\* A plan whose rejection the dashboard acknowledged never calls a tool, however
\* stale the copies the replicas hold.
THEOREM Rejected == Spec => []RejectedNeverRuns
  BY Inductive, InductiveRejected, PTL

\* Only the update to Executing starts a run, and it goes through only on the
\* version that was read: armed and not being deleted.
LEMMA StartFindsArmed ==
  ASSUME IInv, Next, NEW p \in Plans, started'[p] > started[p]
  PROVE  obj[p].exists /\ ~ obj[p].deleting /\ obj[p].phase \in Armed
  <1>1. started \in [Plans -> Nat] /\ TypeOK /\ VersionsAgree
    BY DEF IInv, TypeOK
  <1>2. PICK r \in Replicas : StartExecution(r) /\ p = rec[r].plan /\ Accepts(p, rec[r].copy)
    <2>1. started' # started
      BY <1>1
    <2>2. PICK r \in Replicas : StartExecution(r)
      BY <2>1 DEF Next, Reconcile, Begin, Unfinalize, DryRun, BuildTools, AbortExecution,
        SkipAction, ActionSucceeds, ActionFails, Finish, Crash, Sync, Request, Decide,
        MarkPending, Touch, Delete, Rearm, SyncConfig, EditConfig, plans, history
    <2>3. Accepts(rec[r].plan, rec[r].copy) /\ started' = [started EXCEPT ![rec[r].plan] = @ + 1]
      BY <2>1, <2>2 DEF StartExecution
    <2>4. p = rec[r].plan
      BY <1>1, <2>3
    <2>5. QED
      BY <2>2, <2>3, <2>4
  <1>3. CopyAgrees(rec[r].copy, p) /\ rec[r].copy.phase \in Armed /\ ~ rec[r].copy.deleting
    BY <1>1, <1>2 DEF VersionsAgree, ReconcileAgrees, StartExecution
  <1>4. obj[p].exists /\ obj[p] = rec[r].copy
    BY <1>2, <1>3 DEF Accepts, CopyAgrees, Fresh
  <1>5. QED
    BY <1>3, <1>4

\* Every start of a run finds the plan armed at the API server itself.
THEOREM StartsArmedAlways == Spec => StartsOnlyWhenArmed
  <1>1. IInv /\ [Next]_vars => [StartsArmed]_vars
    BY StartFindsArmed DEF StartsArmed
  <1>2. QED
    BY <1>1, Inductive, PTL DEF Spec, StartsOnlyWhenArmed

\* An update by a reconcile or a request is computed from an armed copy, or
\* closes the run that moved the plan to Executing: it never meets a decision.
LEMMA ReconcileStands ==
  ASSUME TypeOK, VersionsAgree, NEW r \in Replicas, Reconcile(r), NEW p \in Plans,
         obj'[p].phase # obj[p].phase
  PROVE  obj[p].phase \in Armed \cup {"Executing"}
  <1> DEFINE q == rec[r].plan
             copy == rec[r].copy
  <1>1. /\ q \in Plans /\ copy \in Objects /\ obj \in [Plans -> Objects]
    BY DEF TypeOK, Reconciles
  <1>2. ReconcileAgrees(r)
    BY DEF VersionsAgree
  <1>3. CASE (\E x \in Plans : Begin(r, x)) \/ BuildTools(r)
             \/ SkipAction(r) \/ ActionSucceeds(r) \/ ActionFails(r)
    BY <1>3 DEF Begin, BuildTools, SkipAction, ActionSucceeds, ActionFails
  <1>4. CASE Unfinalize(r)
    <2> DEFINE new == Unfinalized(copy)
    <2>1. obj' = obj \/ (Accepts(q, copy) /\ obj' = [obj EXCEPT ![q] = Bump(new)])
      BY <1>4 DEF Unfinalize
    <2>2. CopyAgrees(copy, q)
      BY <1>2, <1>4 DEF Unfinalize, ReconcileAgrees
    <2>3. Bump(new).phase = copy.phase
      BY <1>1, UnfinalizedType, BumpObject
    <2>4. QED
      BY <1>1, <2>1, <2>2, <2>3 DEF Accepts, CopyAgrees, Fresh
  <1>5. CASE DryRun(r) \/ StartExecution(r) \/ AbortExecution(r) \/ Finish(r)
    <2>1. p = q /\ Accepts(q, copy)
      BY <1>1, <1>5 DEF DryRun, StartExecution, AbortExecution, Finish, LastUpdate
    <2>2. Fresh(copy, q)
      BY <2>1 DEF Accepts, Fresh
    <2>3. CASE DryRun(r) \/ StartExecution(r)
      BY <1>2, <2>1, <2>2, <2>3 DEF DryRun, StartExecution, ReconcileAgrees, CopyAgrees
    <2>4. CASE AbortExecution(r) \/ Finish(r)
      BY <1>2, <2>1, <2>2, <2>4 DEF AbortExecution, Finish, ReconcileAgrees
    <2>5. QED
      BY <1>5, <2>3, <2>4
  <1>6. QED
    BY <1>3, <1>4, <1>5 DEF Reconcile

LEMMA NextStands == IInv /\ Next => StandsDecided
  <1> SUFFICES ASSUME IInv, Next, NEW p \in Plans,
                      obj[p].phase \in Terminal \cup {"Approved"},
                      obj'[p].phase # obj[p].phase
               PROVE  armed'[p] > armed[p]
    BY DEF StandsDecided
  <1>1. TypeOK /\ VersionsAgree /\ obj \in [Plans -> Objects] /\ armed \in [Plans -> Nat]
    BY DEF IInv, TypeOK
  <1>2. CASE \E r \in Replicas : Reconcile(r)
    BY <1>1, <1>2, ReconcileStands DEF Terminal, Armed
  <1>3. CASE \E r \in Replicas : Crash(r) \/ \E q \in Plans : Sync(r, q)
    BY <1>3 DEF Crash, Sync
  <1>4. ASSUME NEW u \in Users, Decide(u) PROVE FALSE
    <2>1. p = http[u].plan /\ Accepts(p, http[u].copy)
      BY <1>1, <1>4 DEF Decide
    <2>2. obj[p].phase = "Pending"
      BY <1>1, <1>4, <2>1 DEF VersionsAgree, RequestAgrees, CopyAgrees, Fresh, Accepts, Decide
    <2>3. QED
      BY <2>2 DEF Terminal
  <1>5. CASE \E u \in Users, q \in Plans, verb \in {"approve", "reject"} : Request(u, q, verb)
    BY <1>5 DEF Request
  <1>6. ASSUME NEW q \in Plans, MarkPending(q) \/ Touch(q) \/ Delete(q) \/ Rearm(q)
        PROVE  armed'[p] > armed[p]
    <2>1. p = q
      BY <1>1, <1>6 DEF MarkPending, Touch, Delete, Rearm
    <2>2. ~ Touch(q) /\ ~ Delete(q)
      <3>1. obj[p] \in Objects
        BY <1>1
      <3>2. Touch(q) => obj'[p].phase = obj[p].phase
        BY <1>1, <2>1, <3>1 DEF Touch, Bump, Objects
      <3>3. Delete(q) => obj'[p].phase = obj[p].phase
        BY <1>1, <2>1, <3>1 DEF Delete, Bump, Objects
      <3>4. QED
        BY <3>2, <3>3
    <2>3. ~ MarkPending(q)
      BY <1>1, <2>1 DEF MarkPending, Terminal
    <2>4. QED
      BY <1>1, <1>6, <2>1, <2>2, <2>3 DEF Rearm
  <1>7. CASE UNCHANGED plans
    BY <1>7 DEF plans
  <1>8. QED
    BY <1>2, <1>3, <1>4, <1>5, <1>6, <1>7, StepCases

\* No late write of a reconcile or a request overturns a terminal or approved
\* phase; only re-arming the plan does.
THEOREM DecisionsStandAlways == Spec => DecisionsStand
  <1>1. IInv /\ [Next]_vars => [StandsDecided]_vars
    BY NextStands
  <1>2. QED
    BY <1>1, Inductive, PTL DEF Spec, DecisionsStand

\* The report of a plan accounts for every tool call that was made for it, and
\* of no other, through stale caches, crashes and lost answers of any replica.
LEMMA InductiveReports == IInv => ReportAccountsForEffects
  BY DEF IInv, FirstRunsReport, FirstRun, ReportAccountsForEffects, Reported

THEOREM ReportsAccount == Spec => []ReportAccountsForEffects
  BY Inductive, InductiveReports, PTL

LEMMA InductiveShape == IInv => RolledBackReportShape
  BY DEF IInv, FirstRunsReport, FirstRun, RolledBackReportShape

\* A plan reported RolledBack shows one failure, its last entry, and no success.
THEOREM RolledBackStops == Spec => []RolledBackReportShape
  BY Inductive, InductiveShape, PTL

LEMMA InductiveExecutor == IInv => ExecutingHasExecutor
  BY DEF IInv

\* Without a fault a plan in Executing has a replica that is executing it.
THEOREM ExecutorKept == Spec => []ExecutingHasExecutor
  BY Inductive, InductiveExecutor, PTL

-----------------------------------------------------------------------------
(* One policy judges a run.                                                 *)

\* The actions of a plan do not change; what has been in force is not forgotten, nor
\* is that a fault has happened.
LEMMA NextSources ==
  ASSUME TypeOK, TypeOK', [Next]_vars
  PROVE  spec' = spec /\ Judges \subseteq Judges'
  <1>1. ASSUME NEW r \in Replicas, Reconcile(r) PROVE spec' = spec
    BY <1>1 DEF Reconcile, Begin, Unfinalize, DryRun, StartExecution, BuildTools,
      AbortExecution, SkipAction, ActionSucceeds, ActionFails, Finish
  <1>2. spec' = spec
    <2>1. CASE UNCHANGED plans \/ \E r \in Replicas : Crash(r) \/ \E p \in Plans : Sync(r, p)
      BY <2>1 DEF Crash, Sync, plans
    <2>2. CASE \E u \in Users : Decide(u) \/
                 (\E p \in Plans, verb \in {"approve", "reject"} : Request(u, p, verb))
      BY <2>2 DEF Decide, Request
    <2>3. CASE \E p \in Plans : MarkPending(p) \/ Touch(p) \/ Delete(p) \/ Rearm(p)
      BY <2>3 DEF MarkPending, Touch, Delete, Rearm
    <2>4. QED
      BY <1>1, <2>1, <2>2, <2>3, StepCases
  <1>3. config.past \subseteq config'.past
    <2>1. ASSUME NEW r \in Replicas, SyncConfig(r) \/ Crash(r) PROVE config'.past = config.past
      BY <2>1 DEF SyncConfig, Crash, TypeOK, Policies
    <2>2. ASSUME NEW c \in Configs, EditConfig(c) PROVE config'.past = config.past \cup {c}
      BY <2>2 DEF EditConfig, TypeOK, Policies
    <2>3. QED
      BY <2>1, <2>2, ConfigCases
  <1>4. faults > 0 => faults' > 0
    <2>1. faults' = 0 => faults = 0
      BY NextFaults
    <2>2. faults \in Nat /\ faults' \in Nat
      BY Bounds DEF TypeOK
    <2>3. QED
      BY <2>1, <2>2
  <1>5. QED
    BY <1>2, <1>3, <1>4 DEF Judges

\* What a replica sees of the configuration was in force once.
LEMMA NextSeen ==
  ASSUME TypeOK, TypeOK', [Next]_vars, NEW r \in Replicas,
         config.seen[r] \in config.past, config.now \in config.past
  PROVE  config'.seen[r] \in config'.past /\ config'.now \in config'.past
  <1>1. ASSUME NEW s \in Replicas, SyncConfig(s) \/ Crash(s)
        PROVE  /\ config'.past = config.past /\ config'.now = config.now
               /\ config'.seen[r] \in {config.seen[r], config.now}
    BY <1>1 DEF SyncConfig, Crash, TypeOK, Policies
  <1>2. ASSUME NEW c \in Configs, EditConfig(c)
        PROVE  /\ config'.past = config.past \cup {c} /\ config'.now = c
               /\ config'.seen[r] = config.seen[r]
    BY <1>2 DEF EditConfig, TypeOK, Policies
  <1>3. QED
    BY <1>1, <1>2, ConfigCases

\* A run starts on the configuration it read, and keeps it.
LEMMA NextJudges ==
  ASSUME TypeOK, TypeOK', [Next]_vars, NEW r \in Replicas, JudgesFairly(r)
  PROVE  JudgesFairly(r)'
  <1>1. /\ rec \in [Replicas -> Reconciles] /\ rec[r] \in Reconciles
        /\ config.seen[r] \in config.past /\ config.now \in config.past
        /\ rec[r].pc \in {"start", "build", "run", "abort"} => rec[r].cfg \in Judges
    BY DEF TypeOK, JudgesFairly
  <1>2. /\ config'.seen[r] \in config'.past /\ config'.now \in config'.past
        /\ Judges \subseteq Judges'
    BY <1>1, NextSeen, NextSources
  <1> SUFFICES ASSUME rec'[r].pc \in {"start", "build", "run", "abort"}
               PROVE  rec'[r].cfg \in Judges'
    BY <1>2 DEF JudgesFairly
  <1>3. CASE rec'[r] = rec[r]
    BY <1>1, <1>2, <1>3
  <1>4. CASE Idle(r)
    BY <1>1, <1>4 DEF Idle, NoReconcile
  <1>5. ASSUME NEW p \in Plans, Begin(r, p) PROVE rec'[r].cfg \in Judges'
    <2>1. CASE Take(r, p, "unfinalize", NoConfig)
      BY <1>1, <2>1 DEF Take
    <2>2. ASSUME NEW read \in {config.seen[r], NoConfig}, NEW pc, Take(r, p, pc, read),
                 faults' = IF read = config.seen[r] THEN faults ELSE faults + 1
          PROVE  rec'[r].cfg \in Judges'
      <3>1. rec'[r].cfg = read
        BY <1>1, <2>2 DEF Take
      <3>2. CASE read = config.seen[r]
        BY <1>1, <1>2, <3>1, <3>2 DEF Judges
      <3>3. CASE read # config.seen[r]
        <4>1. faults' > 0 /\ read = NoConfig
          BY <2>2, <3>3, Bounds DEF TypeOK
        <4>2. QED
          BY <3>1, <4>1 DEF Judges
      <3>4. QED
        BY <3>2, <3>3
    <2>3. QED
      BY <1>5, <2>1, <2>2 DEF Begin
  <1>6. CASE /\ rec[r].pc \in {"start", "build", "run"}
             /\ \E new : rec' = [rec EXCEPT ![r] = new] /\ new.cfg = rec[r].cfg
    BY <1>1, <1>2, <1>6
  <1>7. CASE Reconcile(r)
    <2>1. CASE StartExecution(r)
      <3>1. \A new : [rec[r] EXCEPT !.pc = "build", !.copy = new].cfg = rec[r].cfg
        BY <1>1 DEF Reconciles
      <3>2. QED
        BY <1>4, <1>6, <2>1, <3>1 DEF StartExecution
    <2>2. CASE BuildTools(r)
      <3>1. \A pc : [rec[r] EXCEPT !.pc = pc].cfg = rec[r].cfg
        BY <1>1 DEF Reconciles
      <3>2. QED
        BY <1>6, <2>2, <3>1 DEF BuildTools
    <2>3. CASE SkipAction(r) \/ ActionSucceeds(r) \/ ActionFails(r)
      <3>1. PICK ok, new : Advance(r, ok, new)
        BY <2>3, LoopAdvances
      <3>2. [rec[r] EXCEPT !.next = rec[r].next + 1, !.ok = ok, !.copy = new].cfg = rec[r].cfg
        BY <1>1 DEF Reconciles
      <3>3. rec[r].pc = "run"
        BY <2>3 DEF SkipAction, ActionSucceeds, ActionFails, Running
      <3>4. QED
        BY <1>6, <3>1, <3>2, <3>3 DEF Advance
    <2>4. CASE Unfinalize(r) \/ DryRun(r) \/ AbortExecution(r) \/ Finish(r)
      BY <1>4, <2>4 DEF Unfinalize, DryRun, AbortExecution, Finish, LastUpdate
    <2>5. QED
      BY <1>5, <1>7, <2>1, <2>2, <2>3, <2>4 DEF Reconcile
  <1>8. QED
    BY <1>3, <1>4, <1>7, WhoMovesReconcile DEF Crash

\* The report a run carries tells by what it was judged: the calls made, too.
LEMMA ReportJudges ==
  ASSUME NEW r \in Replicas, NEW p \in Plans, RunReports(r, p)
  PROVE  /\ SkipsAs(rec[r].cfg, p, rec[r].copy.results)
         /\ \A i \in Steps : attempts[p][i] > 0 => AllowedBy(rec[r].cfg, spec[p].actions[i])
  BY DEF RunReports, Accounts, SkipsAs, One

\* A step of plan p leaves it with the judge it had, or with that of its run.
LEMMA MovesJudge ==
  ASSUME IInv, IInv', spec' = spec, NEW p \in Plans, armed[p] = 1, armed'[p] = 1, Moves(p),
         \A r \in Replicas : JudgesFairly(r), Judges \subseteq Judges',
         NEW cfg \in Judges, JudgedBy(p, cfg)
  PROVE  \E judge \in Judges' : JudgedBy(p, judge)'
  <1>1. /\ FirstRun(p) /\ FirstRun(p)'
        /\ \A r \in Replicas : Executes(r, p) => RunReports(r, p) /\ rec[r].cfg \in Judges
    BY DEF IInv, FirstRunsReport, FirstRun, JudgesFairly, Executes
  <1>2. ASSUME attempts'[p] = attempts[p],
               Reported(p)' => Reported(p) /\ obj'[p].results = obj[p].results
        PROVE  JudgedBy(p, cfg)'
    BY <1>2 DEF JudgedBy, SkipsAs
  <1>3. CASE Quiet(p)
    BY <1>2, <1>3 DEF Quiet, Reported, Armed, Terminal
  <1>4. CASE Settles(p) \/ Enters(p)
    <2>1. ~ Reported(p)'
      <3>1. CASE Enters(p)
        BY <3>1 DEF Enters, Reported, Terminal
      <3>2. CASE Settles(p)
        <4>1. started[p] + One(obj[p].phase \in Armed) + One(rejected[p]) <= 1
          BY DEF IInv, ArmingSpentOnce
        <4>2. started[p] \in Nat /\ obj[p].phase \in Armed /\ started'[p] = started[p]
          BY <3>2 DEF IInv, TypeOK, Settles
        <4>3. QED
          BY <4>1, <4>2 DEF Reported, One
      <3>3. QED
        BY <1>4, <3>1, <3>2
    <2>2. QED
      BY <1>2, <1>4, <2>1 DEF Settles, Enters
  <1>5. CASE Continues(p)
    <2>1. PICK r \in Replicas : Executes(r, p) /\ rec'[r].cfg = rec[r].cfg /\ RunReports(r, p)'
      BY <1>1, <1>5 DEF Continues
    <2>2. ~ Reported(p)'
      BY <1>1, <1>5, <2>1 DEF Continues, FirstRun, Reported, Terminal
    <2>3. \A i \in Steps : attempts'[p][i] > 0 => AllowedBy(rec[r].cfg, spec[p].actions[i])
      BY <2>1 DEF RunReports, Accounts, SkipsAs, One
    <2>4. PICK judge \in Judges : judge = rec[r].cfg
      BY <1>1, <2>1
    <2>5. JudgedBy(p, judge)'
      BY <2>2, <2>3, <2>4 DEF JudgedBy
    <2>6. QED
      BY <2>5
  <1>6. CASE Closes(p)
    <2>1. PICK r \in Replicas : Executes(r, p) /\ obj'[p].results = rec[r].copy.results
      BY <1>6 DEF Closes
    <2>2. /\ SkipsAs(rec[r].cfg, p, rec[r].copy.results)
          /\ \A i \in Steps : attempts[p][i] > 0 => AllowedBy(rec[r].cfg, spec[p].actions[i])
      BY <1>1, <2>1, ReportJudges
    <2>3. PICK judge \in Judges : judge = rec[r].cfg
      BY <1>1, <2>1
    <2>4. JudgedBy(p, judge)'
      BY <1>6, <2>1, <2>2, <2>3 DEF JudgedBy, SkipsAs, Closes
    <2>5. QED
      BY <2>4
  <1>7. QED
    BY <1>2, <1>3, <1>4, <1>5, <1>6 DEF Moves

LEMMA NextOnePolicy ==
  ASSUME IInv, IInv', [Next]_vars, \A r \in Replicas : JudgesFairly(r), OnePolicyPerRun
  PROVE  OnePolicyPerRun'
  <1> SUFFICES ASSUME NEW p \in Plans, armed'[p] = 1
               PROVE  \E judge \in Judges' : JudgedBy(p, judge)'
    BY DEF OnePolicyPerRun
  <1>1. spec' = spec /\ Judges \subseteq Judges'
    BY NextSources DEF IInv
  <1>2. armed[p] = 1
    <2>1. armed[p] >= 1 /\ armed[p] \in Nat
      BY DEF IInv, FirstRunsReport, TypeOK
    <2>2. armed'[p] = armed[p] \/ armed'[p] = armed[p] + 1
      BY NextSpends DEF IInv, Spends
    <2>3. QED
      BY <2>1, <2>2
  <1>3. Moves(p)
    BY <1>2, ReconcileMoves, DecideMoves, EnvironmentMoves, StepCases
  <1>4. PICK cfg \in Judges : JudgedBy(p, cfg)
    BY <1>2 DEF OnePolicyPerRun
  <1>5. QED
    BY <1>1, <1>2, <1>3, <1>4, MovesJudge

\* However operators edit the configuration and however late the replicas hear of it,
\* one configuration that has been in force, or the rules without one after a fault,
\* accounts for everything a plan called and skipped.
THEOREM OnePolicy == Spec => []OnePolicyPerRun
  <1> DEFINE Fair == \A r \in Replicas : JudgesFairly(r)
  <1>1. Init => Fair /\ OnePolicyPerRun
    BY DEF Init, NoReconcile, JudgesFairly, OnePolicyPerRun, JudgedBy, Judges, Reported
  <1>2. IInv /\ IInv' /\ Fair /\ OnePolicyPerRun /\ [Next]_vars => Fair' /\ OnePolicyPerRun'
    BY NextJudges, NextOnePolicy DEF IInv
  <1>3. QED
    BY <1>1, <1>2, Inductive, PTL DEF Spec

-----------------------------------------------------------------------------
(***************************************************************************)
(* RemediationPlan implements PlanLifecycle: every step of a replica, a    *)
(* request or an outsider is one step of the lifecycle, or none.           *)
(***************************************************************************)

Implements == [Lifecycle!Next]_Lifecycle!vars

LEMMA InitRefines == Init => Lifecycle!Init
  <1> SUFFICES ASSUME Init PROVE Lifecycle!Init
    OBVIOUS
  <1>1. \A p \in Plans : LifeOf(obj[p]) = "armed"
    BY DEF Init, NewPlan, LifeOf, Armed
  <1>2. Life = [p \in Plans |-> "armed"]
    BY <1>1 DEF Life
  <1>3. QED
    BY <1>2 DEF Init, Lifecycle!Init

\* A step that leaves plans, runs and calls alone.
LEMMA QuietRefines ==
  ASSUME UNCHANGED <<obj, armed, started, attempts>>
  PROVE  Implements
  BY DEF Implements, Lifecycle!vars, Life

\* One write moves one plan.
LEMMA WriteMoves ==
  ASSUME NEW q \in Plans, NEW new, obj \in [Plans -> Objects], obj' = [obj EXCEPT ![q] = new]
  PROVE  Life' = [Life EXCEPT ![q] = LifeOf(new)]
  BY DEF Life

\* The moves a write may make without a run starting or a re-arming.
LEMMA WriteRefines ==
  ASSUME NEW q \in Plans, NEW new, obj \in [Plans -> Objects],
         obj' = [obj EXCEPT ![q] = new], obj[q].exists,
         UNCHANGED <<armed, started, attempts>>,
         \/ LifeOf(new) = LifeOf(obj[q])
         \/ ~ new.exists
         \/ obj[q].phase \in Armed /\ LifeOf(new) \in {"approved", "settled"}
         \/ obj[q].phase = "Executing" /\ LifeOf(new) = "settled"
  PROVE  Implements
  <1>1. Life' = [Life EXCEPT ![q] = LifeOf(new)] /\ Life[q] = LifeOf(obj[q])
    BY WriteMoves DEF Life
  <1>2. CASE LifeOf(new) = LifeOf(obj[q])
    <2>1. Life' = Life
      BY <1>1, <1>2 DEF Life
    <2>2. QED
      BY <2>1 DEF Implements, Lifecycle!vars
  <1>3. CASE ~ new.exists
    <2>1. Life[q] # "gone" /\ LifeOf(new) = "gone"
      BY <1>1, <1>3 DEF LifeOf
    <2>2. Lifecycle!Vanish(q)
      BY <1>1, <2>1 DEF Lifecycle!Vanish
    <2>3. QED
      BY <2>2 DEF Implements, Lifecycle!Next
  <1>4. CASE obj[q].phase \in Armed /\ LifeOf(new) \in {"approved", "settled"}
    <2>1. Life[q] = "armed"
      BY <1>1, <1>4 DEF LifeOf
    <2>2. Lifecycle!Decide(q, LifeOf(new))
      BY <1>1, <2>1 DEF Lifecycle!Decide
    <2>3. QED
      BY <1>4, <2>2 DEF Implements, Lifecycle!Next
  <1>5. CASE obj[q].phase = "Executing" /\ LifeOf(new) = "settled"
    <2>1. Life[q] = "running"
      BY <1>1, <1>5 DEF LifeOf, Armed
    <2>2. Lifecycle!Settle(q)
      BY <1>1, <1>5, <2>1 DEF Lifecycle!Settle
    <2>3. QED
      BY <2>2 DEF Implements, Lifecycle!Next
  <1>6. QED
    BY <1>2, <1>3, <1>4, <1>5

-----------------------------------------------------------------------------
(* The reconcile of a replica.                                              *)

LEMMA UnfinalizeRefines ==
  ASSUME IInv, NEW r \in Replicas, Unfinalize(r)
  PROVE  Implements
  <1> DEFINE q == rec[r].plan
             copy == rec[r].copy
             new == Unfinalized(copy)
  <1>1. q \in Plans /\ copy \in Objects /\ obj \in [Plans -> Objects]
    BY DEF IInv, TypeOK, Reconciles
  <1>2. UNCHANGED <<armed, started, attempts>>
    BY DEF Unfinalize, history
  <1>3. CASE Accepts(q, copy) /\ new # copy
    <2>1. obj' = [obj EXCEPT ![q] = Bump(new)] /\ obj[q].exists
      BY <1>3 DEF Unfinalize, Accepts
    <2>2. obj[q] = copy
      BY <1>3 DEF IInv, VersionsAgree, ReconcileAgrees, Unfinalize, CopyAgrees, Fresh, Accepts
    <2>3. Bump(new).phase = copy.phase /\ Bump(new) \in Objects
      BY <1>1, UnfinalizedType, BumpObject
    <2>4. LifeOf(Bump(new)) = LifeOf(obj[q]) \/ ~ Bump(new).exists
      BY <2>1, <2>2, <2>3 DEF LifeOf, Objects
    <2>5. QED
      BY <1>1, <1>2, <2>1, <2>4, WriteRefines
  <1>4. CASE ~ (Accepts(q, copy) /\ new # copy)
    <2>1. obj' = obj
      BY <1>4 DEF Unfinalize
    <2>2. QED
      BY <1>2, <2>1, QuietRefines
  <1>5. QED
    BY <1>3, <1>4

\* The status updates that end a reconcile: a dry-run reports on an armed plan,
\* an abort or the end of the loop settles a running one.
LEMMA LastUpdateRefines ==
  ASSUME IInv, NEW r \in Replicas, NEW q \in Plans, q = rec[r].plan, NEW new,
         LastUpdate(r, q, new), UNCHANGED <<armed, started, attempts>>,
         rec[r].pc \in {"dry-run", "abort", "run"},
         Bump(new).phase \in Terminal
  PROVE  Implements
  <1>1. obj \in [Plans -> Objects]
    BY DEF IInv, TypeOK
  <1>2. CASE obj' = obj
    BY <1>2, QuietRefines
  <1>3. CASE obj' # obj
    <2>1. Accepts(q, rec[r].copy) /\ obj' = [obj EXCEPT ![q] = Bump(new)]
      BY <1>3 DEF LastUpdate
    <2>2. obj[q].phase \in Armed \cup {"Executing"}
      BY <2>1 DEF IInv, VersionsAgree, ReconcileAgrees, CopyAgrees, Fresh, Accepts
    <2>3. ~ Bump(new).exists \/ LifeOf(Bump(new)) = "settled"
      BY DEF LifeOf, Terminal, Armed
    <2>4. obj[q].exists
      BY <2>1 DEF Accepts
    <2>5. QED
      BY <1>1, <2>1, <2>2, <2>3, <2>4, WriteRefines
  <1>4. QED
    BY <1>2, <1>3

LEMMA EndRefines ==
  ASSUME IInv, NEW r \in Replicas, DryRun(r) \/ AbortExecution(r) \/ Finish(r)
  PROVE  Implements
  <1> DEFINE q == rec[r].plan
             copy == rec[r].copy
  <1>1. q \in Plans /\ copy \in Objects
    BY DEF IInv, TypeOK, Reconciles
  <1>2. UNCHANGED <<armed, started, attempts>>
    BY DEF DryRun, AbortExecution, Finish, history
  <1>3. CASE DryRun(r)
    <2> DEFINE skipped == [i \in 1 .. Len(spec[q].actions) |-> "Skipped"]
               new == [copy EXCEPT !.phase = "Completed", !.results = @ \o skipped]
    <2>1. Bump(new).phase \in Terminal
      BY <1>1 DEF Bump, Objects, Terminal
    <2>2. LastUpdate(r, q, new) /\ rec[r].pc = "dry-run"
      BY <1>3 DEF DryRun
    <2>3. QED
      BY <1>1, <1>2, <2>1, <2>2, LastUpdateRefines
  <1>4. CASE AbortExecution(r)
    <2> DEFINE new == [copy EXCEPT !.phase = "Failed"]
    <2>1. Bump(new).phase \in Terminal
      BY <1>1 DEF Bump, Objects, Terminal
    <2>2. LastUpdate(r, q, new) /\ rec[r].pc = "abort"
      BY <1>4 DEF AbortExecution
    <2>3. QED
      BY <1>1, <1>2, <2>1, <2>2, LastUpdateRefines
  <1>5. CASE Finish(r)
    <2> DEFINE new == [copy EXCEPT !.phase = FinalPhase(r)]
    <2>1. Bump(new).phase \in Terminal
      BY <1>1 DEF Bump, Objects, Terminal, FinalPhase
    <2>2. LastUpdate(r, q, new) /\ rec[r].pc = "run"
      BY <1>5 DEF Finish
    <2>3. QED
      BY <1>1, <1>2, <2>1, <2>2, LastUpdateRefines
  <1>6. QED
    BY <1>3, <1>4, <1>5

LEMMA StartRefines ==
  ASSUME IInv, NEW r \in Replicas, StartExecution(r)
  PROVE  Implements
  <1> DEFINE q == rec[r].plan
             copy == rec[r].copy
             new == Bump([copy EXCEPT !.phase = "Executing"])
  <1>1. /\ q \in Plans /\ copy \in Objects /\ obj \in [Plans -> Objects]
        /\ started \in [Plans -> Nat]
    BY DEF IInv, TypeOK, Reconciles
  <1>2. CASE UNCHANGED <<obj, started>>
    BY <1>2, QuietRefines DEF StartExecution
  <1>3. CASE ~ UNCHANGED <<obj, started>>
    <2>1. /\ Accepts(q, copy) /\ obj' = [obj EXCEPT ![q] = new]
          /\ started' \in {started, [started EXCEPT ![q] = @ + 1]}
          /\ UNCHANGED <<armed, attempts>>
      BY <1>3 DEF StartExecution
    <2>2. obj[q] = copy /\ obj[q].exists /\ obj[q].phase \in Armed
      BY <2>1 DEF IInv, VersionsAgree, ReconcileAgrees, StartExecution, CopyAgrees, Fresh, Accepts
    <2>3. Life[q] = "armed"
      BY <1>1, <2>2 DEF Life, LifeOf
    <2>4. new.exists /\ new.phase = "Executing"
      BY <1>1, <2>2 DEF Bump, Objects
    <2>5. LifeOf(new) = "running"
      BY <2>4 DEF LifeOf, Armed
    <2>6. Life' = [Life EXCEPT ![q] = "running"]
      BY <1>1, <2>1, <2>5, WriteMoves
    <2>7. Lifecycle!Start(q)
      BY <2>1, <2>3, <2>6 DEF Lifecycle!Start
    <2>8. QED
      BY <1>1, <2>7 DEF Implements, Lifecycle!Next
  <1>4. QED
    BY <1>2, <1>3

\* A tool call is licensed: the run that makes it has not passed the action.
LEMMA CallRefines ==
  ASSUME IInv, NEW r \in Replicas, SkipAction(r) \/ ActionSucceeds(r) \/ ActionFails(r)
  PROVE  Implements
  <1> DEFINE q == rec[r].plan
             i == rec[r].next
  <1>1. /\ q \in Plans /\ i \in Nat \ {0} /\ UNCHANGED <<obj, armed, started>>
        /\ attempts \in [Plans -> [Steps -> Nat]] /\ started \in [Plans -> Nat]
    BY DEF IInv, TypeOK, Reconciles, SkipAction, ActionSucceeds, ActionFails, history
  <1>2. CASE attempts' = attempts
    BY <1>1, <1>2, QuietRefines
  <1>3. CASE attempts' = Count(attempts, r) /\ Running(r)
    <2>1. i \in Steps
      <3>1. i <= Len(spec[q].actions)
        BY <1>3 DEF Running
      <3>2. Len(spec[q].actions) \in Nat /\ Len(spec[q].actions) <= MaxLen
        BY <1>1, PlanAssumption, LenProperties DEF IInv, TypeOK
      <3>3. QED
        BY <1>1, <3>1, <3>2, Bounds DEF Steps
    <2>2. r \in Ahead(q, i)
      BY <1>1, <1>3 DEF Ahead, Running
    <2>3. Cardinality(Ahead(q, i)) # 0
      BY <2>2, AheadFinite, FS_EmptySet
    <2>4. attempts[q][i] < started[q]
      <3>1. attempts[q][i] + Cardinality(Ahead(q, i)) <= started[q]
        BY <1>1, <2>1 DEF IInv, AttemptsWithinRuns
      <3>2. attempts[q][i] \in Nat /\ started[q] \in Nat /\ Cardinality(Ahead(q, i)) \in Nat
        BY <1>1, <2>1, AheadFinite
      <3>3. QED
        BY <2>3, <3>1, <3>2
    <2>5. Lifecycle!Try(q, i)
      BY <1>1, <1>3, <2>4 DEF Lifecycle!Try, Count, Life
    <2>6. QED
      BY <1>1, <2>1, <2>5 DEF Implements, Lifecycle!Next
  <1>4. QED
    BY <1>2, <1>3 DEF SkipAction, ActionSucceeds, ActionFails, history

LEMMA ReconcileRefines ==
  ASSUME IInv, NEW r \in Replicas, Reconcile(r)
  PROVE  Implements
  <1>1. CASE (\E p \in Plans : Begin(r, p)) \/ BuildTools(r)
    BY <1>1, QuietRefines DEF Begin, BuildTools, history
  <1>2. QED
    BY <1>1, UnfinalizeRefines, EndRefines, StartRefines, CallRefines DEF Reconcile

-----------------------------------------------------------------------------
(* The dashboard and the outside world.                                     *)

LEMMA DecideRefines ==
  ASSUME IInv, NEW u \in Users, Decide(u)
  PROVE  Implements
  <1> DEFINE q == http[u].plan
             copy == http[u].copy
             new == [copy EXCEPT
                       !.phase = IF http[u].verb = "approve" THEN "Approved" ELSE "Failed"]
  <1>1. q \in Plans /\ copy \in Objects /\ obj \in [Plans -> Objects]
    BY DEF IInv, TypeOK, Requests
  <1>2. UNCHANGED <<armed, started, attempts>>
    BY DEF Decide
  <1>3. CASE Accepts(q, copy)
    <2>1. obj' = [obj EXCEPT ![q] = Bump(new)] /\ obj[q].exists
      BY <1>3 DEF Decide, Accepts
    <2>2. obj[q].phase \in Armed
      BY <1>3 DEF IInv, VersionsAgree, RequestAgrees, Decide, CopyAgrees, Fresh, Accepts, Armed
    <2>3. Bump(new).phase \in {"Approved", "Failed"}
      BY <1>1 DEF Bump, Objects
    <2>4. ~ Bump(new).exists \/ LifeOf(Bump(new)) \in {"approved", "settled"}
      BY <2>3 DEF LifeOf, Armed
    <2>5. QED
      BY <1>1, <1>2, <2>1, <2>2, <2>4, WriteRefines
  <1>4. CASE ~ Accepts(q, copy)
    BY <1>2, <1>4, QuietRefines DEF Decide
  <1>5. QED
    BY <1>3, <1>4

LEMMA OutsideRefines ==
  ASSUME IInv, NEW q \in Plans, MarkPending(q) \/ Touch(q) \/ Delete(q) \/ Rearm(q)
  PROVE  Implements
  <1>1. /\ obj \in [Plans -> Objects] /\ obj[q] \in Objects /\ obj[q].phase \in Phases
    BY DEF IInv, TypeOK, Objects
  <1>2. CASE MarkPending(q)
    <2> DEFINE new == Bump([obj[q] EXCEPT !.phase = "Pending"])
    <2>1. LifeOf(new) = LifeOf(obj[q])
      BY <1>1, <1>2 DEF MarkPending, LifeOf, Bump, Objects, Armed
    <2>2. obj' = [obj EXCEPT ![q] = new] /\ obj[q].exists /\ UNCHANGED <<armed, started, attempts>>
      BY <1>1, <1>2 DEF MarkPending, history
    <2>3. QED
      BY <1>1, <2>1, <2>2, WriteRefines
  <1>3. CASE Touch(q)
    <2> DEFINE new == Bump(obj[q])
    <2>1. LifeOf(new) = LifeOf(obj[q])
      BY <1>1 DEF LifeOf, Bump, Objects
    <2>2. obj' = [obj EXCEPT ![q] = new] /\ obj[q].exists /\ UNCHANGED <<armed, started, attempts>>
      BY <1>1, <1>3 DEF Touch, history
    <2>3. QED
      BY <1>1, <2>1, <2>2, WriteRefines
  <1>4. CASE Delete(q)
    <2> DEFINE new == Bump([obj[q] EXCEPT !.deleting = TRUE,
                                          !.exists = obj[q].finalizers # {}])
    <2>1. LifeOf(new) = LifeOf(obj[q]) \/ ~ new.exists
      BY <1>1, <1>4 DEF Delete, LifeOf, Bump, Objects
    <2>2. obj' = [obj EXCEPT ![q] = new] /\ obj[q].exists /\ UNCHANGED <<armed, started, attempts>>
      BY <1>1, <1>4 DEF Delete, history
    <2>3. QED
      BY <1>1, <2>1, <2>2, WriteRefines
  <1>5. CASE Rearm(q)
    <2>1. PICK kept : obj' = [obj EXCEPT ![q] =
                        Bump([obj[q] EXCEPT !.phase = "", !.results = kept])]
      BY <1>1, <1>5 DEF Rearm
    <2> DEFINE new == Bump([obj[q] EXCEPT !.phase = "", !.results = kept])
    <2>2. new.exists /\ new.phase = ""
      BY <1>1, <1>5 DEF Rearm, Bump, Objects
    <2>3. Life' = [Life EXCEPT ![q] = "armed"]
      BY <1>1, <2>1, <2>2, WriteMoves DEF LifeOf, Armed
    <2>4. Life[q] \in {"approved", "running", "settled"}
      BY <1>1, <1>5 DEF Rearm, Life, LifeOf
    <2>5. Lifecycle!Arm(q)
      BY <1>5, <2>3, <2>4 DEF Rearm, Lifecycle!Arm
    <2>6. QED
      BY <2>5 DEF Implements, Lifecycle!Next
  <1>6. QED
    BY <1>2, <1>3, <1>4, <1>5

LEMMA NextRefines == IInv /\ [Next]_vars => Implements
  <1> SUFFICES ASSUME IInv, [Next]_vars PROVE Implements
    OBVIOUS
  <1>1. CASE \E r \in Replicas : Crash(r) \/ \E p \in Plans : Sync(r, p)
    BY <1>1, QuietRefines DEF Crash, Sync, history
  <1>2. CASE \E u \in Users, p \in Plans, verb \in {"approve", "reject"} : Request(u, p, verb)
    BY <1>2, QuietRefines DEF Request, history
  <1>3. CASE UNCHANGED plans
    BY <1>3, QuietRefines DEF plans, history
  <1>4. QED
    BY <1>1, <1>2, <1>3, ReconcileRefines, DecideRefines, OutsideRefines, StepCases

\* Replicas with stale caches, dashboard requests, crashes and outside writes
\* together implement the lifecycle: one arming licenses one run, a run calls the
\* tool of an action at most once, and a decided plan stays decided.
THEOREM Refinement == Spec => ImplementsLifecycle
  <1>1. IInv /\ [Next]_vars => [Lifecycle!Next]_Lifecycle!vars
    BY NextRefines DEF Implements
  <1>2. QED
    BY <1>1, InitRefines, Inductive, PTL DEF Spec, ImplementsLifecycle, Lifecycle!Spec
=============================================================================
