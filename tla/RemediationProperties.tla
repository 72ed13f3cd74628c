------------------------ MODULE RemediationProperties ------------------------
(***************************************************************************)
(* What a RemediationPlan can be relied on for, what its documentation     *)
(* says of it, and its refinement of PlanLifecycle.                        *)
(***************************************************************************)
EXTENDS RemediationPlan

\* The state of plans, caches, reconciles and requests has the shape the code
\* gives it; a reconcile never writes a phase the CRD does not enumerate.
TypeOK ==
  /\ config \in Policies
  /\ spec \in [Plans -> PlanSpecs]
  /\ obj \in [Plans -> Objects]
  /\ cache \in [Replicas -> [Plans -> Objects]]
  /\ rec \in [Replicas -> Reconciles]
  /\ http \in [Users -> Requests]
  /\ faults \in 0 .. MaxFaults
  /\ armed \in [Plans -> Nat]
  /\ started \in [Plans -> Nat]
  /\ attempts \in [Plans -> [Steps -> Nat]]
  /\ applied \in [Plans -> [Steps -> Nat]]
  /\ approved \in [Plans -> BOOLEAN]
  /\ rejected \in [Plans -> BOOLEAN]

\* However many replicas reconcile the plan from caches however old, through
\* crashes, lost answers and re-armings, the tool of an action is called at
\* most once per arming: the status update to Executing is the lock.
AtMostOncePerArming ==
  \A p \in Plans, i \in Steps : attempts[p][i] <= armed[p]

\* A rejected plan runs nothing: the reject is acknowledged only if it beat
\* every replica to the update, and none starts afterwards from a stale read.
RejectedNeverRuns ==
  \A p \in Plans : (rejected[p] /\ armed[p] = 1) =>
    started[p] = 0 /\ \A i \in Steps : attempts[p][i] = 0

One(b) == IF b THEN 1 ELSE 0

\* The final report accounts for what was done to the cluster: an action is
\* reported done (or relabelled rolled back) iff its tool call succeeded; a call
\* was made iff it is not reported skipped and its type has a tool at all; and
\* nothing beyond the report was called.
Accounts(p, results) ==
  \A i \in Steps :
    IF i \in DOMAIN results
      THEN /\ applied[p][i] = One(results[i] \in {"Success", "RolledBack"})
           /\ attempts[p][i] = One(results[i] # "Skipped" /\ HasTool(spec[p].actions[i]))
      ELSE attempts[p][i] = 0
Reported(p) ==
  /\ armed[p] = 1
  /\ started[p] = 1
  /\ obj[p].phase \in Terminal
ReportAccountsForEffects ==
  \A p \in Plans : Reported(p) => Accounts(p, obj[p].results)

\* A plan reported RolledBack stopped at its first failure and claims no
\* success: the failure is the last entry and the only one.  (A re-armed plan
\* may carry the entries of an earlier run before those of this one.)
StoppedAtFailure(results) ==
  /\ results # <<>>
  /\ \A i \in DOMAIN results :
       IF i = Len(results) THEN results[i] = "Failed"
                           ELSE results[i] \in {"RolledBack", "Skipped"}
RolledBackReportShape ==
  \A p \in Plans : (armed[p] = 1 /\ obj[p].phase = "RolledBack") =>
    StoppedAtFailure(obj[p].results)

\* A plan can be left in Executing with nobody executing it (no reconcile ever
\* picks it up again) only if a fault hit it; races among replicas and users
\* alone never strand a plan.
ExecutingHasExecutor ==
  \A p \in Plans :
    (obj[p].exists /\ obj[p].phase = "Executing" /\ faults = 0) =>
      \E r \in Replicas :
        /\ rec[r].pc \in {"build", "run", "abort"}
        /\ rec[r].plan = p
        /\ rec[r].copy.rv = obj[p].rv

\* A run starts only while the API server itself still holds the plan, armed
\* and not being deleted, whatever the cache of the starting replica said.
StartsArmed ==
  \A p \in Plans : started'[p] > started[p] =>
    obj[p].exists /\ ~ obj[p].deleting /\ obj[p].phase \in Armed
StartsOnlyWhenArmed == [][StartsArmed]_vars

\* A decided plan stays decided: no late write of a reconcile or a request
\* overturns a terminal or approved phase, only an operator re-arming it does.
StandsDecided ==
  \A p \in Plans :
    (obj[p].phase \in Terminal \cup {"Approved"} /\ obj'[p].phase # obj[p].phase)
      => armed'[p] > armed[p]
DecisionsStand == [][StandsDecided]_vars

\* What was called, and in the end what was reported skipped, is what cfg says.
SkipsAs(cfg, p, results) ==
  \A i \in DOMAIN results :
    results[i] = "Skipped" <=> ~ AllowedBy(cfg, spec[p].actions[i])
JudgedBy(p, cfg) ==
  /\ \A i \in Steps : attempts[p][i] > 0 => AllowedBy(cfg, spec[p].actions[i])
  /\ Reported(p) => SkipsAs(cfg, p, obj[p].results)

\* One policy judges a plan from its first action to its last, whichever replicas
\* compete for it, however late their informers are and however operators edit the
\* K8opsConfig meanwhile: one that has been in force, or, only after a fault, the
\* rules of a Checker without configuration.
Judges == config.past \cup (IF faults > 0 THEN {NoConfig} ELSE {})
OnePolicyPerRun ==
  \A p \in Plans : armed[p] = 1 => \E cfg \in Judges : JudgedBy(p, cfg)

-----------------------------------------------------------------------------
\* Why AtMostOncePerArming holds: the inductive invariant of the proofs.

\* A resourceVersion stands for one content: a copy as new as the stored object
\* is the stored object.  What an executor holds as the newest version is its
\* own update to Executing.
Fresh(copy, p) == copy.rv = obj[p].rv

CopyAgrees(copy, p) ==
  copy.rv <= obj[p].rv /\ (Fresh(copy, p) => copy = obj[p])

RequestAgrees(u) ==
  http[u].pc = "write" =>
    CopyAgrees(http[u].copy, http[u].plan) /\ http[u].copy.phase = "Pending"

ReconcileAgrees(r) ==
  /\ rec[r].pc \in {"unfinalize", "dry-run", "start"} => CopyAgrees(rec[r].copy, rec[r].plan)
  /\ rec[r].pc \in {"dry-run", "start"} => rec[r].copy.phase \in Armed /\ ~ rec[r].copy.deleting
  /\ rec[r].pc \in {"build", "run", "abort"} =>
       /\ rec[r].copy.rv <= obj[rec[r].plan].rv
       /\ Fresh(rec[r].copy, rec[r].plan) => obj[rec[r].plan].phase = "Executing"

VersionsAgree ==
  /\ \A r \in Replicas, p \in Plans : CopyAgrees(cache[r][p], p)
  /\ \A u \in Users : RequestAgrees(u)
  /\ \A r \in Replicas : ReconcileAgrees(r)

\* An arming is spent once: on a run, on a rejection, or it is still there.
ArmingSpentOnce ==
  \A p \in Plans :
    started[p] + One(obj[p].phase \in Armed) + One(rejected[p]) <= armed[p]

\* The runs of p that have yet to reach action i.
Ahead(p, i) ==
  {r \in Replicas : rec[r].pc \in {"build", "run"} /\ rec[r].plan = p /\ rec[r].next <= i}

\* A run calls the tool of action i once, on its way past i.
AttemptsWithinRuns ==
  \A p \in Plans, i \in Steps : attempts[p][i] + Cardinality(Ahead(p, i)) <= started[p]

\* Why the reports are right: a run on its way keeps, in the copy it carries, a
\* report of what it did so far.
Executes(r, p) == rec[r].pc \in {"build", "run", "abort"} /\ rec[r].plan = p

RunReports(r, p) ==
  LET copy == rec[r].copy IN
  /\ Len(copy.results) = rec[r].next - 1
  /\ Accounts(p, copy.results)
  /\ SkipsAs(rec[r].cfg, p, copy.results)
  /\ copy.phase \in {"Executing", "RolledBack"}
  /\ copy.phase = "RolledBack" => StoppedAtFailure(copy.results)
  /\ copy.phase = "Executing" /\ spec[p].rollback =>
       \A i \in DOMAIN copy.results : copy.results[i] \in {"Success", "Skipped"}

\* The first run of a plan, as long as nobody re-armed it: it has the plan to
\* itself until it closes it.
FirstRun(p) ==
  /\ obj[p].phase \in Armed => obj[p].results = <<>>
  /\ \A r \in Replicas : Executes(r, p) =>
       /\ obj[p].phase = "Executing"
       /\ RunReports(r, p)
       /\ \A s \in Replicas : Executes(s, p) => s = r
  /\ Reported(p) => Accounts(p, obj[p].results)
  /\ obj[p].phase = "RolledBack" => StoppedAtFailure(obj[p].results)

FirstRunsReport ==
  /\ \A p \in Plans : armed[p] >= 1 /\ (armed[p] = 1 => FirstRun(p))
  /\ \A p \in Plans, i \in Steps : applied[p][i] <= attempts[p][i]
  /\ \A r \in Replicas : rec[r].pc \notin {"build", "run", "abort"} => rec[r].next = 1

\* Why one policy judges a plan: a run judges by what its informer saw once, or by
\* no configuration after a fault, and by nothing else.
JudgesFairly(r) ==
  /\ config.seen[r] \in config.past /\ config.now \in config.past
  /\ rec[r].pc \in {"start", "build", "run", "abort"} => rec[r].cfg \in Judges

\* Why only a fault strands a plan: without one nothing is ever deleted, and
\* nobody but its executor writes a plan in Executing.
NothingDeleted ==
  faults = 0 =>
    /\ \A p \in Plans : ~ obj[p].deleting
    /\ \A r \in Replicas, p \in Plans : ~ cache[r][p].deleting
    /\ \A r \in Replicas : rec[r].pc # "unfinalize" /\ ~ rec[r].copy.deleting

\* The inductive invariant: versions lock, armings are spent once, runs only
\* move forward, carry their report, and are lost only to faults.
IInv ==
  /\ TypeOK
  /\ VersionsAgree
  /\ ArmingSpentOnce
  /\ AttemptsWithinRuns
  /\ FirstRunsReport
  /\ NothingDeleted
  /\ ExecutingHasExecutor

-----------------------------------------------------------------------------
\* While no fault hits the system every armed plan is decided: it runs to a
\* terminal phase, or a user's approve or reject wins the race.
Decided(p) == obj[p].phase \in Terminal \cup {"Approved"}
ArmedPlanIsDecided ==
  \A p \in Plans : (obj[p].phase \in Armed) ~> (Decided(p) \/ faults > 0)

\* With faults, conflicts and lost answers an armed plan still leaves the armed
\* phases (Requeue after a failed update to Executing).
ArmedPlanIsTaken ==
  \A p \in Plans : (obj[p].exists /\ obj[p].phase \in Armed) ~>
    (~ obj[p].exists \/ obj[p].phase \notin Armed)

\* A plan being deleted goes away once the operator's finalizer is the only one
\* left: every replica that reconciles it tries to remove that finalizer.
DeletedPlanGoes ==
  \A p \in Plans : (obj[p].deleting /\ obj[p].finalizers \subseteq {"k8ops"}) ~> ~ obj[p].exists

-----------------------------------------------------------------------------
\* The abstract lifecycle.
LifeOf(o) ==
  IF ~ o.exists THEN "gone"
  ELSE IF o.phase \in Armed THEN "armed"
  ELSE IF o.phase = "Approved" THEN "approved"
  ELSE IF o.phase = "Executing" THEN "running"
  ELSE "settled"

Life == [p \in Plans |-> LifeOf(obj[p])]

Lifecycle == INSTANCE PlanLifecycle WITH
  life <- Life, licensed <- armed, runs <- started, tries <- attempts

\* The replicas, caches and requests together implement the lifecycle a reader
\* of the API is promised.
ImplementsLifecycle == Lifecycle!Spec

-----------------------------------------------------------------------------
\* What the documentation says and the code does not do: refuted.

\* docs/USER_GUIDE.md: a repair is executed only after a human approved it.
ApprovedBeforeRunning ==
  \A p \in Plans : started[p] > 0 => approved[p]
=============================================================================
