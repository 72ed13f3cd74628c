--------------------------- MODULE ReportProperties ---------------------------
(***************************************************************************)
(* What DiagnosticReports can be relied on for, and their refinement of    *)
(* ReportLifecycle.                                                        *)
(***************************************************************************)
EXTENDS DiagnosticReport

\* Reports, caches, queues and reconciles have the shape the code gives them.
TypeOK ==
  /\ provider \in BOOLEAN
  /\ obj \in [Reports -> Objects]
  /\ about \in [Reports -> Subjects \cup {Nil}]
  /\ old \subseteq Reports
  /\ cache \in [Replicas -> [Reports -> Objects]]
  /\ queue \in [Replicas -> SUBSET Reports]
  /\ rec \in [Replicas -> Reconciles]
  /\ cooling \in [Replicas -> SUBSET Subjects]
  /\ noticed \in [Replicas -> Subjects \cup {Nil}]
  /\ faults \in 0 .. MaxFaults
  /\ analyses \in [Reports -> Nat]
  /\ suggested \in [Reports -> BOOLEAN]
  /\ plans \in [Reports -> Nat]

\* An agent, which may change the cluster with its tools, is run on a report at
\* most once, although every replica reconciles it from its own cache, goes back
\* to Pending while the provider has no key, and retries after every error.
AnalysedOnce == \A d \in Reports : analyses[d] <= 1

\* A plan comes from a report that was answered with suggestions, and the answer
\* still stands: no late write turned the report into something else.
PlanFollowsAnswer ==
  \A d \in Reports : plans[d] > 0 => suggested[d] /\ obj[d].phase = "Completed"

\* A report is left in Analyzing with nobody analysing it (and no reconcile will
\* ever take it up) only if a fault hit it.
Analyst(r, d) ==
  /\ rec[r].pc \in {"prepare", "postpone", "agent", "fail", "complete"}
  /\ rec[r].report = d
  /\ rec[r].copy.rv = obj[d].rv
Analyzing(d) == obj[d].exists /\ ~ obj[d].deleting /\ obj[d].phase = "Analyzing"
AnalyzingHasAnalyst ==
  \A d \in Reports : (Analyzing(d) /\ faults = 0) => \E r \in Replicas : Analyst(r, d)

\* No wake-up is lost: a report that waits, or is to be deleted, is in the work
\* queue of every replica, in its hands before the first update, or about to be
\* seen by its informer.  Errors, conflicts, postponements and restarts included,
\* Reconcile never returns without one of them.
NeedsWork(d) == obj[d].exists /\ (obj[d].deleting \/ obj[d].phase \in Waiting)
Starts(r, d) == rec[r].pc \in {"take", "unfinalize"} /\ rec[r].report = d
Remembers(r, d) == d \in queue[r] \/ cache[r][d] # obj[d] \/ Starts(r, d)
NothingForgotten == \A r \in Replicas, d \in Reports : NeedsWork(d) => Remembers(r, d)

-----------------------------------------------------------------------------
\* Why AnalysedOnce and PlanFollowsAnswer hold: the inductive invariant of the
\* proofs.

\* A copy is an old version of the object, or the object.
Agrees(copy, o) == copy.rv <= o.rv /\ (copy.rv = o.rv => copy = o)

CopiesAgree ==
  /\ \A d \in Reports : obj[d].rv = 0 => obj[d] = NoObject
  /\ \A r \in Replicas, d \in Reports : Agrees(cache[r][d], obj[d])
  /\ \A r \in Replicas : Agrees(rec[r].copy, obj[rec[r].report])

\* The stages of a reconcile between its first update and its last.
Working(r) == rec[r].pc \in {"prepare", "postpone", "agent", "fail", "complete"}

\* What a reconcile knows of its report, however old its copy.
StageFits(r) ==
  LET d == rec[r].report
      pc == rec[r].pc
  IN /\ pc = "take" => rec[r].copy.phase \in Waiting
     /\ Working(r) => obj[d].phase = "Analyzing" /\ rec[r].copy.phase = "Analyzing"
     /\ pc \in {"prepare", "postpone", "agent"} => analyses[d] = 0
     /\ pc \in {"complete", "plan"} => analyses[d] = 1 /\ (rec[r].suggests => suggested[d])
     /\ pc = "plan" => obj[d].phase = "Completed" /\ plans[d] = 0
StagesFit == \A r \in Replicas : StageFits(r)

\* A report has one analyst at a time, until its plan is made.
Claims(r) == Working(r) \/ rec[r].pc = "plan"
OneAnalyst ==
  \A r, q \in Replicas :
    (r # q /\ Claims(r) /\ Claims(q)) => rec[r].report # rec[q].report

\* What the history of a report says of its phase.
CountsFit ==
  \A d \in Reports :
    /\ obj[d].phase \in Waiting => analyses[d] = 0
    /\ analyses[d] <= 1 /\ plans[d] <= 1
    /\ plans[d] > 0 => analyses[d] = 1 /\ suggested[d] /\ obj[d].phase = "Completed"

IInv == TypeOK /\ CopiesAgree /\ StagesFit /\ OneAnalyst /\ CountsFit

-----------------------------------------------------------------------------
\* A report waiting once the provider has its key is answered, unless a fault
\* hits it or it grows old first.
Answered(d) == obj[d].phase \in {"Completed", "Failed"}
WaitingReportIsAnswered ==
  \A d \in Reports :
    (obj[d].exists /\ obj[d].phase \in Waiting /\ provider)
      ~> (Answered(d) \/ d \in old \/ faults > 0)

\* An old report goes away whatever its state: the last resort for reports a
\* crash or a lost update left in Analyzing.
OldReportGoes ==
  \A d \in Reports : (obj[d].exists /\ d \in old) ~> ~ obj[d].exists

\* A namespaced subject in trouble gets a report, although its event is marked
\* processed before Create and Create may fail: the next window of the watch
\* retries.
Reported(s) == (\E d \in Reports : about[d] = s) \/ Unused = {}
TroubleIsReported == \A s \in Subjects \ Clusterwide : <>Reported(s)

-----------------------------------------------------------------------------
LifeOf(o) ==
  IF o.rv = 0 THEN "unborn"
  ELSE IF ~ o.exists THEN "gone"
  ELSE IF o.phase \in Waiting THEN "waiting"
  ELSE IF o.phase = "Analyzing" THEN "analysing"
  ELSE "answered"

Lifecycle == INSTANCE ReportLifecycle WITH
  Names <- Reports,
  life <- [d \in Reports |-> LifeOf(obj[d])], runs <- analyses, heirs <- plans

\* Collectors, replicas, caches, queues and cleanup together implement the
\* lifecycle a reader of the API is promised.
ImplementsLifecycle == Lifecycle!Spec
=============================================================================
