--------------------------- MODULE DiagnosticReport ---------------------------
(***************************************************************************)
(* From a Kubernetes event to a RemediationPlan: the event collector of    *)
(* each replica (internal/collector) creates DiagnosticReports, the        *)
(* reconcilers (internal/controller/diagnostic) have an agent analyse them *)
(* and create plans, and a cleanup loop deletes old reports.               *)
(*                                                                         *)
(* The work queue is explicit here: a report is reconciled because its     *)
(* informer saw a change (the controller has no predicate, so its own      *)
(* status writes count) or because a reconcile asked to be requeued.  Time *)
(* is abstracted to what it makes possible: Cooled, Age; a delayed         *)
(* requeue is in the queue at once, which only starts reports some time.   *)
(* The plans created are those RemediationPlan starts from.                *)
(***************************************************************************)
EXTENDS Naturals, FiniteSets

CONSTANTS
  Replicas,    \* operator processes, no leader election
  Subjects,    \* involved objects of events: kind/namespace/name
  Clusterwide, \* those without a namespace, nodes
  MaxReports,  \* bound: reports ever created
  MaxFaults,   \* bound: crashes, API errors, outside edits, in total
  MaxVersion,  \* bound: the version up to which a report is postponed again
  Nil          \* no subject

ASSUME ReportAssumption ==
  /\ IsFiniteSet(Replicas)
  /\ MaxReports \in Nat \ {0} /\ MaxFaults \in Nat /\ MaxVersion \in Nat
  /\ Nil \notin Subjects /\ Clusterwide \subseteq Subjects

\* GenerateName never reuses a name.
Reports == 1 .. MaxReports

VARIABLES
  provider,  \* the LLM provider has an API key
  obj,       \* obj[d]: report d as the API server holds it
  about,     \* about[d]: the subject of report d
  old,       \* reports older than maxReportAge
  cache,     \* cache[r][d]: report d as the informer of r last saw it
  queue,     \* queue[r]: reports in the work queue of r, delayed ones included
  rec,       \* rec[r]: the reconcile r is in
  cooling,   \* cooling[r]: subjects whose event r processed within the cooldown
  noticed,   \* noticed[r]: the subject the collector of r is creating a report on
  faults,    \* faults spent
  \* history, read by no action's guard
  analyses,  \* analyses[d]: agent runs started on d
  suggested, \* suggested[d]: an agent run on d ended with suggested actions
  plans      \* plans[d]: remediation plans created from d

cluster == <<provider, obj, about, old>>
collector == <<cooling, noticed>>
history == <<analyses, suggested, plans>>
vars == <<cluster, cache, queue, rec, collector, faults, history>>

Phases == {"", "Pending", "Analyzing", "Completed", "Failed"}
Objects == [exists : BOOLEAN, rv : Nat, deleting : BOOLEAN, held : BOOLEAN, phase : Phases]
PCs == {"idle", "unfinalize", "take", "prepare", "postpone", "agent", "fail", "complete", "plan"}
Reconciles == [pc : PCs, report : Reports, copy : Objects, suggests : BOOLEAN]

NoObject == [exists |-> FALSE, rv |-> 0, deleting |-> FALSE, held |-> FALSE, phase |-> ""]
NoReconcile == [pc |-> "idle", report |-> 1, copy |-> NoObject, suggests |-> FALSE]

-----------------------------------------------------------------------------
\* The API server's optimistic concurrency.
AcceptsAnyVersion(d, copy) == obj[d].exists              \* mutant: no precondition
Accepts(d, copy) == obj[d].exists /\ obj[d].rv = copy.rv
Bump(new) == [new EXCEPT !.rv = @ + 1]

Fault == faults < MaxFaults /\ faults' = faults + 1

\* Replica r sends the status update to phase: it succeeds, conflicts, or the
\* API server fails the call before or after it took effect.
Updated(r, phase) == Bump([rec[r].copy EXCEPT !.phase = phase])
Succeeds(r, phase) ==
  /\ Accepts(rec[r].report, rec[r].copy)
  /\ obj' = [obj EXCEPT ![rec[r].report] = Updated(r, phase)]
  /\ UNCHANGED faults
Errs(r, phase) ==
  \/ ~ Accepts(rec[r].report, rec[r].copy) /\ UNCHANGED <<obj, faults>>
  \/ Fault /\ UNCHANGED obj
  \/ /\ Accepts(rec[r].report, rec[r].copy)
     /\ Fault
     /\ obj' = [obj EXCEPT ![rec[r].report] = Updated(r, phase)]

Return(r) == rec' = [rec EXCEPT ![r] = NoReconcile]
RequeueNever(r) == UNCHANGED queue                      \* mutant: the error is not returned
RequeueLater(r) == queue' = [queue EXCEPT ![r] = @ \cup {rec[r].report}]
Goto(r, pc) == rec' = [rec EXCEPT ![r] = [rec[r] EXCEPT !.pc = pc]]
Holding(r, pc, phase) ==
  rec' = [rec EXCEPT ![r] = [rec[r] EXCEPT !.pc = pc, !.copy = Updated(r, phase)]]

-----------------------------------------------------------------------------
\* Reconcile, up to the first write: Get from the cache, the deletion and phase
\* guards.  The comment on the phase guard speaks of analyzing reports too.
Waiting == {"", "Pending"}

TakesPending(copy) == copy.phase = "Pending"             \* mutant: "" is not pending
TakesAnalyzing(copy) ==                                  \* mutant: what the comment says
  copy.phase \in Waiting \cup {"Analyzing"}
Takes(copy) == copy.phase \in Waiting

Begin(r, d) ==
  LET copy == cache[r][d] IN
  /\ rec[r].pc = "idle"
  /\ d \in queue[r]
  /\ queue' = [queue EXCEPT ![r] = @ \ {d}]
  /\ rec' =
       IF copy.exists /\ (copy.deleting \/ Takes(copy))
         THEN [rec EXCEPT ![r] = [pc |-> IF copy.deleting THEN "unfinalize" ELSE "take",
                                  report |-> d, copy |-> copy, suggests |-> FALSE]]
         ELSE rec
  /\ UNCHANGED <<cluster, cache, collector, faults, history>>

\* Deletion: RemoveFinalizer and Update, whose error requeues the report.
Unfinalize(r) ==
  LET d == rec[r].report IN
  /\ rec[r].pc = "unfinalize"
  /\ Return(r)
  /\ \/ /\ Accepts(d, rec[r].copy)
        /\ obj' = [obj EXCEPT ![d] = Bump([rec[r].copy EXCEPT !.held = FALSE, !.exists = FALSE])]
        /\ UNCHANGED <<queue, faults>>
     \/ /\ RequeueLater(r)
        /\ UNCHANGED obj
        /\ (~ Accepts(d, rec[r].copy) /\ UNCHANGED faults) \/ Fault
  /\ UNCHANGED <<provider, about, old, cache, collector, history>>

\* The status update to Analyzing; an error requeues the report.
StartAnalysis(r) ==
  /\ rec[r].pc = "take"
  /\ \/ Succeeds(r, "Analyzing") /\ Holding(r, "prepare", "Analyzing") /\ UNCHANGED queue
     \/ Errs(r, "Analyzing") /\ Return(r) /\ RequeueLater(r)
  /\ UNCHANGED <<provider, about, old, cache, collector, history>>

\* Tools, provider configuration and provider: an error of any of them fails
\* the report, a missing API key postpones it.
Prepare(r) ==
  /\ rec[r].pc = "prepare"
  /\ \/ provider /\ Goto(r, "agent")
     \/ ~ provider /\ rec[r].copy.rv < MaxVersion /\ Goto(r, "postpone")
     \/ Goto(r, "fail")
  /\ UNCHANGED <<cluster, cache, queue, collector, faults, history>>

\* Back to Pending, the result of the update ignored, RequeueAfter 30 s.
PostponeQuietly(r) ==                                    \* mutant: phase left at Analyzing
  /\ rec[r].pc = "postpone"
  /\ Return(r)
  /\ RequeueLater(r)
  /\ UNCHANGED <<cluster, cache, collector, faults, history>>
Postpone(r) ==
  /\ rec[r].pc = "postpone"
  /\ Succeeds(r, "Pending") \/ Errs(r, "Pending")
  /\ Return(r)
  /\ RequeueLater(r)
  /\ UNCHANGED <<provider, about, old, cache, collector, history>>

\* The agent runs up to its step and time limits and answers, with or without
\* suggested actions, or fails.
RunAgent(r) ==
  LET d == rec[r].report IN
  /\ rec[r].pc = "agent"
  /\ analyses' = [analyses EXCEPT ![d] = @ + 1]
  /\ \/ \E s \in BOOLEAN :
          /\ rec' = [rec EXCEPT ![r] = [rec[r] EXCEPT !.pc = "complete", !.suggests = s]]
          /\ suggested' = [suggested EXCEPT ![d] = @ \/ s]
     \/ Goto(r, "fail") /\ UNCHANGED suggested
  /\ UNCHANGED <<cluster, cache, queue, collector, faults, plans>>

\* failReport: the result of the update is ignored and nothing requeued.
FailReport(r) ==
  /\ rec[r].pc = "fail"
  /\ Succeeds(r, "Failed") \/ Errs(r, "Failed")
  /\ Return(r)
  /\ UNCHANGED <<provider, about, old, cache, queue, collector, history>>

\* The status update to Completed; an error requeues the report, which is in
\* Analyzing then.
Complete(r) ==
  /\ rec[r].pc = "complete"
  /\ \/ Succeeds(r, "Completed") /\ Holding(r, "plan", "Completed") /\ UNCHANGED queue
     \/ Errs(r, "Completed") /\ Return(r) /\ RequeueLater(r)
  /\ UNCHANGED <<provider, about, old, cache, collector, history>>

\* maybeCreateRemediationPlan: List of the configs, AutoRemediation.Enabled
\* (which operators switch at any time), the suggestions, Create.  Errors are
\* logged and the plan is lost.
WantedAlways(r) == TRUE                                  \* mutant: no actions needed
Wanted(r) == rec[r].suggests

MaybeCreatePlan(r) ==
  /\ rec[r].pc = "plan"
  /\ Return(r)
  /\ \/ Wanted(r) /\ plans' = [plans EXCEPT ![rec[r].report] = @ + 1]
     \/ UNCHANGED plans
  /\ UNCHANGED <<cluster, cache, queue, collector, faults, analyses, suggested>>

-----------------------------------------------------------------------------
\* The informer of r catches up with report d and enqueues it.
Sync(r, d) ==
  /\ cache[r][d] # obj[d]
  /\ cache' = [cache EXCEPT ![r][d] = obj[d]]
  /\ queue' = [queue EXCEPT ![r] = @ \cup {d}]
  /\ UNCHANGED <<cluster, rec, collector, faults, history>>

\* cleanupOldReports: delete every listed report older than maxReportAge.
DeletedDone(d) ==                                        \* mutant: only finished reports
  IF obj[d].exists /\ obj[d].phase \in {"Completed", "Failed"}
    THEN [obj EXCEPT ![d] = Bump([obj[d] EXCEPT !.exists = FALSE])] ELSE obj
Deleted(d) ==
  IF ~ obj[d].exists \/ obj[d].deleting THEN obj
  ELSE [obj EXCEPT ![d] = Bump([obj[d] EXCEPT !.deleting = TRUE, !.exists = obj[d].held])]

Cleanup(r, d) ==
  /\ cache[r][d].exists
  /\ d \in old
  /\ obj' = Deleted(d)
  /\ UNCHANGED <<provider, about, old, cache, queue, rec, collector, faults, history>>

\* Twelve hours go by.
Age(d) ==
  /\ obj[d].exists
  /\ d \notin old
  /\ old' = old \cup {d}
  /\ UNCHANGED <<provider, obj, about, cache, queue, rec, collector, faults, history>>

-----------------------------------------------------------------------------
\* The collector's watch: an event whose subject is not cooling down is marked
\* processed; then its report is created.
Unused == {d \in Reports : obj[d].rv = 0}
NewReport(held) == [exists |-> TRUE, rv |-> 1, deleting |-> FALSE, held |-> held, phase |-> ""]

Notice(r, s) ==
  /\ noticed[r] = Nil
  /\ s \notin cooling[r]
  /\ Unused # {}
  /\ noticed' = [noticed EXCEPT ![r] = s]
  /\ cooling' = [cooling EXCEPT ![r] = @ \cup {s}]
  /\ UNCHANGED <<cluster, cache, queue, rec, faults, history>>

\* Create drops the status the collector filled in (a status subresource).
\* Other clients may have their reports carry the operator's finalizer.
Created(s, held) ==
  \E d \in Unused :
    /\ \A e \in Unused : d <= e
    /\ obj' = [obj EXCEPT ![d] = NewReport(held)]
    /\ about' = [about EXCEPT ![d] = s]

\* The report goes to the namespace of its subject; reports are namespaced, so
\* the API server refuses one without.
CreateReport(r) ==
  /\ noticed[r] # Nil
  /\ Unused # {}
  /\ \/ noticed[r] \notin Clusterwide /\ Created(noticed[r], FALSE) /\ (UNCHANGED faults \/ Fault)
     \/ noticed[r] \in Clusterwide /\ UNCHANGED <<obj, about, faults>>
     \/ Fault /\ UNCHANGED <<obj, about>>
  /\ noticed' = [noticed EXCEPT ![r] = Nil]
  /\ UNCHANGED <<provider, old, cache, queue, rec, cooling, history>>

\* The cooldown of a subject is over.
CooledNever(r, s) == FALSE                               \* mutant: entries never expire
Cooled(r, s) ==
  /\ s \in cooling[r]
  /\ noticed[r] # s
  /\ Unused # {}
  /\ cooling' = [cooling EXCEPT ![r] = @ \ {s}]
  /\ UNCHANGED <<cluster, cache, queue, rec, noticed, faults, history>>

-----------------------------------------------------------------------------
\* A user creates a report, the provider gets its key, somebody edits or
\* deletes a report, a replica is restarted.
UserReport(s) ==
  /\ Unused # {}
  /\ Created(s, TRUE)
  /\ UNCHANGED <<provider, old, cache, queue, rec, collector, faults, history>>

Configure ==
  /\ ~ provider
  /\ provider' = TRUE
  /\ UNCHANGED <<obj, about, old, cache, queue, rec, collector, faults, history>>

Touch(d) ==
  /\ obj[d].exists
  /\ Fault
  /\ obj' = [obj EXCEPT ![d] = Bump(@)]
  /\ UNCHANGED <<provider, about, old, cache, queue, rec, collector, history>>

Delete(d) ==
  /\ obj[d].exists
  /\ ~ obj[d].deleting
  /\ Fault
  /\ obj' = Deleted(d)
  /\ UNCHANGED <<provider, about, old, cache, queue, rec, collector, history>>

Crash(r) ==
  /\ Fault
  /\ Return(r)
  /\ cache' = [cache EXCEPT ![r] = obj]
  /\ queue' = [queue EXCEPT ![r] = {d \in Reports : obj[d].exists}]
  /\ cooling' = [cooling EXCEPT ![r] = {}]
  /\ noticed' = [noticed EXCEPT ![r] = Nil]
  /\ UNCHANGED <<cluster, history>>

-----------------------------------------------------------------------------
Init ==
  /\ provider \in BOOLEAN
  /\ obj = [d \in Reports |-> NoObject]
  /\ about = [d \in Reports |-> Nil]
  /\ old = {}
  /\ cache = [r \in Replicas |-> obj]
  /\ queue = [r \in Replicas |-> {}]
  /\ rec = [r \in Replicas |-> NoReconcile]
  /\ cooling = [r \in Replicas |-> {}]
  /\ noticed = [r \in Replicas |-> Nil]
  /\ faults = 0
  /\ analyses = [d \in Reports |-> 0]
  /\ suggested = [d \in Reports |-> FALSE]
  /\ plans = [d \in Reports |-> 0]

\* One step of the reconcile r is in.
Analyse(r) ==
  \/ Unfinalize(r)
  \/ StartAnalysis(r)
  \/ Prepare(r)
  \/ Postpone(r)
  \/ RunAgent(r)
  \/ FailReport(r)
  \/ Complete(r)
  \/ MaybeCreatePlan(r)

Next ==
  \/ \E r \in Replicas :
       \/ Analyse(r)
       \/ CreateReport(r)
       \/ Crash(r)
       \/ \E d \in Reports : Begin(r, d) \/ Sync(r, d) \/ Cleanup(r, d)
       \/ \E s \in Subjects : Notice(r, s) \/ Cooled(r, s)
  \/ \E d \in Reports : Age(d) \/ Touch(d) \/ Delete(d)
  \/ \E s \in Subjects : UserReport(s)
  \/ Configure

Spec == Init /\ [][Next]_vars

\* Every process is scheduled, informers and delays come to an end, the cleanup
\* loop ticks, and the watch redelivers the events of a subject in trouble (each
\* watch window starts with all events there are) and hands them out in order, so
\* that no subject keeps another from being noticed.  Users and faults owe nothing.
Fairness ==
  /\ \A r \in Replicas :
       /\ WF_vars(Analyse(r)) /\ WF_vars(CreateReport(r))
       /\ \A d \in Reports :
            /\ SF_vars(Begin(r, d)) /\ WF_vars(Sync(r, d))
            /\ WF_vars(Cleanup(r, d))
       /\ \A s \in Subjects : SF_vars(Notice(r, s)) /\ WF_vars(Cooled(r, s))

FairSpec == Spec /\ Fairness
=============================================================================
