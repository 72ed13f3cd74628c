--------------------------- MODULE RemediationPlan ---------------------------
(***************************************************************************)
(* A RemediationPlan custom resource and everybody who writes it:          *)
(*   - the reconcilers of internal/controller/remediation, one per replica *)
(*     of the operator (the DaemonSet runs without leader election), each  *)
(*     reading its own informer cache;                                     *)
(*   - the dashboard's approve and reject requests                         *)
(*     (internal/dashboard/handlers_diagnostics.go);                       *)
(*   - whoever edits, deletes or re-arms the object from outside, or edits *)
(*     the K8opsConfig its actions are judged by.                          *)
(* They meet only at the API server, which accepts an update when its      *)
(* resourceVersion is the current one.                                     *)
(*                                                                         *)
(* Tool calls are steps of their own: a replica may crash, be overtaken or *)
(* lose the plan between any two of them.  What a tool does to the cluster *)
(* is abstracted to the counters attempts and applied.                     *)
(***************************************************************************)
EXTENDS SafetyChecker, Sequences

CONSTANTS
  Plans,       \* names of RemediationPlan objects
  Replicas,    \* operator processes
  Users,       \* dashboard sessions, one request at a time each
  PlanSpecs,   \* [mode, rollback, actions, finalizers] a plan may be created with
  Configs,     \* K8opsConfigs [safety, auto] the cluster may hold, each at most once
  Tooled,      \* action types with a tool (actionTypeToTool, buildToolRegistry)
  MaxLen,      \* the longest action list in PlanSpecs
  MaxFaults,   \* bound: crashes, API errors, outside edits, in total
  MaxRearms    \* bound: status resets by an operator

Steps == 1 .. MaxLen
Finalizers == {"k8ops", "other"}

ASSUME PlanAssumption ==
  /\ Plans # {}
  /\ IsFiniteSet(Replicas)
  /\ MaxLen \in Nat /\ MaxFaults \in Nat /\ MaxRearms \in Nat
  /\ \A s \in PlanSpecs :
       /\ s.mode \in {"auto", "manual", "dry-run", ""}
       /\ s.rollback \in BOOLEAN
       /\ s.actions \in Seq(RemediationActions) /\ Len(s.actions) <= MaxLen
       /\ s.finalizers \subseteq Finalizers
  /\ \A c \in Configs : c.safety \in SafetySpecs \cup {Nil} /\ c.auto \in AutoSpecs \cup {Nil}

VARIABLES
  config,    \* the K8opsConfig: now in force, as the informer of each replica last
             \* saw it, and all that have been in force
  spec,      \* spec[p]: the immutable part of plan p
  obj,       \* obj[p]: plan p as the API server holds it
  cache,     \* cache[r][p]: plan p as the informer of replica r last saw it
  rec,       \* rec[r]: the reconcile replica r is in
  http,      \* http[u]: the approve or reject request of user u
  faults,    \* faults spent
  \* history, read by no action's guard
  armed,     \* armed[p]: how often p was made ready to run (creation, re-arming)
  started,   \* started[p]: how often a replica entered the execution of p
  attempts,  \* attempts[p][i]: tool calls made for action i of p
  applied,   \* applied[p][i]: of these, the ones that succeeded
  approved,  \* approved[p]: a user approved p since it was last armed
  rejected   \* rejected[p]: a user rejected p since it was last armed

history == <<armed, started, attempts, applied, approved, rejected>>
plans == <<spec, obj, cache, rec, http, faults, history>>
vars == <<config, plans>>

NoConfig == [safety |-> Nil, auto |-> Nil]

Phases == {"", "Pending", "Approved", "Executing", "Completed", "Failed", "RolledBack"}
Armed == {"", "Pending"}           \* "Only process pending plans"
Terminal == {"Completed", "Failed", "RolledBack"}
Results == {"Success", "Failed", "Skipped", "RolledBack"}

Policies == [now : Configs, seen : [Replicas -> Configs], past : SUBSET Configs]
Objects == [exists : BOOLEAN, rv : Nat, deleting : BOOLEAN,
            finalizers : SUBSET Finalizers, phase : Phases, results : Seq(Results)]

PCs == {"idle", "unfinalize", "dry-run", "start", "build", "run", "abort"}
Reconciles == [pc : PCs, plan : Plans, copy : Objects,
               cfg : Configs \cup {NoConfig}, next : Nat \ {0}, ok : BOOLEAN]
Requests == [pc : {"idle", "write"}, plan : Plans,
             verb : {"approve", "reject"}, copy : Objects]

-----------------------------------------------------------------------------
\* The API server's optimistic concurrency: an update is accepted when it was
\* computed from the version that is stored, and a changed object gets a new
\* version.
AcceptsAnyVersion(p, copy) == obj[p].exists              \* mutant: no precondition
Accepts(p, copy) == obj[p].exists /\ obj[p].rv = copy.rv

Bump(new) == [new EXCEPT !.rv = @ + 1]

SomePlan == CHOOSE p \in Plans : TRUE
NoObject == [exists |-> FALSE, rv |-> 0, deleting |-> FALSE, finalizers |-> {},
             phase |-> "", results |-> <<>>]
NoReconcile == [pc |-> "idle", plan |-> SomePlan, copy |-> NoObject,
                cfg |-> NoConfig, next |-> 1, ok |-> TRUE]
NoRequest == [pc |-> "idle", plan |-> SomePlan, verb |-> "approve", copy |-> NoObject]

Idle(r) == rec' = [rec EXCEPT ![r] = NoReconcile]

LastUpdateDropped(r, p, new) ==                          \* mutant: no Status().Update
  Idle(r) /\ UNCHANGED <<obj, faults>>

LastUpdateBlind(r, p, new) ==                            \* mutant: overwrites the status
  /\ Idle(r)
  /\ IF obj[p].exists THEN obj' = [obj EXCEPT ![p] = [new EXCEPT !.rv = obj[p].rv + 1]]
                      ELSE UNCHANGED obj
  /\ UNCHANGED faults

\* A status update by replica r that ends its reconcile.  A call that
\* fails at the API server costs a fault; in every case Reconcile returns.
LastUpdate(r, p, new) ==
  /\ Idle(r)
  /\ \/ /\ Accepts(p, rec[r].copy)
        /\ obj' = [obj EXCEPT ![p] = Bump(new)]
        /\ UNCHANGED faults
     \/ /\ ~ Accepts(p, rec[r].copy)
        /\ UNCHANGED <<obj, faults>>
     \/ /\ faults < MaxFaults
        /\ faults' = faults + 1
        /\ UNCHANGED obj

-----------------------------------------------------------------------------
\* Reconcile, up to the first write: Get from the cache, the deletion and phase
\* guards, List of the configs, from the cache too.  A failed or empty List leaves safetyCfg and
\* autoCfg nil and the reconcile goes on.
Take(r, p, pc, cfg) ==
  rec' = [rec EXCEPT ![r] = [pc |-> pc, plan |-> p, copy |-> cache[r][p], cfg |-> cfg,
                             next |-> 1, ok |-> TRUE]]

ReadyUnlessDeleting(o) == ~ o.deleting                   \* mutant: no phase guard
ReadyIfPending(o) == ~ o.deleting /\ o.phase = "Pending" \* mutant: "" is not pending
Ready(o) == ~ o.deleting /\ o.phase \in Armed

Begin(r, p) ==
  /\ rec[r].pc = "idle"
  /\ cache[r][p].exists
  /\ \/ /\ cache[r][p].deleting
        /\ Take(r, p, "unfinalize", NoConfig)
        /\ UNCHANGED faults
     \/ /\ Ready(cache[r][p])
        /\ \E read \in {config.seen[r], NoConfig} :
             /\ read # config.seen[r] => faults < MaxFaults
             /\ faults' = IF read = config.seen[r] THEN faults ELSE faults + 1
             /\ Take(r, p, IF spec[p].mode = "dry-run" THEN "dry-run" ELSE "start", read)
  /\ UNCHANGED <<config, spec, obj, cache, http, history>>

\* Deletion: RemoveFinalizer and Update.  The object goes when its last
\* finalizer does; an update that changes nothing keeps the version.
UnfinalizedNothing(copy) == copy                         \* mutant: another finalizer's name
Unfinalized(copy) ==
  LET left == copy.finalizers \ {"k8ops"}
  IN [copy EXCEPT !.finalizers = left, !.exists = left # {}]

Unfinalize(r) ==
  LET p == rec[r].plan
      new == Unfinalized(rec[r].copy)
  IN /\ rec[r].pc = "unfinalize"
     /\ Idle(r)
     /\ IF Accepts(p, rec[r].copy) /\ new # rec[r].copy
          THEN obj' = [obj EXCEPT ![p] = Bump(new)]
          ELSE UNCHANGED obj
     /\ UNCHANGED <<config, spec, cache, http, faults, history>>

\* Dry-run: every action is reported as skipped, nothing runs.
DryRun(r) ==
  LET p == rec[r].plan
      skipped == [i \in 1 .. Len(spec[p].actions) |-> "Skipped"]
  IN /\ rec[r].pc = "dry-run"
     /\ LastUpdate(r, p, [rec[r].copy EXCEPT
                            !.phase = "Completed", !.results = @ \o skipped])
     /\ UNCHANGED <<config, spec, cache, http, history>>

\* The status update to Executing.  Only a replica that sees it succeed goes on.
StartExecution(r) ==
  LET p == rec[r].plan
      new == Bump([rec[r].copy EXCEPT !.phase = "Executing"])
  IN /\ rec[r].pc = "start"
     /\ \/ /\ Accepts(p, rec[r].copy)
           /\ obj' = [obj EXCEPT ![p] = new]
           /\ rec' = [rec EXCEPT ![r] = [rec[r] EXCEPT !.pc = "build", !.copy = new]]
           /\ started' = [started EXCEPT ![p] = @ + 1]
           /\ UNCHANGED faults
        \/ /\ ~ Accepts(p, rec[r].copy)
           /\ Idle(r)
           /\ UNCHANGED <<obj, faults, started>>
        \/ \* the API server fails the call, before or after it took effect
           /\ faults < MaxFaults
           /\ faults' = faults + 1
           /\ Idle(r)
           /\ \/ UNCHANGED obj
              \/ Accepts(p, rec[r].copy) /\ obj' = [obj EXCEPT ![p] = new]
           /\ UNCHANGED started
     /\ UNCHANGED <<config, spec, cache, http, armed, attempts, applied, approved, rejected>>

\* buildToolRegistry; it fails when no client can be built from the rest config.
BuildTools(r) ==
  /\ rec[r].pc = "build"
  /\ \/ /\ rec' = [rec EXCEPT ![r] = [rec[r] EXCEPT !.pc = "run"]]
        /\ UNCHANGED faults
     \/ /\ faults < MaxFaults
        /\ faults' = faults + 1
        /\ rec' = [rec EXCEPT ![r] = [rec[r] EXCEPT !.pc = "abort"]]
  /\ UNCHANGED <<config, spec, obj, cache, http, history>>

AbortExecution(r) ==
  /\ rec[r].pc = "abort"
  /\ LastUpdate(r, rec[r].plan, [rec[r].copy EXCEPT !.phase = "Failed"])
  /\ UNCHANGED <<config, spec, cache, http, history>>

-----------------------------------------------------------------------------
\* The loop over plan.Spec.Actions, one iteration per step.
Running(r) ==
  /\ rec[r].pc = "run"
  /\ rec[r].copy.phase # "RolledBack"
  /\ rec[r].next <= Len(spec[rec[r].plan].actions)

CurrentAction(r) == spec[rec[r].plan].actions[rec[r].next]

AllowedBy(cfg, a) == Allowed(cfg.safety, cfg.auto, a)
ActionAllowedNow(r) == AllowedBy(config.seen[r], CurrentAction(r))  \* mutant: reads it again
ActionAllowed(r) == AllowedBy(rec[r].cfg, CurrentAction(r))

HasTool(a) == a.type \in Tooled

\* rollback: relabels the earlier successes and calls no tool.
RollBackAll(results, upTo) ==                            \* mutant: skipped ones too
  [i \in DOMAIN results |-> IF i < upTo THEN "RolledBack" ELSE results[i]]
RollBackShort(results, upTo) ==                          \* mutant: stops one early
  [i \in DOMAIN results |->
     IF i + 1 < upTo /\ results[i] = "Success" THEN "RolledBack" ELSE results[i]]
RollBack(results, upTo) ==
  [i \in DOMAIN results |->
     IF i < upTo /\ results[i] = "Success" THEN "RolledBack" ELSE results[i]]

\* Append an ActionResult and go to the next iteration.
Report(r, result) ==
  [rec[r].copy EXCEPT !.results = Append(rec[r].copy.results, result)]

AdvanceNowhere(r, ok, copy) ==                           \* mutant: same action again
  rec' = [rec EXCEPT ![r] = [rec[r] EXCEPT !.ok = ok, !.copy = copy]]
Advance(r, ok, copy) ==
  rec' = [rec EXCEPT ![r] =
    [rec[r] EXCEPT !.next = rec[r].next + 1, !.ok = ok, !.copy = copy]]

Count(f, r) == [f EXCEPT ![rec[r].plan][rec[r].next] = @ + 1]

SkipAction(r) ==
  /\ Running(r)
  /\ ~ ActionAllowed(r)
  /\ Advance(r, rec[r].ok, Report(r, "Skipped"))
  /\ UNCHANGED <<config, spec, obj, cache, http, faults, history>>

ActionSucceeds(r) ==
  /\ Running(r)
  /\ ActionAllowed(r)
  /\ HasTool(CurrentAction(r))
  /\ Advance(r, rec[r].ok, Report(r, "Success"))
  /\ attempts' = Count(attempts, r)
  /\ applied' = Count(applied, r)
  /\ UNCHANGED <<config, spec, obj, cache, http, faults, armed, started, approved, rejected>>

\* A failure ends the loop only if the plan asks for rollback.
RolledBack(r) ==
  LET failed == Report(r, "Failed")
  IN [failed EXCEPT !.results = RollBack(failed.results, rec[r].next), !.phase = "RolledBack"]

\* The tool fails; or the type has none, and executeAction answers "unknown tool"
\* without a call.
ActionFails(r) ==
  /\ Running(r)
  /\ ActionAllowed(r)
  /\ Advance(r, FALSE,
       IF spec[rec[r].plan].rollback THEN RolledBack(r) ELSE Report(r, "Failed"))
  /\ attempts' = IF HasTool(CurrentAction(r)) THEN Count(attempts, r) ELSE attempts
  /\ UNCHANGED <<config, spec, obj, cache, http, faults, armed, started, applied, approved, rejected>>

\* After the loop: the final phase and its status update.
FinalPhase(r) ==
  IF rec[r].copy.phase = "RolledBack" THEN "RolledBack"
  ELSE IF rec[r].ok THEN "Completed" ELSE "Failed"

Finish(r) ==
  /\ rec[r].pc = "run"
  /\ ~ Running(r)
  /\ LastUpdate(r, rec[r].plan, [rec[r].copy EXCEPT !.phase = FinalPhase(r)])
  /\ UNCHANGED <<config, spec, cache, http, history>>

-----------------------------------------------------------------------------
\* The informer of r catches up with plan p.
Sync(r, p) ==
  /\ cache[r][p] # obj[p]
  /\ cache' = [cache EXCEPT ![r][p] = obj[p]]
  /\ UNCHANGED <<config, spec, obj, rec, http, faults, history>>

\* Its informer of the K8opsConfig does.
SyncConfig(r) ==
  /\ config.seen[r] # config.now
  /\ config' = [config EXCEPT !.seen[r] = config.now]
  /\ UNCHANGED plans

\* The process dies in a reconcile; its successor lists plans and configs afresh.
Crash(r) ==
  /\ rec[r].pc # "idle"
  /\ faults < MaxFaults
  /\ faults' = faults + 1
  /\ Idle(r)
  /\ cache' = [cache EXCEPT ![r] = obj]
  /\ config' = [config EXCEPT !.seen[r] = config.now]
  /\ UNCHANGED <<spec, obj, http, history>>

-----------------------------------------------------------------------------
\* handleRemediationAction: Get (from the API server or from the cache of the
\* replica that serves the request), then the phase guard.  The other answers
\* (not found, already_approved, already_rejected, 400) change nothing.
AnyPhase(o) == o.exists                                  \* mutant: no phase guard
Decidable(o) == o.exists /\ o.phase = "Pending"

Request(u, p, verb) ==
  /\ http[u].pc = "idle"
  /\ \E read \in {obj[p]} \cup {cache[r][p] : r \in Replicas} :
       /\ Decidable(read)
       /\ http' = [http EXCEPT ![u] = [pc |-> "write", plan |-> p, verb |-> verb, copy |-> read]]
  /\ UNCHANGED <<config, spec, obj, cache, rec, faults, history>>

\* ... and its status update: a conflict is answered with an error.
Decide(u) ==
  LET p == http[u].plan IN
  LET verb == http[u].verb IN
  /\ http[u].pc = "write"
  /\ http' = [http EXCEPT ![u] = NoRequest]
  /\ IF Accepts(p, http[u].copy)
       THEN /\ obj' = [obj EXCEPT ![p] = Bump([http[u].copy EXCEPT
                         !.phase = IF verb = "approve" THEN "Approved" ELSE "Failed"])]
            /\ approved' = [approved EXCEPT ![p] = @ \/ verb = "approve"]
            /\ rejected' = [rejected EXCEPT ![p] = @ \/ verb = "reject"]
       ELSE UNCHANGED <<obj, approved, rejected>>
  /\ UNCHANGED <<config, spec, cache, rec, faults, armed, started, attempts, applied>>

-----------------------------------------------------------------------------
\* Somebody fills in the phase the CRD enumerates for a new plan.  No code of
\* the operator does; approve and reject need it.
MarkPending(p) ==
  /\ obj[p].exists
  /\ obj[p].phase = ""
  /\ obj' = [obj EXCEPT ![p] = Bump([@ EXCEPT !.phase = "Pending"])]
  /\ UNCHANGED <<config, spec, cache, rec, http, faults, history>>

\* Any other outside write (a label, an annotation) moves the version.
Touch(p) ==
  /\ obj[p].exists
  /\ faults < MaxFaults
  /\ faults' = faults + 1
  /\ obj' = [obj EXCEPT ![p] = Bump(@)]
  /\ UNCHANGED <<config, spec, cache, rec, http, history>>

Delete(p) ==
  /\ obj[p].exists
  /\ ~ obj[p].deleting
  /\ faults < MaxFaults
  /\ faults' = faults + 1
  /\ obj' = [obj EXCEPT ![p] = Bump([@ EXCEPT !.deleting = TRUE,
                                              !.exists = obj[p].finalizers # {}])]
  /\ UNCHANGED <<config, spec, cache, rec, http, history>>

\* An operator clears the phase of a stuck or finished plan to run it again, and
\* may leave its old results in place.
Rearm(p) ==
  /\ obj[p].exists
  /\ obj[p].phase \notin Armed
  /\ armed[p] <= MaxRearms
  /\ \E kept \in {<<>>, obj[p].results} :
       obj' = [obj EXCEPT ![p] = Bump([@ EXCEPT !.phase = "", !.results = kept])]
  /\ armed' = [armed EXCEPT ![p] = @ + 1]
  /\ approved' = [approved EXCEPT ![p] = FALSE]
  /\ rejected' = [rejected EXCEPT ![p] = FALSE]
  /\ UNCHANGED <<config, spec, cache, rec, http, faults, started, attempts, applied>>

\* An operator edits the K8opsConfig, at any moment of any run.
EditConfig(c) ==
  /\ c \notin config.past
  /\ config' = [config EXCEPT !.now = c, !.past = @ \cup {c}]
  /\ UNCHANGED plans

-----------------------------------------------------------------------------
NewPlan(s) == [exists |-> TRUE, rv |-> 1, deleting |-> FALSE,
               finalizers |-> s.finalizers, phase |-> "", results |-> <<>>]

Init ==
  /\ \E c \in Configs : config = [now |-> c, seen |-> [r \in Replicas |-> c], past |-> {c}]
  /\ spec \in [Plans -> PlanSpecs]
  /\ obj = [p \in Plans |-> NewPlan(spec[p])]
  /\ cache = [r \in Replicas |-> obj]
  /\ rec = [r \in Replicas |-> NoReconcile]
  /\ http = [u \in Users |-> NoRequest]
  /\ faults = 0
  /\ armed = [p \in Plans |-> 1]
  /\ started = [p \in Plans |-> 0]
  /\ attempts = [p \in Plans |-> [i \in Steps |-> 0]]
  /\ applied = [p \in Plans |-> [i \in Steps |-> 0]]
  /\ approved = [p \in Plans |-> FALSE]
  /\ rejected = [p \in Plans |-> FALSE]

\* One step of the reconcile replica r is in.
Reconcile(r) ==
  \/ \E p \in Plans : Begin(r, p)
  \/ Unfinalize(r)
  \/ DryRun(r)
  \/ StartExecution(r)
  \/ BuildTools(r)
  \/ AbortExecution(r)
  \/ SkipAction(r)
  \/ ActionSucceeds(r)
  \/ ActionFails(r)
  \/ Finish(r)

Next ==
  \/ \E r \in Replicas : Reconcile(r) \/ Crash(r) \/ (\E p \in Plans : Sync(r, p)) \/ SyncConfig(r)
  \/ \E u \in Users :
       \/ \E p \in Plans, verb \in {"approve", "reject"} : Request(u, p, verb)
       \/ Decide(u)
  \/ \E p \in Plans : MarkPending(p) \/ Touch(p) \/ Delete(p) \/ Rearm(p)
  \/ \E c \in Configs : EditConfig(c)

Spec == Init /\ [][Next]_vars

\* The work queue runs the reconcile of a changed or requeued plan, one plan at
\* a time, and the informers deliver every change; users, faults and operators
\* owe nothing.
Fairness ==
  /\ \A r \in Replicas : WF_vars(Reconcile(r))
  /\ \A r \in Replicas, p \in Plans : WF_vars(Sync(r, p)) /\ SF_vars(Begin(r, p))

FairSpec == Spec /\ Fairness

=============================================================================
