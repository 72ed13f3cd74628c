# k8ops in TLA+

k8ops is a Kubernetes operator that runs one process on every node, without
leader election. It watches cluster events, has an LLM agent diagnose them, turns
the diagnosis into a remediation plan, executes the plan under a safety policy,
and serves a dashboard with a chat. This directory holds TLA+ models of that
program, the TLC configurations that check them, and proofs for TLAPS.

Paths below are relative to `src/`. The map between definitions and source lines
is in `PROJECT.json`.

To check one module, run inside this directory:

    tlasany RemediationPlan.tla
    tlc -workers 2 -config Remediation_core.cfg MCRemediationPlan.tla
    tlapm RemediationPlan_proofs.tla

## 1. The system

    events --> collector --> DiagnosticReport --> diagnostic controller (agent run)
                                                     |
                        dashboard                    v
                     approve / reject --> RemediationPlan --> remediation controller
                                                     ^               |
    K8opsConfig --> safety checker ------------------+---------------+--> tools --> cluster

    browser --> dashboard --> chat engine --> agent loop --> provider manager --> LLM
                                  |
                              conversation memory, retry, circuit breaker

The parts meet at the Kubernetes API server. Custom resources are the messages,
an update is accepted only when its `resourceVersion` is the current one, and
every replica reads its own informer cache, which lags. All replicas reconcile all
objects (`cmd/manager/main.go:110`: `--leader-elect` defaults to false, "not needed
for DaemonSet mode").

### Modelled components

**Remediation controller** (`internal/controller/remediation`). State: the plan's
`status` (phase, results) and `finalizers`; within one reconcile, the copy it read,
the safety configuration it read, the loop position. Operations: finalizer
removal, dry-run, the update to `Executing`, the action loop with its check, tool
call and rollback, the final update. Hard: several replicas race for one plan from
stale caches, the policy is edited while they do, the process may die between any
two tool calls, an update may take effect although the call fails. Correct when:
each tool is called at most once per arming, one policy judges a run, the report says
what was done, a plan is not lost while nothing fails.

**Plan decisions** (`internal/dashboard/handlers_diagnostics.go:343`). State: none
but the request in progress. Operations: read the plan, test the phase, update the
status. Hard: the plan may be started between the read and the update. Correct
when: an acknowledged rejection holds.

**Safety checker** (`internal/safety/checker.go`). A pure function of configuration
and action, built afresh in every reconcile. Hard: six rules, optional pointers,
lists that mean "everything" when empty, case-insensitive names. Correct when: a
stricter configuration never lets more through.

**Diagnostic controller** (`internal/controller/diagnostic`). State: the report's
`status`, the work queue, the reconcile in progress. Operations: finalizer removal,
the update to `Analyzing`, preparation and postponement while no provider is
configured, the agent run, the final update, creation of a plan, the cleanup every ten minutes.
Hard: as for plans, and the controller's own writes requeue its reports. Correct
when: one agent run per report, a plan only from an answer that stands, nothing
stuck for ever.

**Event collector** (`internal/collector`). State: the cooldown map of each replica.
Operations: watch, mark, Create. Hard: the mark precedes the Create that may fail.
Correct when: a subject in trouble eventually has a report.

**Chat engine and conversation memory** (`internal/chat`, `internal/memory`). State:
the store of conversations with its cap, a message list per conversation, the loop of
each run. Operations: get-or-create with eviction at the cap, append, compress, the
LLM and tool loop, deletion, the idle sweep. Hard: `compress` gives its lock back for
an LLM call and then overwrites the list; requests share a conversation; eviction
takes one that is in use. Correct when: what is forgotten has a known cause, the
store stays within its cap, no tool call is left without its result.

**Resilience primitives and admission** (`internal/resilience`,
`internal/dashboard/handlers_chat.go`, `internal/auth/rate_limit.go`). State: a token
bucket per user and per login address, the lazily installed limiter that holds the
users' ones, one circuit breaker for all runs. Operations: installation, Allow, the
sweeps, RecordSuccess and RecordFailure after a retried call. Hard: first requests each
install a limiter of their own, under no lock; calls
report into a state other calls have made, late failures arrive while the breaker is
open, half-open admits everybody. Correct when: nobody exceeds burst and rate, the
breaker opens only for cause, stays shut for its cooldown, and closes in the end.

**Provider manager** (`internal/providermanager`). State: ConfigMap, Secret and the
provider in memory, of each replica. Operations: update from the dashboard, reload from
the custom resource, the load at the start. Hard: three writes one after the other,
from stale reads, with errors only logged, and two reads that may fail. Correct when: an update that was saved
undisturbed comes back after a restart, and no provider mixes two updates without cause.

**Audit logger** (`internal/audit`). State: current file, rotated files, ring buffer.
Operations: Log with rotation by size, Rotate, Cleanup, Recent. Hard: rotation closes
before it reopens, either of its steps may fail, lines may be cut, an encoder that has
failed once writes nothing more. Correct when: a fault costs little until the log is
opened anew, what is on disk stays there, the dashboard shows the newest events.

**Dashboard response cache and warmer** (`internal/dashboard/cache.go`,
`handler_batch.go`). State: entries, the summary of the audit pages. Operations: the
middleware around every cached handler, the warmer, the summary's rebuild. Hard: handlers
take time, fills race with invalidations and with the warmer, whose own request goes
through the cache. Correct when: nothing older than the times to live and the work
under way is served.

### Not modelled

**Agent loop** (`internal/agent`): one goroutine's loop over a list of its own; it is
the step of `DiagnosticReport` that answers or fails. **Optimization controller**
(`internal/controller/optimization`): the diagnostic controller's lifecycle without
postponement, deletion and plans; planned. **RBAC sync** (`internal/auth/rbac_sync.go`):
convergence of RoleBindings under concurrent syncs; planned. The rest of
`internal/auth` (hashing, JWT, LDAP, OIDC) is cryptography and I/O.

**Tools** (`internal/tools`): Kubernetes and host I/O behind a map filled once; the
models know that a call succeeds or fails. **Dashboard handlers**: about 1,900 files
that read the cluster and format an answer, with no state but the response cache; they
are most of the repository's lines, and each is a pure function of one listing, so a
model of one would repeat its formatting. **LLM clients** (HTTP and stream parsing),
**cost estimator and metrics** (floating-point arithmetic, counters), **entry points**
(flags and wiring; what they decide is part of the models of what they start).

## 2. Modules

| module | models |
| --- | --- |
| `SafetyChecker` | `CheckAction`, rule by rule, as pure operators |
| `SafetyPolicyEdits` | the verdict on an action as the configuration changes; instance `MCSafetyPolicyEdits` |
| `RemediationPlan` | plan objects, replicas with caches, reconciles, dashboard requests, faults; extends `SafetyChecker` |
| `PlanLifecycle` | the abstract plan: armed, run once, settled |
| `RemediationProperties` | properties, inductive invariant and refinement mapping of `RemediationPlan`; instance `MCRemediationPlan` |
| `DiagnosticReport` | reports, replicas with caches and work queues, reconciles, collectors, cleanup, faults |
| `ReportLifecycle` | the abstract report: waits, analysed once, answered for good |
| `ReportProperties` | properties, inductive invariant and refinement mapping of `DiagnosticReport`; instance `MCDiagnosticReport` |
| `ChatEngine` | the conversation store, concurrent runs and the conversation memory; instance `MCChatEngine` |
| `RateLimits` | token buckets of chat users and login addresses, with their sweeps |
| `CircuitBreaker` | the breaker, the retried calls that share it, the provider's outages |
| `ChatAdmission` | composes `RateLimits` and `CircuitBreaker` on one clock; instance `MCChatAdmission` |
| `ProviderManager` | updates, loads and restarts of replicas over one ConfigMap and one Secret; instance `MCProviderManager` |
| `AuditLog` | log files, ring buffer, disk faults; instance `MCAuditLog` |
| `ResponseCache` | cached handlers, the warmer and the summary; instance `MCResponseCache` |
| `*_proofs` | theorems and their proofs |

### RemediationPlan

`obj[p]` is the plan at the API server, `cache[r][p]` what replica `r` last saw of
it. `rec[r]` is the reconcile `r` is in: a program counter `pc`, the copy it works
on, the configuration it read, the next action and whether all succeeded so far.
controller-runtime runs one reconcile at a time per controller here
(`MaxConcurrentReconciles` is left at its default), so one `rec` per replica is
enough. `http[u]` is the request user `u` has in progress.

Each step up to the next place where somebody else can intervene is an action:

| action | code |
| --- | --- |
| `Begin` | Get, deletion and phase guards, List of the configs (which may fail and leave no configuration) |
| `Unfinalize` | RemoveFinalizer, Update |
| `DryRun` | the skipped results and the Status().Update |
| `StartExecution` | Status().Update to `Executing`; requeue on error |
| `BuildTools`, `AbortExecution` | buildToolRegistry and the failure path |
| `SkipAction`, `ActionSucceeds`, `ActionFails` | one iteration of the loop: verdict, tool call or none for a type without a tool, rollback |
| `Finish` | final phase, Status().Update, error logged |
| `Sync`, `SyncConfig`, `Crash` | informer delivery of plans and configuration; death of the process and its restart |
| `Request`, `Decide` | approve/reject: Get with the phase test, Status().Update |
| `MarkPending`, `Touch`, `Delete`, `Rearm`, `EditConfig` | outside writers: kubectl users and other clients |

A status update succeeds, conflicts, or fails at the API server; the update to
`Executing` may also fail after it took effect. `config` holds the K8opsConfig in force,
what the informer of each replica last saw of it, and all that have been in force; a
run reads it once, in `Begin`. An action whose type is not in `Tooled` fails without a
call: `executeAction` finds nothing in the registry for four of the types the CRD
admits. What tools do is abstracted to two
counters per action, `attempts` and `applied`. History variables (`armed`, `started`,
`attempts`, `applied`, `approved`, `rejected`) appear in no guard, except that
`Rearm` bounds itself by `armed`.

### SafetyChecker and SafetyPolicyEdits

The lists of K8opsConfig are sets, because `CheckAction` only asks whether some
entry matches. `Fold` is the constant that sends a spelling to its case-folded form
(`strings.EqualFold`). The six rules are six predicates; `CheckAction` is the
sequence of early returns over them. `SafetyPolicyEdits` lets an administrator
replace the configuration between two judgements of one action.

### DiagnosticReport

As above, with the work queue explicit (`queue[r]`): a report is in it because its
informer saw a change or a reconcile asked for a requeue. `Begin` takes it out;
`StartAnalysis`, `Prepare`, `Postpone`, `RunAgent`, `FailReport`, `Complete` and
`MaybeCreatePlan` follow the code of `Reconcile`; `Unfinalize`, `Cleanup` and `Age`
the deletion. `Notice` (mark the key), `CreateReport` (Create, which may fail) and
`Cooled` are the collector. A subject in `Clusterwide` is a node: its events carry no
namespace, so the API server refuses the report. Time is abstracted to what it makes
possible: a cooldown ends, a report becomes older than twelve hours, a delayed
requeue comes. The plans counted in `plans` are those `RemediationPlan` starts from;
the two modules share nothing else.

### ChatEngine

`store[i]` is the conversation behind an id, `list[c]` the messages of a conversation
without the fixed system prompt. An entry of a list is the set of messages it stands
for, so that a summary is the set of what it was made from and forgetting can be
stated. `since[i]` orders the store by activity (`updatedAt`) without a clock: the ids
active after `i`. `run[r]` is the goroutine of request `r`:

| action | code |
| --- | --- |
| `Find`, `Create` | GetOrCreateConversation, with eviction at the cap |
| `AddUser`, `ToolResult`, `Answer`, `CallTools`, `GiveUp` | the appends of RunStreamWithRegistry |
| `GoOn`, `StartCompress`, `FinishCompress` | MaybeCompress; compress up to the unlock, and after the LLM call |
| `CallFails` | breaker, retry or context end the run |
| `Delete`, `EvictIdle` | DELETE of a conversation; the idle sweep |

`StartCompress` may happen whenever there is something to compress: the token threshold
is data. A conversation that has left the store lives on in the runs that hold it. The
sweep is modelled although no entry point starts it (section 3), as an engine that has
called `StartCleanup` behaves.

### RateLimits, CircuitBreaker, ChatAdmission

A tick is a fraction of the refill period and of the breaker's cooldown; a bucket's
tokens are recomputed at a request exactly as the code does, fraction dropped and clock
reset whether the request passes or not. `credit` is a meter, a history variable that
would refuse beyond burst and rate: the bucket is right if it is never overdrawn.
`streak` and `calm` are histories of the outcomes reported to the breaker. `Chat`
joins the two: a token spent begins a run. The chat limiter does not exist at first:
`FindNone` is a request that finds none, `Install` the same request assigning its own,
over one that others may be using already; `replaced` counts these.

### ProviderManager, AuditLog, ResponseCache

`ProviderManager` has one action for each write and each read; a save succeeds only if
the replica's cache has caught up and may fail at any time, and so may each read of the
load (`ReadFails`), which then falls back to the resource's provider. `AuditLog` numbers
the events and keeps of a file the events that can be read back, its length, and whether
it ends inside a line; a rotation's rename and reopening fail independently, and a
rotated file is named by its second. `handle` tells a working encoder from one that has
failed: `json.Encoder` keeps its first error, `Log` drops it, and nothing more is written
until a rotation or a restart makes a new one. Such a file does not grow, so rotation by
size does not heal it unless it was full. `ResponseCache` keeps of a response the age of its data; a
handler, a fill and a rebuild take up to `MaxWork` ticks between reading and storing.

## 3. Runs

Passing runs:

| run | instance | distinct states | shows |
| --- | --- | --- | --- |
| `core` | 1 plan of up to 3 actions, 2 configurations, 2 replicas, 1 user, 2 faults | 2,767,067 | `OnePolicyPerRun`, `RejectedNeverRuns`, `ReportAccountsForEffects`, `RolledBackReportShape`, `ExecutingHasExecutor`: one policy judges a plan, an acknowledged rejection holds, the report says what was done, only a fault strands a plan |
| `rearm` | 1 plan of 1 action, 2 replicas, 1 user, 1 fault, 1 re-arming | 917,557 | `IInv`, `AtMostOncePerArming`, `StartsOnlyWhenArmed`, `DecisionsStand`, `ImplementsLifecycle` |
| `progress` | 1 plan of up to 2 actions, 2 replicas, 1 user, 1 fault | 57,595 | `ArmedPlanIsDecided`, `ArmedPlanIsTaken`, `DeletedPlanGoes` |
| `tightening` | 481 configurations, 8 proposals | 3,848 | `TighteningNeverAllows` over every pair of configurations |
| `pipeline` | 1 report, 2 replicas, 1 subject, 2 faults | 1,394,048 | `IInv`, `AnalysedOnce`, `PlanFollowsAnswer`, `AnalyzingHasAnalyst`, `NothingForgotten`, `ImplementsLifecycle` |
| `report_progress` | 1 report, 1 replica, a namespaced subject and a node, 2 faults | 172,363 | `WaitingReportIsAnswered`, `OldReportGoes`, `TroubleIsReported` |
| `chat_conversations` | 2 requests, 2 ids, store of 1, 2 steps of up to 2 tool calls, 1 message kept recent | 2,971,275 | `ForgottenOnlyIfExposed`, `StoreWithinCap`, `CallsGetResults` |
| `admission` | 2 users, 2 racing first requests, 1 address, 2 runs, threshold 2, cooldown of 2 ticks, 2 attempts | 287,808 | `WindowBound`, `OpensOnlyAfterStreak`, `CalmBeforeTraffic`, `Recovers` |
| `audit` | 5 events, ring of 3, files of 3 lines, 3 seconds, 2 disk faults | 1,150,523 | `RecentIsTail`, `FaultsCostLittle`, `KeptOnDisk` |
| `provider` | 2 replicas, 2 updates, 2 restarts | 4,962,164 | `SurvivesRestart`, `MixtureHasCause` |
| `cache_age` | 2 requests, a warmed key and a refreshing one, times to live and work of 1 tick | 3,482,470 | `ServedAge` |

One run refutes what the documentation says and is a finding in `PROJECT.json`:
`approval` states docs/USER_GUIDE.md:451, that repairs run only after a human approved
them; the phase guard executes every new plan, in mode `manual` too. It uses one
replica and no fault.

Other places where a document and the code disagree came up while modelling. They
need no exploration of interleavings to be seen:

| document | code |
| --- | --- |
| docs/USER_GUIDE.md:200: clicking Approve executes | `Approved` is a phase the guard refuses (remediation_controller.go:54), and nothing else executes plans |
| remediationplan_types.go:76: rollback rolls back all actions | `rollback` (remediation_controller.go:224) relabels results and calls no tool |
| diagnostic_controller.go:65: analyzing reports are processed | the guard at :66 returns for them |
| collector.go:65: NodeNotReady and SystemOOM trigger diagnostics | the report is created in the event's namespace (:160), which nodes do not have |
| k8opsconfig_types.go:61: Enabled says whether auto-remediation is active | only the creation of plans reads it (diagnostic_controller.go:325); the reconciler runs every plan there is |
| k8opsconfig_types.go:82: DryRun runs remediation without actual changes | only the dashboard shows it (server.go:3680) |
| k8opsconfig_types.go:87, :163: limits on parallel remediations and on the actions of one | nothing reads them |
| remediationplan_types.go:26: the type may be drainNode, cleanImages, cleanLogs or adjustResource | no tool is registered for these; the action is reported Failed and nothing is called (remediation_controller.go:163) |
| k8opsconfig_types.go:159: protected resources are never modified | the rule (checker.go:102) reads the target; the manifest tools write the manifest's object (tools/remediation/tools.go:330) |
| server.go:143 "30s cache", and the other `cacheMiddleware` durations | the middleware ignores its `ttl` (cache.go:82); every entry lives 10 minutes (server.go:96) |
| cache.go:108: only successful responses are cached | the status is not looked at |
| README.md:42, docs/ARCHITECTURE.md:180: idle conversations go after 30 minutes | nothing calls `StartCleanup` (engine.go:133) |
| handlers_chat.go:72: 10 requests a minute per user | the limiter's rate is per second (resilience.go:188) |
| manager.go:126: the configuration survives restarts | token limit and temperature are stored and not loaded (manager.go:254); a Get that fails at the start (:245, :250) leaves the resource's provider or none (main.go:300) |
| engine.go:584: UpdateProvider swaps the provider for all conversations | it does nothing; a conversation compresses with the provider it was created with |

`CHECK_DEADLOCK FALSE` stands in the configurations of plans, reports, chat and audit
log: a plan that is settled, a report that is gone, requests and events that have run
out end the work. The other runs check for deadlock.

## 4. Bounds

- *One plan, one report.* Reconciles of different objects share the process and its
  configuration but no status; what the properties relate is one object and its
  history. Two objects multiply the states without a new interleaving on one of
  them. The proofs hold for any number.
- *Two replicas.* Every race here is between one writer and one overtaken writer;
  two give a winner and a loser, and with the user's request and the outside edits
  four writers of one object. The liveness run of reports has one replica: two
  make a graph too large for checking liveness in minutes. Starvation of one replica by another is covered
  for plans, whose update protocol is the same.
- *Actions.* Three show an early success, a skip and a late failure with rollback
  across both; each of two configurations forbids an action the other allows, and a third
  action has no tool; one is enough for re-arming.
- *Configurations.* Two, each in force at most once: one edit, which every replica may see
  before, during or after its run. A run that mixed two policies would need no third.
- *Faults.* Two let a crash follow a lost answer; one is enough where a re-arming or
  liveness makes the space large. Conflicts cost no fault.
- *MaxVersion* bounds only how often a report without provider is postponed, which
  the code may do for ever.
- *Rearm* once: the second arming is the first that can meet leftovers of an earlier.
- *Two requests on one conversation* are what the unlocked window of `compress` needs:
  one compresses, the other appends or compresses too. One recent message and one place
  in the store make the cut and the eviction happen within the first messages; two
  steps of up to two calls let a compression fall between a call and its results.
- *Admission.* Two runs give a late failure while the other probes; threshold and
  attempts of two distinguish first, middle and last. Bursts of 2 and 1 and periods of
  1 and 2 ticks let fractions of a token be lost; more than one chat bucket makes the
  cleanup drop all. Two first requests are what it takes to replace a limiter in use.
- *Audit.* Five events go round a ring of three and fill a file; three seconds give two
  rotations in one and a file old enough for `Cleanup`.
- *Provider.* Two updates may mix; the second restart can meet what the first one cut.
- *Cache.* Every duration is one tick, which orders any two of them both ways; `Horizon`
  only caps ages above all bounds of the property.
- *Symmetry* of replicas, ids and requests is used in safety runs only.

## 5. Fairness

For plans: weak fairness of a started reconcile and of every informer, strong
fairness of `Begin`. A reconcile in progress runs to its end unless the process
dies. An informer delivers every change. The work queue holds each changed or
requeued plan until it is taken, one at a time, so a plan that is again and again
ready is taken even if others are taken in between: this needs strong fairness.

For reports: the same, with the queue explicit, and weak fairness of `Cleanup` (a
ticker), `Cooled` (the clock) and `CreateReport`. `Notice` has strong fairness: every
watch window of five minutes starts with the events there are and hands them out in
order, so no subject keeps another from being noticed.

For admission (`FairSpec` of `ChatAdmission`): weak fairness of the clock and of a
run's own steps, whose LLM attempts end because the HTTP client has a timeout; strong
fairness of `Chat`, an assumption on users: they keep asking, and some of their requests
find a token. Only traffic closes a breaker, so nothing could be promised without it.
`Recovers` assumes further, in its premise, that from some point on the provider is up
and no client leaves: each client that leaves is counted as a failure of the provider
and may open the breaker again.

Users otherwise, administrators, faults, `Outage`, `Configure` and `Age` have no fairness.

## 6. Proofs

TLAPS proves, for any sets of plans, replicas, users, subjects, ids, callers and keys,
any plan contents, any configurations, any sizes of ring and file and any bounds:

| module | theorem | property |
| --- | --- | --- |
| `RemediationPlan_proofs` | `TypeCorrect`, `Inductive` | `TypeOK`, `IInv` |
| | `AtMostOnce`, `Rejected` | `AtMostOncePerArming`, `RejectedNeverRuns` |
| | `StartsArmedAlways`, `DecisionsStandAlways` | `StartsOnlyWhenArmed`, `DecisionsStand` |
| | `ReportsAccount`, `RolledBackStops` | `ReportAccountsForEffects`, `RolledBackReportShape` |
| | `ExecutorKept`, `OnePolicy` | `ExecutingHasExecutor`, `OnePolicyPerRun` |
| | `Refinement` | `ImplementsLifecycle` |
| `DiagnosticReport_proofs` | `TypeCorrect`, `Inductive` | `TypeOK`, `IInv` |
| | `AnalysedOnceAlways`, `PlanFollowsAnswerAlways`, `AnalyzingHasAnalystAlways` | the properties of these names |
| | `NothingForgottenAlways` | `NothingForgotten` |
| | `Refinement` | `ImplementsLifecycle` |
| `SafetyPolicyEdits_proofs` | `Tightening` | `TighteningNeverAllows` |
| | `SpellingIrrelevant` | the case of names never changes a verdict |
| `ChatEngine_proofs` | `TypeCorrect`, `WithinCap` | `TypeOK`, `StoreWithinCap` |
| | `Forgotten`, `CallsAnswered` | `ForgottenOnlyIfExposed`, `CallsGetResults` |
| `ChatAdmission_proofs` | `TypeCorrect`, `WithinWindow` | `TypeOK`, `WindowBound` |
| | `Opens`, `Cooldown` | `OpensOnlyAfterStreak`, `CalmBeforeTraffic` |
| `ResponseCache_proofs` | `Staleness` | `ServedAge` |
| `ProviderManager_proofs` | `TypeCorrect`, `SurvivesRestarts` | `TypeOK`, `SurvivesRestart` |
| | `MixturesHaveCauses` | `MixtureHasCause` |
| `AuditLog_proofs` | `TypeCorrect`, `FaultsBounded` | `TypeOK`, `FaultsCostLittle` |
| | `DiskKept`, `RecentAlways` | `KeptOnDisk`, `RecentIsTail` |
| | `RingAlways` | the `i`-th slot before the write position holds the `i`-th newest event |

*Assumptions.* `PlanAssumption`, `FoldAssumption`, `PolicyAssumption`,
`ReportAssumption`, `ChatAssumption`, `LimitsAssumption`, `BreakerAssumption`,
`UserAssumption`, `CacheAssumption`, `ProviderAssumption` and `AuditAssumption`: bounds
are natural numbers, absent things are told from present ones, the replicas are finitely many (the
plan proof counts them), plan contents and configurations are what the CRDs admit,
folding is idempotent. TLC evaluates them in every run.

*Plans.* `AtMostOncePerArming` is not inductive: it says nothing of why a second
replica cannot start. The invariant adds three things for it. `VersionsAgree`: a copy is an
older version or is the stored object, hence an update that is accepted was computed
from the truth and the update to `Executing` is a lock. `ArmingSpentOnce`: an arming
is spent on a run, on a rejection, or is still there; the phase leaves the armed set
at the same step `started` grows. `AttemptsWithinRuns`: the tool calls for an action,
plus the runs that have yet to reach it, are at most the runs started; each run moves
past an action when it calls its tool. `attempts <= started <= armed` follows.
The run whose update took effect although the call failed is why `ArmingSpentOnce` is
an inequality.

The final report is written from the copy a run carries, so `FirstRunsReport` says of
that copy what is to be true of the report: its entries are the actions passed so far,
each accounts for the counters, and it is marked `RolledBack` exactly at its first
failure. The run has the plan to itself until it closes it: its plan is in `Executing`,
which only its own last update leaves. This holds of the first arming only; a plan
re-armed with its old results mixes the entries of two runs, a hazard `PROJECT.json`
lists. `ExecutingHasExecutor` is inductive with
`NothingDeleted`: the one writer that could slip in under a run without a fault is the
removal of the finalizer, and without a fault nothing is deleted. `OnePolicyPerRun`
puts two facts together. Each run judges by what its informer saw once, which has been in
force, or by no configuration, which takes a fault (`JudgesFairly`). And no two runs work
on one arming, so what one of them called and skipped (`RunReports`, `SkipsAs`) is all
there is; what it judged by therefore accounts for the counters at every step and for the
report at the end.

*Reports.* `AnalysedOnce` needs to know that only one reconcile is past the update to
`Analyzing`. `CopiesAgree` is the version argument; `StagesFit` says that a working
reconcile, however old its copy, has its report in `Analyzing` (nobody else writes
that phase away, the deletion keeps it) and what has happened to it so far;
`OneAnalyst` that two reconciles do not share a report; `CountsFit` that a waiting
report was never analysed, which makes the postponement safe.

`NothingForgotten` is what the liveness of reports rests on at each replica. It is
inductive given `CopiesAgree`: whatever is written is news to every informer, because no
copy is newer than the object; and of the steps of a reconcile only the removal of the
finalizer and the update to `Analyzing` end the care a replica has started to take, and
each of them has either written the object or asked for a requeue.

*Refinement.* Each action maps to an action of the lifecycle or to a stutter, under
the inductive invariant. The interesting cases are the steps of runs that outlive
their object: tool calls after the plan has gone, an agent run after the report was
deleted.

*Tightening.* Each of the six rules is monotone; an allowed verdict is the absence of
all six, so the order of the early returns does not matter. Nor does spelling: each rule
that compares names of operations or kinds folds them.

*Chat.* A compression in flight holds a copy of the list split in two. `CopiesCover`
says that the copy accounts for every message added by the time, or since exposed by an
append in its window; it is what makes `FinishCompress` harmless up to the exposed
messages, however many compressions overlap, since the overwrite by one is covered by
what the others had copied or is exposed. `CallsGiven` says that every result was given
or is still owed by a run that executes its tools; with `ForgottenOnlyIfExposed` it yields
`CallsGetResults`, which is about the list itself: a result that was given and is not there
was exposed. The cap holds because eviction removes exactly
one conversation whenever one is added to a full store. `Fits` says what a run's
program counter implies of its steps and of the calls it still owes.

*Admission.* `MeterCovers` relates the bucket to the meter: the tokens, and the time that
will be worth tokens, never exceed the credit left; losing fractions only widens the
gap, and a login bucket is forgotten only when it is full. A limiter that is replaced takes
the buckets of all users with it; `Excess` grants a burst for each, and no more is needed,
since no bucket exceeds one. For the breaker, the failure count
is the streak, and below the threshold, while it is closed, and `quiet` equals `calm`: every report of a
failure sets the clock, in whatever state it arrives, which is why the cooldown counts
from the last failure and not from the opening.

*Cache.* Data is at most as old as the entry plus the work of those who handed it on.
The warmer may store again what another request stored, which adds a second `MaxWork`;
`FoundInv` shows that it is no worse: an entry that becomes valid while the warmer's
request is on its way was set after the warmer found none, hence by a handler of its own
and not from the warmer's earlier answer.

*Providers.* `SurvivesRestart` needs to know of a load under way what it will install.
`LastLoads` says: after an update that is clean and the last one, both stored parts are
its own, and each load that nothing has overtaken has them too, part by part, as far as
it has read; it reads the rest from a cache that is the stored object, since the restart
it belongs to began with a fresh one. `FallsBack` is the other half: when a read failed,
nothing but the resource's provider can have been installed. `MixtureHasCause` looks the other way: as long as nothing
failed, was cut or overlapped (`NoCause`), updates and loads happen one after the other,
and then what is stored, cached and in memory is the same update in both parts, except
where the one update under way has already written (`Undisturbed`).

*Audit log.* `FaultsCostLittle` alone is not inductive: a torn line has yet to swallow the
next event. `LostPaidFor` counts it in advance, the events lost plus the torn end of the
file are at most two for each fault. `SilencesPaidFor` does the same for silences: a log
without a working encoder has a fault behind it that no other silence is charged to.
`RecentIsTail` has two halves. `RingHoldsTail` says
where each event is in the ring, which takes the arithmetic of `%`: a slot that was
overwritten is one lap behind. Given that, the loop of `Recent`, which the model has as a
recursive function, returns the newest events. The proof by induction over its steps is
written as a least counterexample (`LeastNumber`, from the well-foundedness of finite
sets), because the provers cannot instantiate the library's induction theorem.

`IInv` of plans and of reports is checked by the runs `rearm` and `pipeline` as well; the
strengthenings of policy, chat, admission, providers and audit log were invariants of the instances of
their runs, and held, before they were proved.

Only model-checked: the liveness properties, because TLAPS 1.4.5 handles neither fairness
nor ENABLED: `ArmedPlanIsDecided`, `ArmedPlanIsTaken`, `DeletedPlanGoes`,
`WaitingReportIsAnswered`, `OldReportGoes`, `TroubleIsReported` and `Recovers`. Every
other property of a passing run is a theorem.

## 7. What the models leave out

- The content of analyses, suggestions, reasons and messages; timestamps.
- Actual times: cooldowns, requeue delays and the agent's step limit are orders of
  events, so rates (a report postponed in a tight loop) are not seen.
- What a tool call does beyond success or failure; partial effects of a failing call
  count as none.
- The two controllers together with the plan's creation in one state space: a plan
  is created once per report (proved) in the state `RemediationPlan` starts from.
- The text of a conversation: a summary stands for everything it was made from, though
  the code cuts each message to 500 characters before summarising.
- A chat request that still holds a bucket, or a limiter, while it is dropped or replaced:
  what it spends there is not metered.
- Partial visibility of the unsynchronised limiter pointer: a request sees the limiter there
  is or none.
- Providers whose token limit and temperature are lost in a restart (section 3).
- The status of cached responses; cached and uncached routes are otherwise alike.
- Several reports about one subject: nothing in the code prevents them (each
  replica has its own cooldown map) and no property speaks of them.

Hazards no property covers yet are listed with their reason in `PROJECT.json`.

## 8. Plan

1. `RemediationPlan`, `SafetyChecker`, their properties, refinement and proofs. Done.
2. `DiagnosticReport` with the collector, properties, refinement and proofs. Done.
3. `ChatEngine`, `RateLimits`, `CircuitBreaker` and their composition, with proofs. Done.
4. `ResponseCache` with its proof, `ProviderManager`, `AuditLog`. Done.
5. `RBACSync`: two syncs of one user over the namespaces, which interleave creations and
   deletions of RoleBindings; it should end with the bindings of the last role.
6. The optimization controller as a variant of `DiagnosticReport`.
7. Proofs about `AuditLog` and `ProviderManager`, no lost wake-up, one policy per run.
   Done.

Modules that are proved about use recursive functions and no RECURSIVE operator.
