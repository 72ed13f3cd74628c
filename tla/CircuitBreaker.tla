--------------------------- MODULE CircuitBreaker ---------------------------
(***************************************************************************)
(* The circuit breaker in front of the LLM provider, the retried calls of   *)
(* the chat runs that share it, and the provider they call                  *)
(* (internal/resilience/resilience.go, internal/chat/engine.go).            *)
(*                                                                         *)
(* A call reports to the breaker once, after its last attempt, and finds it *)
(* in whatever state the other calls have brought it to.  Time is a clock   *)
(* of the cooldown only: a tick is a fraction of resetTimeout.              *)
(***************************************************************************)
EXTENDS Naturals

CONSTANTS
  Callers,        \* runs that call the provider at the same time
  Threshold,      \* failureThreshold (5)
  ResetTimeout,   \* resetTimeout in ticks (60 s)
  MaxAttempts     \* RetryConfig.MaxAttempts (5)

ASSUME BreakerAssumption ==
  /\ Threshold \in Nat \ {0} /\ ResetTimeout \in Nat
  /\ MaxAttempts \in Nat \ {0}

VARIABLES
  state,      \* CircuitBreaker.state
  failures,   \* failureCount, which matters up to the threshold
  quiet,      \* time since lastFailureTime, which matters up to the cooldown
  call,       \* where each run is: away (no run), between its calls, or in attempt n
  healthy,    \* environment: whether the provider answers
  streak,     \* history: failures reported since the last success reported
  calm        \* history: time since the last failure reported

breaker == <<state, failures, quiet, streak, calm>>
calls == <<call, healthy>>

Away == [pc |-> "away", attempt |-> 0]
Ages == 0 .. ResetTimeout + 1
Capped(n, cap) == IF n > cap THEN cap ELSE n

BreakerInit ==
  /\ state = "closed" /\ failures = 0 /\ quiet = ResetTimeout + 1
  /\ call = [r \in Callers |-> Away]
  /\ healthy = TRUE
  /\ streak = 0 /\ calm = ResetTimeout + 1

-----------------------------------------------------------------------------
(* The breaker. *)

\* Allow admits the request.  Half-open admits any number of them: successCount,
\* which it compares with halfOpenMax = 1, is 0 until a success closes it.
Allow ==
  \/ state # "open" /\ UNCHANGED state
  \/ state = "open" /\ quiet > ResetTimeout /\ state' = "half-open"

RecordSuccessProbing ==                          \* mutant: one probe is not enough
  failures' = 0 /\ streak' = 0 /\ UNCHANGED <<state, quiet, calm>>
RecordSuccessCounting ==                         \* mutant: failures add up
  /\ state' = IF state = "half-open" THEN "closed" ELSE state
  /\ streak' = 0
  /\ UNCHANGED <<failures, quiet, calm>>
RecordSuccess ==
  /\ state' = IF state = "half-open" THEN "closed" ELSE state
  /\ failures' = IF state = "open" THEN failures ELSE 0
  /\ streak' = 0
  /\ UNCHANGED <<quiet, calm>>

RecordFailureOnce ==                             \* mutant: late failures ignored
  /\ IF state = "open" THEN UNCHANGED <<state, failures, quiet>>
     ELSE /\ failures' = Capped(failures + 1, Threshold)
          /\ quiet' = 0
          /\ state' = IF state = "half-open" \/ failures + 1 >= Threshold THEN "open" ELSE state
  /\ streak' = Capped(streak + 1, Threshold) /\ calm' = 0
RecordFailure ==
  /\ failures' = Capped(failures + 1, Threshold)
  /\ quiet' = 0
  /\ state' = IF state = "half-open" \/ failures + 1 >= Threshold THEN "open" ELSE state
  /\ streak' = Capped(streak + 1, Threshold)
  /\ calm' = 0

-----------------------------------------------------------------------------
(* The runs. *)

\* A run whose request was let in has its first step before it.
Begin(r) ==
  /\ call[r].pc = "away"
  /\ call' = [call EXCEPT ![r].pc = "ready"]
  /\ UNCHANGED <<breaker, healthy>>

\* A step that the breaker lets through: its first attempt.
Ask(r) ==
  /\ call[r].pc = "ready"
  /\ Allow
  /\ call' = [call EXCEPT ![r] = [pc |-> "calling", attempt |-> 1]]
  /\ UNCHANGED <<failures, quiet, healthy, streak, calm>>

\* A step that it does not ends the run.
FailFast(r) ==
  /\ call[r].pc = "ready"
  /\ state = "open" /\ quiet <= ResetTimeout
  /\ call' = [call EXCEPT ![r] = Away]
  /\ UNCHANGED <<breaker, healthy>>

\* An answer, with another step to follow or not.
Succeed(r) ==
  /\ call[r].pc = "calling" /\ healthy
  /\ \E pc \in {"away", "ready"} : call' = [call EXCEPT ![r] = [pc |-> pc, attempt |-> 0]]
  /\ RecordSuccess
  /\ UNCHANGED healthy

\* A retryable error with attempts left: Retry waits out the backoff.
FailAttemptOff(r) ==                             \* mutant: one attempt too many
  /\ call[r].pc = "calling" /\ ~ healthy /\ call[r].attempt <= MaxAttempts
  /\ call' = [call EXCEPT ![r].pc = "waiting"]
  /\ UNCHANGED <<breaker, healthy>>
FailAttempt(r) ==
  /\ call[r].pc = "calling" /\ ~ healthy
  /\ call[r].attempt < MaxAttempts
  /\ call' = [call EXCEPT ![r].pc = "waiting"]
  /\ UNCHANGED <<breaker, healthy>>

TryAgain(r) ==
  /\ call[r].pc = "waiting"
  /\ call' = [call EXCEPT ![r] = [pc |-> "calling", attempt |-> @.attempt + 1]]
  /\ UNCHANGED <<breaker, healthy>>

\* An error that is not retryable, or the last attempt's, ends the run.
FailCall(r) ==
  /\ call[r].pc = "calling" /\ ~ healthy
  /\ call' = [call EXCEPT ![r] = Away]
  /\ RecordFailure
  /\ UNCHANGED healthy

\* The client has gone, or the run's 180 s are over, in an attempt or in the
\* backoff between two: counted as a failure of the provider.
Abandon(r) ==
  /\ call[r].pc \in {"calling", "waiting"}
  /\ call' = [call EXCEPT ![r] = Away]
  /\ RecordFailure
  /\ UNCHANGED healthy

\* A step of a run in which its client has no part.
Proceed(r) ==
  \/ Ask(r) \/ FailFast(r) \/ Succeed(r) \/ FailAttempt(r) \/ TryAgain(r) \/ FailCall(r)

\* Environment: the provider goes down or comes back.
Outage == healthy' = ~ healthy /\ UNCHANGED <<breaker, call>>

BreakerTick ==
  /\ quiet' = Capped(quiet + 1, ResetTimeout + 1)
  /\ calm' = Capped(calm + 1, ResetTimeout + 1)
  /\ UNCHANGED <<state, failures, call, healthy, streak>>

BreakerTypeOK ==
  /\ state \in {"closed", "open", "half-open"}
  /\ failures \in 0 .. Threshold
  /\ quiet \in Ages
  /\ call \in [Callers -> [pc : {"away", "ready", "calling", "waiting"},
                           attempt : 0 .. MaxAttempts]]
  /\ healthy \in BOOLEAN
  /\ streak \in 0 .. Threshold
  /\ calm \in Ages

\* The breaker turns from closed to open only when the last calls to report, of
\* whichever runs, were Threshold failures with no success between them
\* (docs/ARCHITECTURE.md: "opens after 5 consecutive failures").
OpensOnlyAfterStreak ==
  [][state = "closed" /\ state' = "open" => streak' = Threshold]_<<breaker, calls>>

\* Until the cooldown has passed since the last failure any run reported, late
\* ones included, a breaker that has opened lets no call through and does not
\* close.
CalmBeforeTraffic ==
  [][state # "closed" /\ calm <= ResetTimeout =>
       /\ state' # "closed"
       /\ \A r \in Callers : call[r].pc = "ready" => call'[r].pc # "calling"]_<<breaker, calls>>
=============================================================================
