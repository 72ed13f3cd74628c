---------------------------- MODULE ChatAdmission ----------------------------
(***************************************************************************)
(* What stands between a chat request and the LLM provider: the user's      *)
(* token bucket decides whether a run begins (handleChat), the breaker all  *)
(* runs share decides each of its calls (RunStreamWithRegistry).  Logins    *)
(* spend from buckets of their own kind, on the same clock.                 *)
(***************************************************************************)
EXTENDS RateLimits, CircuitBreaker

CONSTANT UserOf   \* the user of each run
ASSUME UserAssumption == UserOf \in [Callers -> Users]

vars == <<limits, breaker, calls>>

Init == LimitsInit /\ BreakerInit

\* handleChat looks for the limiter and may have to install one.
FirstRequest == (FindNone \/ Install) /\ UNCHANGED <<breaker, calls>>

\* handleChat lets the request in and its run begins.
Chat(r) == Admit(UserOf[r]) /\ Begin(r)

\* A request let in that is no POST, has no message or no body to parse: no run.
BadRequest(u) == Admit(u) /\ UNCHANGED <<breaker, calls>>

\* 429: no run.
TooManyRequests(u) == Refuse(u) /\ UNCHANGED <<breaker, calls>>

Run(r) == (Proceed(r) \/ Abandon(r)) /\ UNCHANGED limits

Tick == LimitsTick /\ BreakerTick

Next ==
  \/ \E r \in Callers : Chat(r) \/ Run(r)
  \/ \E u \in Users : BadRequest(u) \/ TooManyRequests(u)
  \/ \E a \in Addresses : Login(a) /\ UNCHANGED <<breaker, calls>>
  \/ FirstRequest
  \/ Sweep /\ UNCHANGED <<breaker, calls>>
  \/ Outage /\ UNCHANGED limits
  \/ Tick

Spec == Init /\ [][Next]_vars

\* Time passes, the provider's client returns from every attempt (it has a
\* timeout), and users do not stop sending proper requests, some of which get past
\* the limiter.
FairSpec ==
  /\ Spec
  /\ WF_vars(Tick)
  /\ \A r \in Callers : SF_vars(Chat(r)) /\ WF_vars(Proceed(r) /\ UNCHANGED limits)

TypeOK == LimitsTypeOK /\ BreakerTypeOK

\* Once the provider stays up and clients wait for their answers, the breaker
\* closes for good: no mixture of late failures and probes keeps it open.
Recovers ==
  (<>[]healthy /\ <>[][\A r \in Callers : ~ Abandon(r)]_vars) => <>[](state = "closed")
=============================================================================
