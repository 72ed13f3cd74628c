----------------------------- MODULE RateLimits -----------------------------
(***************************************************************************)
(* The token buckets that admit chat requests by user                       *)
(* (internal/dashboard/handlers_chat.go, internal/resilience/resilience.go) *)
(* and login attempts by address (internal/auth/rate_limit.go), with the    *)
(* sweeps that forget buckets.  A tick is a fraction of the time in which a *)
(* bucket earns one token.  A chat request that holds a bucket or a limiter *)
(* while it is dropped or replaced spends its token there: that spending is *)
(* not counted.                                                             *)
(***************************************************************************)
EXTENDS Integers, FiniteSets

CONSTANTS
  Users,      \* users of the chat
  Addresses,  \* client addresses of the login
  Burst,      \* maxTokens of each key (chat 20, login 5)
  Period,     \* ticks in which each key earns a token (chat 0.1 s, login 1 s)
  MaxUsers,   \* chat buckets kept before all of them are dropped (500)
  MaxRacers,  \* bound: chat requests under way that found no limiter yet
  Ttl         \* ticks after which the login sweep may forget an address (15 min)

Keys == Users \cup Addresses
Full(k) == Burst[k] * Period[k]
\* The age from which on nothing changes any more.
Oldest(k) == IF k \in Users THEN Full(k) ELSE Ttl + 1

ASSUME LimitsAssumption ==
  /\ Users \cap Addresses = {} /\ IsFiniteSet(Users)
  /\ Burst \in [Keys -> Nat \ {0}] /\ Period \in [Keys -> Nat \ {0}]
  /\ MaxUsers \in Nat /\ MaxRacers \in Nat /\ Ttl \in Nat
  /\ \A a \in Addresses : Ttl >= Full(a)

VARIABLES
  known,    \* keys that have a bucket
  tokens,   \* tokens of each bucket (0 where there is none)
  age,      \* ticks since the bucket was last asked (lastRefill, lastSeen), or 0
  limiter,  \* whether chat has its limiter (s.chatLimiter # nil)
  racing,   \* chat requests that found none and have yet to install theirs
  credit,   \* history: ticks a meter of Burst requests, one more per Period,
            \* has left for the key; a dropped chat bucket starts a new meter
  replaced  \* history: limiters replaced by such a request since the last drop

buckets == <<known, tokens, age, credit>>
limits == <<buckets, limiter, racing, replaced>>

AtMost(n, cap) == IF n > cap THEN cap ELSE n
Of(some, f) == [k \in Keys |-> IF k \in some THEN f[k] ELSE 0]

LimitsInit ==
  /\ known = {}
  /\ tokens = [k \in Keys |-> 0]
  /\ age = [k \in Keys |-> 0]
  /\ credit = [k \in Keys |-> Full(k)]
  /\ limiter = FALSE /\ racing = 0 /\ replaced = 0

\* The first requests find no limiter, and each of them installs its own: the check
\* is not synchronised, so a limiter in use may be replaced by a fresh one.
FindNone ==
  /\ ~ limiter /\ racing < MaxRacers
  /\ racing' = racing + 1
  /\ UNCHANGED <<buckets, limiter, replaced>>

Install ==
  /\ racing > 0
  /\ racing' = racing - 1 /\ limiter' = TRUE
  /\ known' = known \ Users
  /\ tokens' = Of(known', tokens) /\ age' = Of(known', age)
  /\ replaced' = IF limiter THEN replaced + 1 ELSE replaced
  /\ UNCHANGED credit

\* What Allow finds: whole tokens for the time since the last request, granted or
\* refused; a key that is not known gets a full bucket.
Available(k) ==
  IF k \in known THEN AtMost(tokens[k] + (age[k] \div Period[k]), Burst[k]) ELSE Burst[k]

SpendUntimed(k) ==                               \* mutant: time counts again
  LET have == Available(k) IN
  /\ tokens' = Of(known', [tokens EXCEPT ![k] = IF have > 0 THEN have - 1 ELSE 0])
  /\ age' = Of(known', age)
\* Allow sets the clock of the bucket either way; the fraction of a token the time
\* was worth is lost.
Spend(k) ==
  LET have == Available(k) IN
  /\ tokens' = Of(known', [tokens EXCEPT ![k] = IF have > 0 THEN have - 1 ELSE 0])
  /\ age' = Of(known', [age EXCEPT ![k] = 0])

Metered(k) == IF Available(k) > 0 THEN [credit EXCEPT ![k] = @ - Period[k]] ELSE credit

\* userRateLimiter.Allow, for a request that is refused and for one that is let
\* in, which then calls Cleanup.
Refuse(u) ==
  /\ limiter /\ Available(u) = 0
  /\ known' = known \cup {u}
  /\ Spend(u)
  /\ UNCHANGED <<credit, limiter, racing, replaced>>

Admit(u) ==
  LET many == Cardinality((known \cup {u}) \cap Users) > MaxUsers IN
  /\ limiter /\ Available(u) > 0
  /\ known' = (known \cup {u}) \ (IF many THEN Users ELSE {})
  /\ Spend(u)
  /\ credit' = IF many THEN [k \in Keys |-> IF k \in Users THEN Full(k) ELSE credit[k]]
                       ELSE Metered(u)
  /\ replaced' = IF many THEN 0 ELSE replaced
  /\ UNCHANGED <<limiter, racing>>

\* ipRateLimiter.Allow.
Login(a) ==
  /\ known' = known \cup {a}
  /\ Spend(a)
  /\ credit' = Metered(a)
  /\ UNCHANGED <<limiter, racing, replaced>>

\* ipRateLimiter.cleanup: every address not seen for longer than ttl goes.
Sweep ==
  /\ \E a \in known \cap Addresses : age[a] > Ttl
  /\ known' = {k \in known : k \in Addresses => age[k] <= Ttl}
  /\ tokens' = Of(known', tokens) /\ age' = Of(known', age)
  /\ UNCHANGED <<credit, limiter, racing, replaced>>

LimitsTick ==
  /\ age' = Of(known, [k \in Keys |-> AtMost(age[k] + 1, Oldest(k))])
  /\ credit' = [k \in Keys |-> AtMost(credit[k] + 1, Full(k))]
  /\ UNCHANGED <<known, tokens, limiter, racing, replaced>>

LimitsTypeOK ==
  /\ known \subseteq Keys
  /\ tokens \in [Keys -> Nat] /\ \A k \in Keys : tokens[k] <= Burst[k]
  /\ age \in [Keys -> Nat] /\ \A k \in Keys : age[k] <= Oldest(k)
  /\ credit \in [Keys -> Int] /\ \A k \in Keys : credit[k] <= Full(k)
  /\ limiter \in BOOLEAN /\ racing \in Nat /\ replaced \in Nat

\* What the limiters replaced have given a user beyond the meter: a burst each.
Excess(k) == IF k \in Users THEN replaced * Full(k) ELSE 0

\* In any stretch of time since all chat buckets were last dropped at once, a key is
\* admitted at most Burst times and once more per Period, however its requests are
\* spaced and whatever addresses the login sweep forgets; each replacement of the
\* chat limiter by a racing first request gives a user one burst on top of that, and
\* no more: the meter is never overdrawn by more than those bursts.
WindowBound == \A k \in Keys : credit[k] + Excess(k) >= 0
=============================================================================
