------------------------ MODULE ChatAdmission_proofs ------------------------
(***************************************************************************)
(* Proofs about ChatAdmission for any users, addresses, bursts, periods,    *)
(* thresholds and timeouts.                                                 *)
(***************************************************************************)
EXTENDS ChatAdmission, TLAPS

-----------------------------------------------------------------------------
(* The token buckets.                                                       *)

\* The meter, with the bursts of replaced limiters, has at least what the bucket
\* would grant, or a full bucket for a key that has none.
MeterCovers ==
  \A k \in Keys :
    credit[k] + Excess(k) >=
      IF k \in known THEN AtMost(tokens[k] * Period[k] + age[k], Full(k)) ELSE Full(k)

\* No chat bucket without the limiter.
NoLimiterNoBuckets == limiter \/ known \cap Users = {}

LimitsInv == LimitsTypeOK /\ MeterCovers /\ NoLimiterNoBuckets

LEMMA KeyFacts ==
  ASSUME NEW k \in Keys
  PROVE  /\ Burst[k] \in Nat \ {0} /\ Period[k] \in Nat \ {0}
         /\ Full(k) \in Nat /\ Full(k) = Burst[k] * Period[k]
         /\ Oldest(k) \in Nat /\ Oldest(k) >= Full(k)
         /\ k \notin Users => Oldest(k) = Ttl + 1 /\ Ttl >= Full(k)
  <1>1. Burst[k] \in Nat \ {0} /\ Period[k] \in Nat \ {0} /\ Ttl \in Nat
    BY LimitsAssumption
  <1>2. Full(k) \in Nat /\ Full(k) = Burst[k] * Period[k]
    BY <1>1 DEF Full
  <1>3. k \notin Users => Ttl >= Full(k)
    BY LimitsAssumption DEF Keys
  <1>4. QED
    BY <1>1, <1>2, <1>3 DEF Oldest

\* Whole tokens are worth no more than the time they are earned in.
LEMMA Earned ==
  ASSUME NEW a \in Nat, NEW p \in Nat \ {0}
  PROVE  a \div p \in Nat /\ (a \div p) * p <= a
  OBVIOUS

LEMMA Products ==
  ASSUME NEW a \in Nat, NEW b \in Nat, NEW p \in Nat
  PROVE  /\ a * p \in Nat /\ (a + b) * p = a * p + b * p
         /\ a <= b => a * p <= b * p
         /\ a > 0 => a - 1 \in Nat /\ (a - 1) * p = a * p - p
  OBVIOUS

\* A replaced limiter is worth a burst to a user and nothing to an address.
LEMMA ExcessFacts ==
  ASSUME LimitsTypeOK, NEW k \in Keys
  PROVE  /\ Excess(k) \in Nat
         /\ replaced * Full(k) \in Nat /\ (replaced + 1) * Full(k) = replaced * Full(k) + Full(k)
  <1>1. replaced \in Nat /\ Full(k) \in Nat
    BY KeyFacts DEF LimitsTypeOK
  <1>2. replaced * Full(k) \in Nat /\ (replaced + 1) * Full(k) = replaced * Full(k) + 1 * Full(k)
    BY <1>1, Products
  <1>3. QED
    BY <1>1, <1>2 DEF Excess

\* What Allow finds in a bucket is covered by the meter.
LEMMA AvailableCovered ==
  ASSUME LimitsInv, NEW k \in Keys
  PROVE  /\ Available(k) \in Nat /\ Available(k) <= Burst[k]
         /\ Available(k) * Period[k] \in Nat
         /\ Available(k) * Period[k] <= credit[k] + Excess(k)
         /\ Available(k) * Period[k] <= Full(k)
  <1> DEFINE d == age[k] \div Period[k]
  <1>1. /\ Burst[k] \in Nat \ {0} /\ Period[k] \in Nat \ {0}
        /\ Full(k) \in Nat /\ Full(k) = Burst[k] * Period[k]
    BY KeyFacts
  <1>2. tokens[k] \in Nat /\ age[k] \in Nat /\ credit[k] \in Int /\ Excess(k) \in Nat
    BY ExcessFacts DEF LimitsInv, LimitsTypeOK
  <1>3. credit[k] + Excess(k) >= IF k \in known THEN AtMost(tokens[k] * Period[k] + age[k], Full(k)) ELSE Full(k)
    BY DEF LimitsInv, MeterCovers
  <1>4. CASE k \notin known
    <2>1. Available(k) = Burst[k]
      BY <1>4 DEF Available
    <2>2. QED
      BY <1>1, <1>2, <1>3, <1>4, <2>1
  <1>5. CASE k \in known
    <2>1. d \in Nat /\ d * Period[k] <= age[k]
      BY <1>1, <1>2, Earned
    <2> HIDE DEF d
    <2>2. /\ tokens[k] + d \in Nat
          /\ (tokens[k] + d) * Period[k] \in Nat
          /\ (tokens[k] + d) * Period[k] <= tokens[k] * Period[k] + age[k]
      <3>1. /\ (tokens[k] + d) * Period[k] = tokens[k] * Period[k] + d * Period[k]
            /\ tokens[k] * Period[k] \in Nat /\ d * Period[k] \in Nat
        BY <1>1, <1>2, <2>1, Products
      <3>2. QED
        BY <1>2, <2>1, <3>1
    <2>3. Available(k) = AtMost(tokens[k] + d, Burst[k])
      BY <1>5 DEF Available, d
    <2>4. credit[k] + Excess(k) >= AtMost(tokens[k] * Period[k] + age[k], Full(k))
      BY <1>3, <1>5
    <2>5. CASE tokens[k] + d <= Burst[k]
      <3>1. Available(k) = tokens[k] + d
        BY <1>1, <2>2, <2>3, <2>5 DEF AtMost
      <3>2. (tokens[k] + d) * Period[k] <= Burst[k] * Period[k]
        BY <1>1, <2>2, <2>5, Products
      <3>3. tokens[k] * Period[k] \in Nat
        BY <1>1, <1>2, Products
      <3>4. QED
        BY <1>1, <1>2, <2>2, <2>4, <2>5, <3>1, <3>2, <3>3 DEF AtMost
    <2>6. CASE ~ (tokens[k] + d <= Burst[k])
      <3>1. Available(k) = Burst[k]
        BY <1>1, <2>2, <2>3, <2>6 DEF AtMost
      <3>2. Burst[k] * Period[k] <= (tokens[k] + d) * Period[k]
        BY <1>1, <2>2, <2>6, Products
      <3>3. tokens[k] * Period[k] \in Nat
        BY <1>1, <1>2, Products
      <3>4. QED
        BY <1>1, <1>2, <2>2, <2>4, <3>1, <3>2, <3>3 DEF AtMost
    <2>7. QED
      BY <2>5, <2>6
  <1>6. QED
    BY <1>4, <1>5

\* The bucket that is asked is left with what the meter still covers.
LEMMA SpendFacts ==
  ASSUME LimitsInv, NEW k \in Keys, Spend(k)
  PROVE  /\ tokens' \in [Keys -> Nat] /\ age' \in [Keys -> Nat] /\ Metered(k) \in [Keys -> Int]
         /\ \A j \in Keys : /\ tokens'[j] <= Burst[j] /\ age'[j] <= Oldest(j)
                            /\ Metered(k)[j] <= Full(j)
                            /\ j # k => /\ Metered(k)[j] = credit[j]
                                        /\ j \in known' => tokens'[j] = tokens[j] /\ age'[j] = age[j]
         /\ k \in known' =>
              Metered(k)[k] + Excess(k) >= AtMost(tokens'[k] * Period[k] + age'[k], Full(k))
  <1> DEFINE have == Available(k)
             left == IF have > 0 THEN have - 1 ELSE 0
  <1>1. /\ have \in Nat /\ have <= Burst[k]
        /\ have * Period[k] \in Nat /\ have * Period[k] <= credit[k] + Excess(k)
        /\ have * Period[k] <= Full(k)
    BY AvailableCovered
  <1>2. /\ Burst[k] \in Nat \ {0} /\ Period[k] \in Nat \ {0} /\ Full(k) \in Nat
        /\ Excess(k) \in Nat
    BY KeyFacts, ExcessFacts DEF LimitsInv
  <1>3. /\ tokens' = [j \in Keys |-> IF j \in known' THEN [tokens EXCEPT ![k] = left][j] ELSE 0]
        /\ age' = [j \in Keys |-> IF j \in known' THEN [age EXCEPT ![k] = 0][j] ELSE 0]
        /\ Metered(k) = IF have > 0 THEN [credit EXCEPT ![k] = @ - Period[k]] ELSE credit
    BY DEF Spend, Metered, Of
  <1>4. have > 0 => have - 1 \in Nat /\ (have - 1) * Period[k] = have * Period[k] - Period[k]
    BY <1>1, <1>2, Products
  <1>5. left \in Nat /\ left <= Burst[k]
    BY <1>1, <1>2, <1>4
  <1>6. /\ tokens \in [Keys -> Nat] /\ age \in [Keys -> Nat] /\ credit \in [Keys -> Int]
        /\ \A j \in Keys : tokens[j] <= Burst[j] /\ age[j] <= Oldest(j) /\ credit[j] <= Full(j)
    BY DEF LimitsInv, LimitsTypeOK
  <1>7. \A j \in Keys : Burst[j] \in Nat /\ Oldest(j) \in Nat /\ Full(j) \in Nat
    BY KeyFacts
  <1>8. k \in known' => tokens'[k] = left /\ age'[k] = 0
    BY <1>3, <1>6
  <1>9. Metered(k)[k] = IF have > 0 THEN credit[k] - Period[k] ELSE credit[k]
    BY <1>3, <1>6
  <1> HIDE DEF left
  <1>10. \A j \in Keys : j # k => /\ Metered(k)[j] = credit[j]
                                  /\ j \in known' => tokens'[j] = tokens[j] /\ age'[j] = age[j]
    BY <1>3, <1>6
  <1>11. tokens' \in [Keys -> Nat] /\ age' \in [Keys -> Nat]
    BY <1>3, <1>5, <1>6
  <1>12. Metered(k) \in [Keys -> Int]
    BY <1>2, <1>3, <1>6
  <1>13. \A j \in Keys : tokens'[j] <= Burst[j] /\ age'[j] <= Oldest(j)
    BY <1>3, <1>5, <1>6, <1>7
  <1>14. \A j \in Keys : Metered(k)[j] <= Full(j)
    BY <1>2, <1>6, <1>9, <1>10
  <1>15. ASSUME k \in known'
         PROVE  Metered(k)[k] + Excess(k) >= AtMost(tokens'[k] * Period[k] + age'[k], Full(k))
    <2>1. CASE have > 0
      <3>1. tokens'[k] * Period[k] + age'[k] = have * Period[k] - Period[k]
        BY <1>1, <1>2, <1>4, <1>8, <1>15, <2>1 DEF left
      <3>2. QED
        BY <1>1, <1>2, <1>6, <1>9, <2>1, <3>1 DEF AtMost
    <2>2. CASE ~ (have > 0)
      <3>1. tokens'[k] * Period[k] + age'[k] = 0 /\ credit[k] + Excess(k) >= 0
        BY <1>1, <1>2, <1>6, <1>8, <1>15, <2>2 DEF left
      <3>2. QED
        BY <1>2, <1>6, <1>9, <2>2, <3>1 DEF AtMost
    <2>3. QED
      BY <2>1, <2>2
  <1>16. QED
    BY <1>10, <1>11, <1>12, <1>13, <1>14, <1>15

\* A request for a token, granted or refused, of a bucket that stays.
LEMMA SpendKeeps ==
  ASSUME LimitsInv, NEW k \in Keys, k \in Users => limiter, Spend(k), known' = known \cup {k},
         credit' = Metered(k), UNCHANGED <<limiter, racing, replaced>>
  PROVE  LimitsInv'
  <1>1. /\ tokens' \in [Keys -> Nat] /\ age' \in [Keys -> Nat] /\ credit' \in [Keys -> Int]
        /\ \A j \in Keys : /\ tokens'[j] <= Burst[j] /\ age'[j] <= Oldest(j)
                           /\ credit'[j] <= Full(j)
                           /\ j # k => /\ credit'[j] = credit[j]
                                       /\ j \in known' => tokens'[j] = tokens[j] /\ age'[j] = age[j]
        /\ credit'[k] + Excess(k) >= AtMost(tokens'[k] * Period[k] + age'[k], Full(k))
    BY SpendFacts
  <1>2. LimitsTypeOK'
    BY <1>1 DEF LimitsInv, LimitsTypeOK
  <1>3. ASSUME NEW j \in Keys
        PROVE  credit'[j] + Excess(j)' >=
                 IF j \in known' THEN AtMost(tokens'[j] * Period[j] + age'[j], Full(j)) ELSE Full(j)
    <2>1. Excess(j)' = Excess(j)
      BY DEF Excess
    <2>2. CASE j = k
      BY <1>1, <2>1, <2>2
    <2>3. CASE j # k
      <3>1. j \in known' <=> j \in known
        BY <2>3
      <3>2. QED
        BY <1>1, <2>1, <2>3, <3>1 DEF LimitsInv, MeterCovers
    <2>4. QED
      BY <2>2, <2>3
  <1>4. NoLimiterNoBuckets'
    BY DEF LimitsInv, NoLimiterNoBuckets
  <1>5. QED
    BY <1>2, <1>3, <1>4 DEF LimitsInv, MeterCovers

\* A step that forgets buckets, and whatever the meter does not cover without them.
LEMMA ForgetKeeps ==
  ASSUME LimitsInv, known' \subseteq known, tokens' = Of(known', tokens), age' = Of(known', age),
         credit' \in [Keys -> Int], \A k \in Keys : credit'[k] <= Full(k),
         limiter' \in BOOLEAN, racing' \in Nat, replaced' \in Nat,
         limiter' \/ known' \cap Users = {},
         \A k \in Keys : IF k \in known' THEN credit'[k] + Excess(k)' >= credit[k] + Excess(k)
                                         ELSE credit'[k] + Excess(k)' >= Full(k)
  PROVE  LimitsInv'
  <1>1. /\ tokens \in [Keys -> Nat] /\ age \in [Keys -> Nat] /\ credit \in [Keys -> Int]
        /\ \A k \in Keys : tokens[k] <= Burst[k] /\ age[k] <= Oldest(k)
    BY DEF LimitsInv, LimitsTypeOK
  <1>2. \A k \in Keys : Burst[k] \in Nat /\ Oldest(k) \in Nat /\ Full(k) \in Nat /\ Period[k] \in Nat
    BY KeyFacts
  <1>3. /\ tokens' = [k \in Keys |-> IF k \in known' THEN tokens[k] ELSE 0]
        /\ age' = [k \in Keys |-> IF k \in known' THEN age[k] ELSE 0]
    BY DEF Of
  <1>4. LimitsTypeOK'
    BY <1>1, <1>2, <1>3 DEF LimitsInv, LimitsTypeOK
  <1>5. ASSUME NEW k \in Keys
        PROVE  credit'[k] + Excess(k)' >=
                 IF k \in known' THEN AtMost(tokens'[k] * Period[k] + age'[k], Full(k)) ELSE Full(k)
    <2>1. CASE k \in known'
      <3>1. tokens'[k] = tokens[k] /\ age'[k] = age[k] /\ k \in known
        BY <1>3, <2>1
      <3>2. credit[k] + Excess(k) >= AtMost(tokens[k] * Period[k] + age[k], Full(k))
        BY <3>1 DEF LimitsInv, MeterCovers
      <3>3. /\ credit[k] \in Int /\ credit'[k] \in Int
            /\ Excess(k) \in Nat /\ Excess(k)' \in Nat
        <4>1. replaced' * Full(k) \in Nat
          BY <1>2, Products
        <4>2. QED
          BY <1>1, <4>1, ExcessFacts DEF LimitsInv, Excess
      <3>4. AtMost(tokens[k] * Period[k] + age[k], Full(k)) \in Int
        <4>1. tokens[k] * Period[k] \in Nat
          BY <1>1, <1>2, Products
        <4>2. QED
          BY <1>1, <1>2, <4>1 DEF AtMost
      <3>5. QED
        BY <2>1, <3>1, <3>2, <3>3, <3>4
    <2>2. CASE k \notin known'
      BY <2>2
    <2>3. QED
      BY <2>1, <2>2
  <1>6. QED
    BY <1>4, <1>5 DEF LimitsInv, MeterCovers, NoLimiterNoBuckets

LEMMA FindNoneKeeps ==
  ASSUME LimitsInv, FindNone
  PROVE  LimitsInv'
  <1>1. racing' \in Nat
    BY DEF FindNone, LimitsInv, LimitsTypeOK
  <1>2. QED
    BY <1>1 DEF FindNone, buckets, LimitsInv, LimitsTypeOK, MeterCovers, NoLimiterNoBuckets, Excess

\* The limiter that is installed is full: the first replaces none, and finds no
\* bucket; any other is worth a burst to each user.
LEMMA InstallKeeps ==
  ASSUME LimitsInv, Install
  PROVE  LimitsInv'
  <1>1. /\ racing' = racing - 1 /\ racing > 0 /\ limiter' = TRUE /\ credit' = credit
        /\ known' = known \ Users
        /\ tokens' = Of(known', tokens) /\ age' = Of(known', age)
        /\ replaced' = IF limiter THEN replaced + 1 ELSE replaced
    BY DEF Install
  <1>2. LimitsTypeOK /\ racing \in Nat /\ replaced \in Nat
    BY DEF LimitsInv, LimitsTypeOK
  <1>3. racing' \in Nat /\ replaced' \in Nat
    BY <1>1, <1>2
  <1>4. ASSUME NEW k \in Keys
        PROVE  IF k \in known' THEN credit'[k] + Excess(k)' >= credit[k] + Excess(k)
                               ELSE credit'[k] + Excess(k)' >= Full(k)
    <2>1. /\ credit[k] \in Int /\ Full(k) \in Nat /\ Excess(k) \in Nat
          /\ replaced * Full(k) \in Nat /\ (replaced + 1) * Full(k) = replaced * Full(k) + Full(k)
      BY <1>2, KeyFacts, ExcessFacts DEF LimitsInv, LimitsTypeOK
    <2>2. CASE k \notin Users
      <3>1. Excess(k)' = Excess(k) /\ (k \in known' <=> k \in known)
        BY <1>1, <2>2 DEF Excess
      <3>2. credit[k] + Excess(k) >= IF k \in known THEN AtMost(tokens[k] * Period[k] + age[k], Full(k)) ELSE Full(k)
        BY DEF LimitsInv, MeterCovers
      <3>3. QED
        BY <1>1, <2>1, <3>1, <3>2
    <2>3. CASE k \in Users /\ limiter
      <3>1. Excess(k)' = Excess(k) + Full(k) /\ k \notin known'
        BY <1>1, <2>1, <2>3 DEF Excess
      <3>2. Available(k) * Period[k] \in Nat /\ Available(k) * Period[k] <= credit[k] + Excess(k)
        BY AvailableCovered
      <3>3. credit[k] + Excess(k) >= 0
        BY <2>1, <3>2
      <3>4. QED
        BY <1>1, <2>1, <3>1, <3>3
    <2>4. CASE k \in Users /\ ~ limiter
      <3>1. Excess(k)' = Excess(k) /\ k \notin known /\ k \notin known'
        BY <1>1, <2>4 DEF Excess, LimitsInv, NoLimiterNoBuckets
      <3>2. credit[k] + Excess(k) >= Full(k)
        BY <3>1 DEF LimitsInv, MeterCovers
      <3>3. QED
        BY <1>1, <3>1, <3>2
    <2>5. QED
      BY <2>2, <2>3, <2>4
  <1>5. credit' \in [Keys -> Int] /\ \A k \in Keys : credit'[k] <= Full(k)
    BY <1>1 DEF LimitsInv, LimitsTypeOK
  <1>6. known' \subseteq known /\ limiter' \in BOOLEAN /\ (limiter' \/ known' \cap Users = {})
    BY <1>1
  <1>7. QED
    BY <1>1, <1>3, <1>4, <1>5, <1>6, ForgetKeeps

LEMMA RefuseKeeps ==
  ASSUME LimitsInv, NEW u \in Users, Refuse(u)
  PROVE  LimitsInv'
  <1>1. /\ u \in Keys /\ limiter /\ Available(u) = 0 /\ known' = known \cup {u} /\ Spend(u)
        /\ UNCHANGED <<limiter, racing, replaced>>
    BY DEF Refuse, Keys
  <1>2. credit' = Metered(u)
    BY <1>1 DEF Refuse, Metered
  <1>3. QED
    BY <1>1, <1>2, SpendKeeps

LEMMA LoginKeeps ==
  ASSUME LimitsInv, NEW a \in Addresses, Login(a)
  PROVE  LimitsInv'
  <1>1. a \in Keys /\ a \notin Users
    BY LimitsAssumption DEF Keys
  <1>2. QED
    BY <1>1, SpendKeeps DEF Login

\* A request that is let in may make the cleanup drop every chat bucket.
LEMMA AdmitKeeps ==
  ASSUME LimitsInv, NEW u \in Users, Admit(u)
  PROVE  LimitsInv'
  <1> DEFINE many == Cardinality((known \cup {u}) \cap Users) > MaxUsers
  <1>1. /\ u \in Keys /\ limiter /\ Spend(u)
        /\ known' = (known \cup {u}) \ (IF many THEN Users ELSE {})
        /\ credit' = IF many THEN [k \in Keys |-> IF k \in Users THEN Full(k) ELSE credit[k]]
                             ELSE Metered(u)
        /\ replaced' = IF many THEN 0 ELSE replaced
        /\ UNCHANGED <<limiter, racing>>
    BY DEF Admit, Keys
  <1> HIDE DEF many
  <1>2. CASE ~ many
    <2>1. known' = known \cup {u} /\ credit' = Metered(u) /\ replaced' = replaced
      BY <1>1, <1>2
    <2>2. QED
      BY <1>1, <2>1, SpendKeeps
  <1>3. CASE many
    <2>1. /\ known' = known \ Users /\ replaced' = 0
          /\ credit' = [k \in Keys |-> IF k \in Users THEN Full(k) ELSE credit[k]]
      BY <1>1, <1>3
    <2>2. \A k \in Keys : Full(k) \in Nat
      BY KeyFacts
    <2>3. credit \in [Keys -> Int] /\ racing \in Nat /\ \A k \in Keys : credit[k] <= Full(k)
      BY DEF LimitsInv, LimitsTypeOK
    <2>4. tokens' = Of(known', tokens) /\ age' = Of(known', age)
      <3>1. u \notin known'
        BY <2>1
      <3>2. QED
        BY <1>1, <3>1 DEF Spend, Of, LimitsInv, LimitsTypeOK
    <2>5. credit' \in [Keys -> Int] /\ \A k \in Keys : credit'[k] <= Full(k)
      BY <2>1, <2>2, <2>3
    <2>6. ASSUME NEW k \in Keys
          PROVE  IF k \in known' THEN credit'[k] + Excess(k)' >= credit[k] + Excess(k)
                                 ELSE credit'[k] + Excess(k)' >= Full(k)
      <3>1. CASE k \in Users
        <4>1. Excess(k)' = 0 /\ credit'[k] = Full(k) /\ k \notin known'
          BY <2>1, <2>2, <3>1 DEF Excess
        <4>2. QED
          BY <2>2, <4>1
      <3>2. CASE k \notin Users
        <4>1. /\ Excess(k) = 0 /\ Excess(k)' = 0 /\ credit'[k] = credit[k]
              /\ k \in known' <=> k \in known
          BY <2>1, <3>2 DEF Excess
        <4>2. k \notin known => credit[k] + Excess(k) >= Full(k)
          BY DEF LimitsInv, MeterCovers
        <4>3. QED
          BY <2>3, <4>1, <4>2
      <3>3. QED
        BY <3>1, <3>2
    <2>7. known' \subseteq known /\ limiter' \in BOOLEAN /\ racing' \in Nat /\ replaced' \in Nat /\ limiter'
      BY <1>1, <2>1, <2>3
    <2>8. QED
      BY <2>4, <2>5, <2>6, <2>7, ForgetKeeps
  <1>4. QED
    BY <1>2, <1>3

\* An address that the sweep forgets had earned its whole burst back.
LEMMA SweepKeeps ==
  ASSUME LimitsInv, Sweep
  PROVE  LimitsInv'
  <1>1. /\ known' = {k \in known : k \in Addresses => age[k] <= Ttl} /\ credit' = credit
        /\ tokens' = Of(known', tokens) /\ age' = Of(known', age)
        /\ limiter' = limiter /\ racing' = racing /\ replaced' = replaced
    BY DEF Sweep
  <1>2. /\ credit' \in [Keys -> Int] /\ \A k \in Keys : credit'[k] <= Full(k)
        /\ limiter' \in BOOLEAN /\ racing' \in Nat /\ replaced' \in Nat
        /\ limiter' \/ known' \cap Users = {}
    BY <1>1 DEF LimitsInv, LimitsTypeOK, NoLimiterNoBuckets
  <1>3. ASSUME NEW j \in Keys
        PROVE  IF j \in known' THEN credit'[j] + Excess(j)' >= credit[j] + Excess(j)
                               ELSE credit'[j] + Excess(j)' >= Full(j)
    <2>1. credit[j] + Excess(j) >= IF j \in known THEN AtMost(tokens[j] * Period[j] + age[j], Full(j)) ELSE Full(j)
      BY DEF LimitsInv, MeterCovers
    <2>2. credit'[j] = credit[j] /\ Excess(j)' = Excess(j) /\ credit[j] \in Int /\ Excess(j) \in Nat
      BY <1>1, ExcessFacts DEF Excess, LimitsInv, LimitsTypeOK
    <2>3. CASE j \in known' \/ j \notin known
      <3>1. j \in known' <=> j \in known
        BY <1>1, <2>3
      <3>2. QED
        BY <2>1, <2>2, <3>1
    <2>4. CASE j \in known /\ j \notin known'
      <3>1. j \in Addresses /\ ~ (age[j] <= Ttl)
        BY <1>1, <2>4
      <3>2. /\ Ttl \in Nat /\ Ttl >= Full(j) /\ Full(j) \in Nat
        BY <3>1, KeyFacts, LimitsAssumption
      <3>3. tokens[j] \in Nat /\ Period[j] \in Nat /\ age[j] \in Nat
        BY KeyFacts DEF LimitsInv, LimitsTypeOK
      <3>4. tokens[j] * Period[j] \in Nat
        BY <3>3, Products
      <3>5. AtMost(tokens[j] * Period[j] + age[j], Full(j)) = Full(j)
        BY <3>1, <3>2, <3>3, <3>4 DEF AtMost
      <3>6. QED
        BY <2>1, <2>2, <2>4, <3>5
    <2>5. QED
      BY <2>3, <2>4
  <1>4. known' \subseteq known
    BY <1>1
  <1>5. QED
    BY <1>1, <1>2, <1>3, <1>4, ForgetKeeps

LEMMA TickKeeps ==
  ASSUME LimitsInv, LimitsTick
  PROVE  LimitsInv'
  <1>1. /\ known' = known /\ tokens' = tokens
        /\ limiter' = limiter /\ racing' = racing /\ replaced' = replaced
        /\ age' = [k \in Keys |-> IF k \in known THEN AtMost(age[k] + 1, Oldest(k)) ELSE 0]
        /\ credit' = [k \in Keys |-> AtMost(credit[k] + 1, Full(k))]
    BY DEF LimitsTick, Of
  <1>2. ASSUME NEW j \in Keys
        PROVE  /\ age'[j] \in Nat /\ age'[j] <= Oldest(j)
               /\ credit'[j] \in Int /\ credit'[j] <= Full(j)
               /\ credit'[j] + Excess(j)' >=
                    IF j \in known' THEN AtMost(tokens'[j] * Period[j] + age'[j], Full(j)) ELSE Full(j)
    <2>1. /\ tokens[j] \in Nat /\ Period[j] \in Nat /\ age[j] \in Nat /\ credit[j] \in Int
          /\ age[j] <= Oldest(j) /\ credit[j] <= Full(j)
          /\ Full(j) \in Nat /\ Oldest(j) \in Nat /\ Oldest(j) >= Full(j)
      BY KeyFacts DEF LimitsInv, LimitsTypeOK
    <2>2. tokens[j] * Period[j] \in Nat
      BY <2>1, Products
    <2>3. credit[j] + Excess(j) >= IF j \in known THEN AtMost(tokens[j] * Period[j] + age[j], Full(j)) ELSE Full(j)
      BY DEF LimitsInv, MeterCovers
    <2>4. /\ age'[j] = IF j \in known THEN AtMost(age[j] + 1, Oldest(j)) ELSE 0
          /\ credit'[j] = AtMost(credit[j] + 1, Full(j))
      BY <1>1
    <2>5. Excess(j)' = Excess(j) /\ Excess(j) \in Nat
      BY <1>1, ExcessFacts DEF Excess, LimitsInv
    <2>6. QED
      BY <1>1, <2>1, <2>2, <2>3, <2>4, <2>5 DEF AtMost
  <1>3. age' \in [Keys -> Nat] /\ credit' \in [Keys -> Int]
    BY <1>1, <1>2
  <1>4. LimitsTypeOK'
    BY <1>1, <1>2, <1>3 DEF LimitsInv, LimitsTypeOK
  <1>5. NoLimiterNoBuckets'
    BY <1>1 DEF LimitsInv, NoLimiterNoBuckets
  <1>6. QED
    BY <1>2, <1>4, <1>5 DEF LimitsInv, MeterCovers

LEMMA LimitsStart ==
  ASSUME LimitsInit
  PROVE  LimitsInv
  <1>1. \A k \in Keys : Full(k) \in Nat /\ Oldest(k) \in Nat /\ Burst[k] \in Nat
    BY KeyFacts
  <1>2. LimitsTypeOK
    <2>1. credit \in [Keys -> Int] /\ \A k \in Keys : credit[k] <= Full(k)
      BY <1>1 DEF LimitsInit
    <2>2. /\ tokens \in [Keys -> Nat] /\ \A k \in Keys : tokens[k] <= Burst[k]
          /\ age \in [Keys -> Nat] /\ \A k \in Keys : age[k] <= Oldest(k)
      BY <1>1 DEF LimitsInit
    <2>3. QED
      BY <2>1, <2>2 DEF LimitsInit, LimitsTypeOK
  <1>3. \A k \in Keys : Excess(k) \in Nat
    BY <1>2, ExcessFacts
  <1>4. MeterCovers
    BY <1>1, <1>3 DEF LimitsInit, MeterCovers
  <1>5. NoLimiterNoBuckets
    BY DEF LimitsInit, NoLimiterNoBuckets
  <1>6. QED
    BY <1>2, <1>4, <1>5 DEF LimitsInv

\* The meter is overdrawn by no more than the bursts of replaced limiters.
LEMMA MeterBound ==
  ASSUME LimitsInv
  PROVE  WindowBound
  <1>1. ASSUME NEW k \in Keys
        PROVE  credit[k] + Excess(k) >= 0
    <2>1. /\ Available(k) * Period[k] \in Nat /\ Available(k) * Period[k] <= credit[k] + Excess(k)
          /\ credit[k] \in Int /\ Excess(k) \in Nat
      BY AvailableCovered, ExcessFacts DEF LimitsInv, LimitsTypeOK
    <2>2. QED
      BY <2>1
  <1>2. QED
    BY <1>1 DEF WindowBound

-----------------------------------------------------------------------------
(* The circuit breaker.                                                     *)

\* While closed, the count is that of the failures since the last success, and
\* under the threshold; the breaker's clock is the time since the last failure; a
\* call that waits has attempts left.
BreakerInv ==
  /\ BreakerTypeOK
  /\ state = "closed" => failures = streak /\ streak < Threshold
  /\ quiet = calm
  /\ state = "half-open" => quiet > ResetTimeout
  /\ \A r \in Callers : call[r].pc = "waiting" => call[r].attempt < MaxAttempts

LEMMA BreakerStart ==
  ASSUME BreakerInit
  PROVE  BreakerInv
  BY BreakerAssumption DEF BreakerInit, BreakerInv, BreakerTypeOK, Away, Ages

LEMMA SuccessKeeps ==
  ASSUME BreakerInv, RecordSuccess
  PROVE  /\ state' \in {"closed", "open", "half-open"}
         /\ failures' \in 0 .. Threshold /\ streak' \in 0 .. Threshold
         /\ quiet' = quiet /\ calm' = calm
         /\ state' = "closed" => failures' = streak' /\ streak' < Threshold
         /\ state' # "half-open"
         /\ ~ (state = "closed" /\ state' = "open")
         /\ state # "closed" /\ calm <= ResetTimeout => state' # "closed"
  BY BreakerAssumption DEF BreakerInv, BreakerTypeOK, RecordSuccess, Ages

LEMMA FailureKeeps ==
  ASSUME BreakerInv, RecordFailure
  PROVE  /\ state' \in {"closed", "open", "half-open"}
         /\ failures' \in 0 .. Threshold /\ streak' \in 0 .. Threshold
         /\ quiet' = 0 /\ calm' = 0
         /\ state' = "closed" => failures' = streak' /\ streak' < Threshold
         /\ state' # "half-open"
         /\ state = "closed" /\ state' = "open" => streak' = Threshold
         /\ state # "closed" => state' # "closed"
  BY BreakerAssumption DEF BreakerInv, BreakerTypeOK, RecordFailure, Capped, Ages

\* The steps of the breaker and its callers, whatever happens to the buckets.
BreakerStep ==
  \/ \E r \in Callers : Begin(r) \/ Proceed(r) \/ Abandon(r)
  \/ Outage \/ BreakerTick \/ UNCHANGED <<breaker, calls>>

Opening == state = "closed" /\ state' = "open" => streak' = Threshold
Cooling ==
  state # "closed" /\ calm <= ResetTimeout =>
    /\ state' # "closed"
    /\ \A r \in Callers : call[r].pc = "ready" => call'[r].pc # "calling"

LEMMA CallEdit ==
  ASSUME BreakerInv, NEW r \in Callers,
         NEW pc \in {"away", "ready", "calling", "waiting"}, NEW n \in 0 .. MaxAttempts,
         pc = "waiting" => n < MaxAttempts,
         call' = [call EXCEPT ![r] = [pc |-> pc, attempt |-> n]]
  PROVE  /\ call' \in [Callers -> [pc : {"away", "ready", "calling", "waiting"},
                                   attempt : 0 .. MaxAttempts]]
         /\ \A q \in Callers : call'[q].pc = "waiting" => call'[q].attempt < MaxAttempts
         /\ call'[r].pc = pc
         /\ \A q \in Callers : q # r => call'[q] = call[q]
  BY BreakerAssumption DEF BreakerInv, BreakerTypeOK

\* A step that leaves the breaker alone and moves no run from its turn into a call.
LEMMA BreakerAlone ==
  ASSUME BreakerInv, UNCHANGED breaker,
         healthy' \in BOOLEAN,
         call' \in [Callers -> [pc : {"away", "ready", "calling", "waiting"},
                                attempt : 0 .. MaxAttempts]],
         \A q \in Callers : call'[q].pc = "waiting" => call'[q].attempt < MaxAttempts,
         \A q \in Callers : call[q].pc = "ready" => call'[q].pc # "calling"
  PROVE  BreakerInv' /\ Opening /\ Cooling
  <1>1. /\ state' = state /\ failures' = failures /\ quiet' = quiet
        /\ streak' = streak /\ calm' = calm
    BY DEF breaker
  <1>2. BreakerInv'
    BY <1>1 DEF BreakerInv, BreakerTypeOK
  <1>3. QED
    BY <1>1, <1>2 DEF Opening, Cooling

LEMMA CallRange ==
  ASSUME BreakerInv, NEW r \in Callers
  PROVE  /\ call[r].pc \in {"away", "ready", "calling", "waiting"}
         /\ call[r].attempt \in 0 .. MaxAttempts
         /\ call[r] = [pc |-> call[r].pc, attempt |-> call[r].attempt]
         /\ call[r].pc = "waiting" => call[r].attempt + 1 \in 0 .. MaxAttempts
         /\ 0 \in 0 .. MaxAttempts
         /\ healthy \in BOOLEAN
  BY BreakerAssumption DEF BreakerInv, BreakerTypeOK

LEMMA MoveTo ==
  ASSUME BreakerInv, NEW r \in Callers, NEW pc
  PROVE  [call EXCEPT ![r].pc = pc] = [call EXCEPT ![r] = [pc |-> pc, attempt |-> call[r].attempt]]
  <1>1. call[r] \in [pc : {"away", "ready", "calling", "waiting"}, attempt : 0 .. MaxAttempts]
    BY DEF BreakerInv, BreakerTypeOK
  <1>2. [call[r] EXCEPT !.pc = pc] = [pc |-> pc, attempt |-> call[r].attempt]
    BY <1>1
  <1>3. QED
    BY <1>2

LEMMA BeginStep ==
  ASSUME BreakerInv, NEW r \in Callers, Begin(r)
  PROVE  BreakerInv' /\ Opening /\ Cooling
  <1>1. /\ call[r].pc = "away" /\ UNCHANGED breaker /\ healthy' = healthy
        /\ call' = [call EXCEPT ![r] = [pc |-> "ready", attempt |-> call[r].attempt]]
    BY MoveTo DEF Begin
  <1>2. call[r].attempt \in 0 .. MaxAttempts /\ healthy \in BOOLEAN
    BY CallRange
  <1>3. /\ call' \in [Callers -> [pc : {"away", "ready", "calling", "waiting"},
                                  attempt : 0 .. MaxAttempts]]
        /\ \A q \in Callers : call'[q].pc = "waiting" => call'[q].attempt < MaxAttempts
        /\ call'[r].pc = "ready"
        /\ \A q \in Callers : q # r => call'[q] = call[q]
    BY <1>1, <1>2, CallEdit
  <1>4. \A q \in Callers : call[q].pc = "ready" => call'[q].pc # "calling"
    BY <1>1, <1>3
  <1>5. QED
    BY <1>1, <1>2, <1>3, <1>4, BreakerAlone

LEMMA AskStep ==
  ASSUME BreakerInv, NEW r \in Callers, Ask(r)
  PROVE  BreakerInv' /\ Opening /\ Cooling
  <1>1. /\ Allow /\ healthy' = healthy
        /\ failures' = failures /\ quiet' = quiet /\ streak' = streak /\ calm' = calm
        /\ call' = [call EXCEPT ![r] = [pc |-> "calling", attempt |-> 1]]
    BY DEF Ask
  <1>2. 1 \in 0 .. MaxAttempts
    BY BreakerAssumption
  <1>3. /\ call' \in [Callers -> [pc : {"away", "ready", "calling", "waiting"},
                                  attempt : 0 .. MaxAttempts]]
        /\ \A q \in Callers : call'[q].pc = "waiting" => call'[q].attempt < MaxAttempts
    BY <1>1, <1>2, CallEdit
  <1>4. \/ state' = state /\ state # "open"
        \/ state = "open" /\ quiet > ResetTimeout /\ state' = "half-open"
    BY <1>1 DEF Allow
  <1>5. BreakerInv'
    BY <1>1, <1>3, <1>4 DEF BreakerInv, BreakerTypeOK
  <1>6. ~ (state # "closed" /\ calm <= ResetTimeout)
    BY <1>4, BreakerAssumption DEF BreakerInv, BreakerTypeOK, Ages
  <1>7. QED
    BY <1>4, <1>5, <1>6 DEF Opening, Cooling

LEMMA FailFastStep ==
  ASSUME BreakerInv, NEW r \in Callers, FailFast(r)
  PROVE  BreakerInv' /\ Opening /\ Cooling
  <1>1. /\ UNCHANGED breaker /\ healthy' = healthy
        /\ call' = [call EXCEPT ![r] = [pc |-> "away", attempt |-> 0]]
    BY DEF FailFast, Away
  <1>2. 0 \in 0 .. MaxAttempts /\ healthy \in BOOLEAN
    BY CallRange
  <1>3. /\ call' \in [Callers -> [pc : {"away", "ready", "calling", "waiting"},
                                  attempt : 0 .. MaxAttempts]]
        /\ \A q \in Callers : call'[q].pc = "waiting" => call'[q].attempt < MaxAttempts
        /\ call'[r].pc = "away"
        /\ \A q \in Callers : q # r => call'[q] = call[q]
    BY <1>1, <1>2, CallEdit
  <1>4. \A q \in Callers : call[q].pc = "ready" => call'[q].pc # "calling"
    BY <1>3
  <1>5. QED
    BY <1>1, <1>2, <1>3, <1>4, BreakerAlone

LEMMA FailAttemptStep ==
  ASSUME BreakerInv, NEW r \in Callers, FailAttempt(r)
  PROVE  BreakerInv' /\ Opening /\ Cooling
  <1>1. /\ UNCHANGED breaker /\ healthy' = healthy /\ call[r].attempt < MaxAttempts
        /\ call' = [call EXCEPT ![r] = [pc |-> "waiting", attempt |-> call[r].attempt]]
    BY MoveTo DEF FailAttempt
  <1>2. call[r].attempt \in 0 .. MaxAttempts /\ healthy \in BOOLEAN
    BY CallRange
  <1>3. /\ call' \in [Callers -> [pc : {"away", "ready", "calling", "waiting"},
                                  attempt : 0 .. MaxAttempts]]
        /\ \A q \in Callers : call'[q].pc = "waiting" => call'[q].attempt < MaxAttempts
        /\ call'[r].pc = "waiting"
        /\ \A q \in Callers : q # r => call'[q] = call[q]
    BY <1>1, <1>2, CallEdit
  <1>4. \A q \in Callers : call[q].pc = "ready" => call'[q].pc # "calling"
    BY <1>3
  <1>5. QED
    BY <1>1, <1>2, <1>3, <1>4, BreakerAlone

LEMMA TryAgainStep ==
  ASSUME BreakerInv, NEW r \in Callers, TryAgain(r)
  PROVE  BreakerInv' /\ Opening /\ Cooling
  <1>1. /\ UNCHANGED breaker /\ healthy' = healthy /\ call[r].pc = "waiting"
        /\ call' = [call EXCEPT ![r] = [pc |-> "calling", attempt |-> call[r].attempt + 1]]
    BY DEF TryAgain
  <1>2. call[r].attempt + 1 \in 0 .. MaxAttempts /\ healthy \in BOOLEAN
    BY <1>1, CallRange
  <1>3. /\ call' \in [Callers -> [pc : {"away", "ready", "calling", "waiting"},
                                  attempt : 0 .. MaxAttempts]]
        /\ \A q \in Callers : call'[q].pc = "waiting" => call'[q].attempt < MaxAttempts
        /\ \A q \in Callers : q # r => call'[q] = call[q]
    BY <1>1, <1>2, CallEdit
  <1>4. \A q \in Callers : call[q].pc = "ready" => call'[q].pc # "calling"
    BY <1>1, <1>3
  <1>5. QED
    BY <1>1, <1>2, <1>3, <1>4, BreakerAlone

LEMMA SucceedStep ==
  ASSUME BreakerInv, NEW r \in Callers, Succeed(r)
  PROVE  BreakerInv' /\ Opening /\ Cooling
  <1>1. PICK pc \in {"away", "ready"} : call' = [call EXCEPT ![r] = [pc |-> pc, attempt |-> 0]]
    BY DEF Succeed
  <1>2. RecordSuccess /\ healthy' = healthy /\ call[r].pc = "calling"
    BY DEF Succeed
  <1>3. 0 \in 0 .. MaxAttempts
    BY BreakerAssumption
  <1>4. /\ call' \in [Callers -> [pc : {"away", "ready", "calling", "waiting"},
                                  attempt : 0 .. MaxAttempts]]
        /\ \A q \in Callers : call'[q].pc = "waiting" => call'[q].attempt < MaxAttempts
        /\ call'[r].pc = pc
        /\ \A q \in Callers : q # r => call'[q] = call[q]
    BY <1>1, <1>3, CallEdit
  <1>5. /\ state' \in {"closed", "open", "half-open"}
        /\ failures' \in 0 .. Threshold /\ streak' \in 0 .. Threshold
        /\ quiet' = quiet /\ calm' = calm
        /\ state' = "closed" => failures' = streak' /\ streak' < Threshold
        /\ state' # "half-open"
        /\ ~ (state = "closed" /\ state' = "open")
        /\ state # "closed" /\ calm <= ResetTimeout => state' # "closed"
    BY <1>2, SuccessKeeps
  <1>6. BreakerInv'
    BY <1>2, <1>4, <1>5 DEF BreakerInv, BreakerTypeOK
  <1>7. \A q \in Callers : call[q].pc = "ready" => call'[q].pc # "calling"
    BY <1>2, <1>4
  <1>8. QED
    BY <1>5, <1>6, <1>7 DEF Opening, Cooling

\* A call that reports a failure, the provider's or its client's.
LEMMA FailureStep ==
  ASSUME BreakerInv, NEW r \in Callers, FailCall(r) \/ Abandon(r)
  PROVE  BreakerInv' /\ Opening /\ Cooling
  <1>1. /\ RecordFailure /\ healthy' = healthy
        /\ call' = [call EXCEPT ![r] = [pc |-> "away", attempt |-> 0]]
    BY DEF FailCall, Abandon, Away
  <1>2. 0 \in 0 .. MaxAttempts
    BY BreakerAssumption
  <1>3. /\ call' \in [Callers -> [pc : {"away", "ready", "calling", "waiting"},
                                  attempt : 0 .. MaxAttempts]]
        /\ \A q \in Callers : call'[q].pc = "waiting" => call'[q].attempt < MaxAttempts
        /\ call'[r].pc = "away"
        /\ \A q \in Callers : q # r => call'[q] = call[q]
    BY <1>1, <1>2, CallEdit
  <1>4. /\ state' \in {"closed", "open", "half-open"}
        /\ failures' \in 0 .. Threshold /\ streak' \in 0 .. Threshold
        /\ quiet' = 0 /\ calm' = 0
        /\ state' = "closed" => failures' = streak' /\ streak' < Threshold
        /\ state' # "half-open"
        /\ state = "closed" /\ state' = "open" => streak' = Threshold
        /\ state # "closed" => state' # "closed"
    BY <1>1, FailureKeeps
  <1>5. 0 \in Ages
    BY BreakerAssumption DEF Ages
  <1>6. BreakerInv'
    BY <1>1, <1>3, <1>4, <1>5 DEF BreakerInv, BreakerTypeOK
  <1>7. \A q \in Callers : call[q].pc = "ready" => call'[q].pc # "calling"
    BY <1>3
  <1>8. QED
    BY <1>4, <1>6, <1>7 DEF Opening, Cooling

LEMMA OutageStep ==
  ASSUME BreakerInv, Outage
  PROVE  BreakerInv' /\ Opening /\ Cooling
  <1>1. healthy' \in BOOLEAN /\ UNCHANGED breaker /\ call' = call
    BY CallRange DEF Outage
  <1>2. QED
    BY <1>1, BreakerAlone DEF BreakerInv, BreakerTypeOK

LEMMA BreakerTickStep ==
  ASSUME BreakerInv, BreakerTick
  PROVE  BreakerInv' /\ Opening /\ Cooling
  <1>1. /\ quiet' = Capped(quiet + 1, ResetTimeout + 1) /\ calm' = Capped(calm + 1, ResetTimeout + 1)
        /\ state' = state /\ failures' = failures /\ call' = call
        /\ healthy' = healthy /\ streak' = streak
    BY DEF BreakerTick
  <1>2. /\ quiet' \in Ages /\ calm' \in Ages /\ quiet' = calm'
        /\ quiet > ResetTimeout => quiet' > ResetTimeout
    BY <1>1, BreakerAssumption DEF BreakerInv, BreakerTypeOK, Ages, Capped
  <1>3. BreakerInv'
    BY <1>1, <1>2 DEF BreakerInv, BreakerTypeOK
  <1>4. QED
    BY <1>1, <1>3 DEF Opening, Cooling

LEMMA BreakerKeeps ==
  ASSUME BreakerInv, BreakerStep
  PROVE  BreakerInv' /\ Opening /\ Cooling
  <1>1. CASE \E r \in Callers : Begin(r) \/ Proceed(r) \/ Abandon(r)
    <2>1. PICK r \in Callers : Begin(r) \/ Proceed(r) \/ Abandon(r)
      BY <1>1
    <2>2. QED
      BY <2>1, BeginStep, AskStep, FailFastStep, SucceedStep, FailAttemptStep, TryAgainStep, FailureStep
         DEF Proceed
  <1>2. CASE Outage
    BY <1>2, OutageStep
  <1>3. CASE BreakerTick
    BY <1>3, BreakerTickStep
  <1>4. CASE UNCHANGED <<breaker, calls>>
    BY <1>4 DEF BreakerInv, BreakerTypeOK, breaker, calls, Opening, Cooling
  <1>5. QED
    BY <1>1, <1>2, <1>3, <1>4 DEF BreakerStep

-----------------------------------------------------------------------------
(* The composition.                                                         *)

Inv == LimitsInv /\ BreakerInv

LEMMA InvStart == Init => Inv
  BY LimitsStart, BreakerStart DEF Init, Inv

\* Every step is a step of the breaker's side or leaves that side alone.
LEMMA BreakerSide ==
  ASSUME [Next]_vars
  PROVE  BreakerStep
  BY DEF Next, vars, Chat, BadRequest, TooManyRequests, FirstRequest, Run, Tick, BreakerStep

LEMMA LimitsSide ==
  ASSUME [Next]_vars, LimitsInv
  PROVE  LimitsInv'
  <1>1. CASE \E r \in Callers : Chat(r)
    <2>1. PICK r \in Callers : Chat(r)
      BY <1>1
    <2>2. UserOf[r] \in Users
      BY UserAssumption
    <2>3. QED
      BY <2>1, <2>2, AdmitKeeps DEF Chat
  <1>2. CASE UNCHANGED limits
    BY <1>2 DEF limits, buckets, LimitsInv, LimitsTypeOK, MeterCovers, NoLimiterNoBuckets, Excess
  <1>3. CASE \E u \in Users : BadRequest(u) \/ TooManyRequests(u)
    BY <1>3, AdmitKeeps, RefuseKeeps DEF BadRequest, TooManyRequests
  <1>4. CASE \E a \in Addresses : Login(a)
    BY <1>4, LoginKeeps
  <1>5. CASE Sweep
    BY <1>5, SweepKeeps
  <1>6. CASE Tick
    BY <1>6, TickKeeps DEF Tick
  <1>7. CASE FirstRequest
    BY <1>7, FindNoneKeeps, InstallKeeps DEF FirstRequest
  <1>8. QED
    BY <1>1, <1>2, <1>3, <1>4, <1>5, <1>6, <1>7 DEF Next, vars, Run

LEMMA InvKept ==
  ASSUME [Next]_vars, Inv
  PROVE  Inv' /\ Opening /\ Cooling
  BY BreakerSide, BreakerKeeps, LimitsSide DEF Inv

LEMMA Inductive == Spec => []Inv
  <1>1. Inv /\ [Next]_vars => Inv'
    BY InvKept
  <1>2. QED
    BY InvStart, <1>1, PTL DEF Spec

\* The state of the limiters and of the breaker keeps its types for any number of
\* users, runs, buckets and timeouts.
THEOREM TypeCorrect == Spec => []TypeOK
  <1>1. Inv => TypeOK
    BY DEF Inv, LimitsInv, BreakerInv, TypeOK
  <1>2. QED
    BY Inductive, <1>1, PTL

\* Since all chat buckets were last dropped, no key is admitted beyond its burst and
\* its rate in any stretch of time, but for a burst more to a user at each
\* replacement of the chat limiter by a racing first request; for any bursts,
\* periods and number of such requests (handleChat, RateLimiter.Allow,
\* ipRateLimiter.Allow, Cleanup).
THEOREM WithinWindow == Spec => []WindowBound
  <1>1. Inv => WindowBound
    BY MeterBound DEF Inv
  <1>2. QED
    BY Inductive, <1>1, PTL

\* The breaker opens from closed only on Threshold failures in a row, for any
\* number of runs that share it and any threshold (RecordFailure).
THEOREM Opens == Spec => OpensOnlyAfterStreak
  <1>1. Inv /\ [Next]_vars => [Opening]_<<breaker, calls>>
    BY InvKept
  <1>2. [Opening]_<<breaker, calls>> =>
          [state = "closed" /\ state' = "open" => streak' = Threshold]_<<breaker, calls>>
    BY DEF Opening
  <1>3. QED
    BY Inductive, <1>1, <1>2, PTL DEF Spec, OpensOnlyAfterStreak

\* An open breaker stays shut until resetTimeout after the last failure reported,
\* for any number of runs that share it and any timeout (Allow, RecordSuccess).
THEOREM Cooldown == Spec => CalmBeforeTraffic
  <1>1. Inv /\ [Next]_vars => [Cooling]_<<breaker, calls>>
    BY InvKept
  <1>2. [Cooling]_<<breaker, calls>> =>
          [state # "closed" /\ calm <= ResetTimeout =>
             /\ state' # "closed"
             /\ \A r \in Callers : call[r].pc = "ready" => call'[r].pc # "calling"]_<<breaker, calls>>
    BY DEF Cooling
  <1>3. QED
    BY Inductive, <1>1, <1>2, PTL DEF Spec, CalmBeforeTraffic
=============================================================================
