SPECIFICATION FairSpec
CONSTANTS
  u = u
  v = v
  a = a
  c1 = c1
  c2 = c2
  Users <- MCUsers
  Addresses = {a}
  Burst <- MCBurst
  Period <- MCPeriod
  MaxUsers = 1
  MaxRacers = 2
  Ttl = 2
  Callers = {c1, c2}
  UserOf <- MCUserOf
  Threshold = 2
  ResetTimeout = 2
  MaxAttempts = 2
INVARIANT TypeOK
INVARIANT WindowBound
PROPERTY OpensOnlyAfterStreak
PROPERTY CalmBeforeTraffic
PROPERTY Recovers
