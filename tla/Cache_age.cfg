SPECIFICATION Spec
CONSTANTS
  Requests = {q1, q2}
  Keys = {plain, refreshed}
  Refreshing = {refreshed}
  Warmed = {plain}
  None = None
  Ttl = 1
  SummaryTtl = 1
  MaxWork = 1
  Horizon = 7
INVARIANT ServedAge
SYMMETRY InterchangeableRequests
