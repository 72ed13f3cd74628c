SPECIFICATION Spec
CONSTANTS
  Ids = {a, b}
  None = None
  KeepRecent = 1
  MaxConversations = 1
  MaxSteps = 2
  MaxCalls = 2
  MaxRequests = 2
  MaxConcurrent = 2
INVARIANT TypeOK
INVARIANT ForgottenOnlyIfExposed
INVARIANT StoreWithinCap
INVARIANT CallsGetResults
SYMMETRY InterchangeableIds
CHECK_DEADLOCK FALSE
