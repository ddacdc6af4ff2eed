CONSTANTS
  Requests = {r1, r2}
  Keys = {k1}
  NoKey = NoKey
  Baskets = {b1, b2}
  None = None
  Stock = 2
  Money = 2
  MaxRetries = 1
  MaxFaults = 1
  MaxSlow = 1
  MaxDays = 1
  r1 = r1
  r2 = r2
  k1 = k1
  b1 = b1
  b2 = b2
SPECIFICATION FairSpec
INVARIANTS
  NeverOversold
  OneOrderPerKey
  ErrorMeansNoOrder
PROPERTIES
  ImplementsService
  RequestsAnswered
  LockGivenBack
CHECK_DEADLOCK FALSE
