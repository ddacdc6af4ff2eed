CONSTANTS
  NumOrders = 2
  MaxPayments = 1
  Creators = {c1}
  Verifiers = {v1}
  Cancellers = {x1}
  PendingHasTransaction = TRUE
  MaxFaults = 0
  c1 = c1
  v1 = v1
  x1 = x1
SPECIFICATION Spec
INVARIANTS
  SoldIsPaidAndHeld
  BookedOnce
  PaidGroupIsBooked
PROPERTIES
  KeepsPromise
CHECK_DEADLOCK FALSE
