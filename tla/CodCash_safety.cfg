CONSTANTS
  Riders = {r1, r2}
  Calls = {c1, c2}
  NumOrders = 2
  Express = {}
  Gross = 1
  Commission = 0
  Limit = 1
  Amounts = {1}
  Irregular <- OddFirst
  MaxSettled = 1
  none = none
  r1 = r1
  r2 = r2
  c1 = c1
  c2 = c2
SPECIFICATION Spec
SYMMETRY Interchangeable
INVARIANTS
  CashAccounted
  SubmissionsBacked
PROPERTIES
  CollectedOnce
CHECK_DEADLOCK FALSE
