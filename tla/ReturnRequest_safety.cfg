CONSTANTS
  Requests = {q1}
  Boys = {b1, b2}
  NoBoy = NoBoy
  Calls = {c1, c2}
  Jobs = {j1}
  MaxFaults = 1
  q1 = q1
  b1 = b1
  b2 = b2
  c1 = c1
  c2 = c2
  j1 = j1
SPECIFICATION Spec
SYMMETRY Interchangeable
INVARIANTS
  RefundOncePerRequest
  RefundUnderWay
  NoRefundBeforePickup
  CommissionOnce
CHECK_DEADLOCK FALSE
