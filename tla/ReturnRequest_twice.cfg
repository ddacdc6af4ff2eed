CONSTANTS
  Requests = {q1, q2}
  Boys = {b1}
  NoBoy = NoBoy
  Calls = {c1, c2}
  Jobs = {}
  MaxFaults = 0
  q1 = q1
  q2 = q2
  b1 = b1
  c1 = c1
  c2 = c2
SPECIFICATION Spec
SYMMETRY Interchangeable
INVARIANT OrderRefundedOnce
CHECK_DEADLOCK FALSE
