CONSTANTS
  Placements = {p1, p2}
  Settlers = {s1}
  Reversers = {r1}
  NumSellers = 3
  GrandTotal <- LastIsFree
  CoinsPerPaisa = 10
  Redemptions = {4, 5}
  Savings = {4}
  StartCoins = 9
  MaxEnded = 2
  UsageLimit = 2
  PerUserLimit = 1
  Deliverable = {"live", "cancelled"}
  p1 = p1
  p2 = p2
  s1 = s1
  r1 = r1
SPECIFICATION Spec
SYMMETRY Interchangeable
INVARIANTS
  CouponLimits
  CoinsAccounted
CHECK_DEADLOCK FALSE
