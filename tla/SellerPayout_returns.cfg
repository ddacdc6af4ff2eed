CONSTANTS
  Calls = {c1, c2}
  Settlers = {s1}
  Funds = 0
  AutoRelease = TRUE
  Keep = Keep
  c1 = c1
  c2 = c2
  s1 = s1
SPECIFICATION Spec
SYMMETRY Interchangeable
INVARIANTS
  WalletMatchesPayouts
  PaidOnlyOnce
  SettledHasPayout
  RefundCostsOnce
PROPERTIES
  CompletedIsFinal
CHECK_DEADLOCK FALSE
