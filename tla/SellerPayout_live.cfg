CONSTANTS
  Calls = {c1}
  Settlers = {s1}
  Funds = 0
  AutoRelease = FALSE
  Keep = Keep
  c1 = c1
  s1 = s1
SPECIFICATION FairSpec
PROPERTIES
  UnreturnedOrderIsPaid
CHECK_DEADLOCK FALSE
