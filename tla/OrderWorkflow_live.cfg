CONSTANTS
  Riders = {r1, r2}
  NoRider = NoRider
  Workers = {w1}
  Sweeper = Sweeper
  MaxAttempts = 2
  MaxCrashes = 1
  Kinds = {"regular", "express"}
  r1 = r1
  r2 = r2
  w1 = w1
SPECIFICATION Spec
PROPERTIES
  WaitingEnds
  CancelledStockComesBack
CHECK_DEADLOCK FALSE
