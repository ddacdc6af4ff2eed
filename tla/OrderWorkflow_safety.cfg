CONSTANTS
  Riders = {r1, r2}
  NoRider = NoRider
  Workers = {w1, w2}
  Sweeper = Sweeper
  MaxAttempts = 2
  MaxCrashes = 1
  Kinds = {"regular", "express", "manual"}
  r1 = r1
  r2 = r2
  w1 = w1
  w2 = w2
SPECIFICATION Spec
INVARIANTS
  
  
  UnpaidNeverDispatched
  StockBackOnlyOnce
PROPERTIES
  SellerGetsWholeWindow
  TimeoutSparesAssignedOrder
  TransitionsAccountedFor
  ImplementsLifecycle
CHECK_DEADLOCK FALSE
SYMMETRY Interchangeable
