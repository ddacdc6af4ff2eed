\* Four runs, of which two may outlive their lock.
SPECIFICATION FairSpec
CONSTANTS
  r1 = r1
  r2 = r2
  r3 = r3
  r4 = r4
  Runs = {r1, r2, r3, r4}
  MaxExpired = 2
INVARIANT
  OverlapNeedsExpiry
PROPERTY JobRunsAgain
CHECK_DEADLOCK FALSE
