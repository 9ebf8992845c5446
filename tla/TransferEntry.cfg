SPECIFICATION MCSpec
CONSTANTS
  Allowance = 100
  ExemptedHeads = {}
  PensionHeads = {}
  Batches <- MCBatches
  Threads = {t1, t2}
  MaxSecond = 2
  MaxUid = 3
  MaxFaults = 1
SYMMETRY Symmetry
INVARIANTS
  BudgetFollowsVerification
  PostedTwiceOnlyWhenAdrift
  ShownMeansHeld
  NegativeOnceAndBooked
CHECK_DEADLOCK FALSE
