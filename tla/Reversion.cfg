SPECIFICATION MCSpec
CONSTANTS
  Books <- MCBooks
  Contents <- MCContents
  Requests <- MCRequests
  Threads = {t1, t2}
  MaxUid = 3
  MaxVerified = 3
  MaxFaults = 1
  Lease = 1
  CallLimit = 0
  DbLimit = 0
  PollLimit = 5
  Allowance = 3
  MaxReverts = 1
SYMMETRY Symmetry
INVARIANTS
  NothingForgotten
  ShownMeansBooked
  NegativeIsPosted
CHECK_DEADLOCK FALSE
