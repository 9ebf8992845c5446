SPECIFICATION MCSpec
CONSTANTS
  Books <- MCBooks
  Contents <- MCContents
  Requests <- MCRequests
  Threads = {t1, t2}
  MaxUid = 2
  MaxVerified = 2
  MaxFaults = 1
  Lease = 7
  CallLimit = 2
  DbLimit = 0
  PollLimit = 5
  Allowance = 3
SYMMETRY Symmetry
INVARIANTS
  OneSubmissionInFlight
  BookedTwiceOnlyAfterALoss
  FinalFlagsAreTrue
  EntriesBalance
CHECK_DEADLOCK FALSE
