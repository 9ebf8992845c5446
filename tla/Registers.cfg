SPECIFICATION RegistersSpec
CONSTANTS
  Paos = {"m", "a", "b"}
  Officers = {"o1", "o2"}
  Batches <- MCBatches
  MaxBatches = 2
  MaxClock = 1
  Codes = {"x", "y"}
  Draws = {0, 9001}
  Notes = {"n1", "n2"}
  MaxNow = 1
  MaxRaised = 2
  Items = {"i1"}
  Rates = {1, 2}
  Auth = {"1", "2"}
  Callers = {"handler", "service"}
  Counts = {1, 2}
  MaxPaid = 2
  Row <- MCRow
  Limit <- MCLimit
  Ten = 2
  MaxChanges = 2
  MaxCalls = 4
INVARIANTS
  EntryMovesTogether
  OpenIsFound
  PaidAtAnApprovedRate
  ReadingIsComplete
PROPERTIES
  ApprovedStaysApproved
CHECK_DEADLOCK FALSE
