SPECIFICATION FairSpec
CONSTANTS
  Calls = {k1}
  Timeout = 1
  MaxExt = 2
INVARIANTS
  OnlyAnAcceptanceRuns
PROPERTIES
  NoRefusalBeforeThePromise
  AbortStopsTheRun
CHECK_DEADLOCK FALSE
