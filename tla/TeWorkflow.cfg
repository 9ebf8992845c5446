SPECIFICATION FairSpec
CONSTANTS
  w1 = w1
  w2 = w2
  w3 = w3
  None = None
  Approvals <- MCApprovals
  EntryOf <- MCEntryOf
  Entries = {"e1", "e2"}
  Heads = {"l1", "l2"}
  HeadsOf <- MCHeadsOf
  MaxFaults = 3
INVARIANTS
  CompletedMeansAgreed
  PostedMeansPaid
PROPERTIES
  EndsOrIsPosted
  ImplementsSaga
CHECK_DEADLOCK FALSE
