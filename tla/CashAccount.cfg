SPECIFICATION MCSpec
CONSTANTS
  Accounts <- MCAccounts
  PaoOf <- MCPaoOf
  Contents <- MCContents
  Heads <- MCHeads
  Kind <- MCKind
  Threads = {t1, t2}
  MaxTe = 1
  MaxVerified = 2
  MaxReverts = 1
  MaxFaults = 1
SYMMETRY Symmetry
INVARIANTS
  BroadSheetChain
  SheetMatchesDetail
  PraoAgrees
  NothingVanishes
CHECK_DEADLOCK FALSE
