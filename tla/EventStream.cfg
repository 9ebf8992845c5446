SPECIFICATION SessionSpec
CONSTANTS
  Clients = {c1}
  Paths = {p1}
  NoPath = NoPath
  FlushAt = 3
  MaxWork = 2
  MaxRuns = 2
  MaxCrashes = 2
  TornWrites = TRUE
  MaxDrops = 1
INVARIANTS
  InOrderOnce
  CrashCostsLittle
  JournalMirrorsLog
PROPERTIES
  WatchersLearnTheEnd
CHECK_DEADLOCK FALSE
