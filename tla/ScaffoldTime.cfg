SPECIFICATION Spec
CONSTANTS
  Seed <- MCSeed
  Specs <- MCSpecs
  Edits <- MCEdits
  Racing <- MCRacing
  Trees <- MCTrees
  Settings <- MCSettings
  MaxTurns = 2
  MaxFaults = 1
INVARIANT TimeIsImportedWhereItIsNamed
CHECK_DEADLOCK FALSE
