SPECIFICATION ToolsSpec
CONSTANTS
  Seed <- MCSeed
  Specs <- MCSpecs
  Edits <- MCEdits
  Racing <- MCRacing
  Trees <- MCTrees
  Settings <- MCSettings
  MaxTurns = 2
  MaxFaults = 1
  MaxSteps = 2
  MaxSaves = 2
INVARIANTS
  TreeIsKept
  ScaffoldedServes
  FindingsAreTheEdits
  AuditsAgree
  ComparedTruly
CHECK_DEADLOCK FALSE
