SPECIFICATION Spec
CONSTANTS
  t1 = t1
  t2 = t2
  t3 = t3
  k1 = k1
  hour = hour
  week = week
  NoKey = NoKey
  Turns <- MCTurns
  Key <- MCKey
  Series <- MCSeries
  Limit <- MCLimit
  Estimate = 2
  Bills = {1, 3}
  MaxSettled = 1
  Degrade = TRUE
  MaxOutages = 1
INVARIANTS
  SettledExactly
  SpendIsWithinLimits
CHECK_DEADLOCK FALSE
