\* Two pages of one app are read while the queue works on its deployments.
SPECIFICATION ViewsSpec
CONSTANTS
  a1 = a1
  d1 = d1
  d2 = d2
  Nothing = Nothing
  RecentRows = 2
  Apps = {a1}
  Deployments = {d1, d2}
  AppOf <- MCAppOf
  MaxAttempts = 2
  Concurrency = 2
  RetryDelay <- MCRetryDelay
  MaxTime = 0
  MaxFaults = 1
  MaxCrashes = 1
SYMMETRY MCSymmetry
INVARIANTS
  HealthPageIsCoherent
PROPERTIES
  ListedOutcomesAreCounted
CHECK_DEADLOCK FALSE
