\* Two apps share a worker with a single slot; a statement fails or the process ends, once.
SPECIFICATION OneFailureSpec
CONSTANTS
  a1 = a1
  a2 = a2
  d1 = d1
  d2 = d2
  d3 = d3
  Apps = {a1, a2}
  Deployments = {d1, d2, d3}
  AppOf <- MCAppOf
  MaxAttempts = 2
  Concurrency = 1
  RetryDelay <- MCRetryDelay
  MaxTime = 0
  MaxFaults = 1
  MaxCrashes = 1
INVARIANTS
  WithinConcurrency
  FirstAttemptsInOrder
  StrandingIsBounded
PROPERTIES
  DamageIsContained
CHECK_DEADLOCK FALSE
