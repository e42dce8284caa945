\* A crash leaves the job of a running attempt running.
SPECIFICATION FairSpec
CONSTANTS
  a1 = a1
  a2 = a2
  d1 = d1
  d2 = d2
  d3 = d3
  Apps = {a1}
  Deployments = {d1, d2}
  AppOf <- MCPairAppOf
  MaxAttempts = 2
  Concurrency = 1
  RetryDelay <- MCRetryDelay
  MaxTime = 0
  MaxFaults = 0
  MaxCrashes = 1
PROPERTIES
  EveryJobSettles
CHECK_DEADLOCK FALSE
