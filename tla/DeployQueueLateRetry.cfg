\* The late write of a retried attempt overwrites the next attempt's outcome.
SPECIFICATION Spec
CONSTANTS
  a1 = a1
  a2 = a2
  d1 = d1
  d2 = d2
  d3 = d3
  Apps = {a1}
  Deployments = {d1, d2}
  AppOf <- MCPairAppOf
  MaxAttempts = 2
  Concurrency = 2
  RetryDelay <- MCRetryDelay
  MaxTime = 0
  MaxFaults = 0
  MaxCrashes = 0
INVARIANTS
  SettledDeploymentAgrees
CHECK_DEADLOCK FALSE
