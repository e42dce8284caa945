\* A stale request moves the pointer away under a rollback.
SPECIFICATION Spec
CONSTANTS
  d1 = d1
  d2 = d2
  d3 = d3
  b1 = b1
  b2 = b2
  Deployments = {d1, d2, b1, b2}
  Rollbacks = {b1, b2}
  MaxAttempts = 2
  Keep = 1
  MaxFaults = 0
  MaxCrashes = 0
PROPERTIES
  RollbackTakesEffect
CHECK_DEADLOCK FALSE
