\* Three deployments and two rollbacks of one app, with a failure and a crash.
SPECIFICATION Spec
CONSTANTS
  d1 = d1
  d2 = d2
  d3 = d3
  b1 = b1
  b2 = b2
  Deployments = {d1, d2, d3, b1, b2}
  Rollbacks = {b1, b2}
  MaxAttempts = 2
  Keep = 1
  MaxFaults = 1
  MaxCrashes = 1
SYMMETRY MCSymmetry
INVARIANTS
  TypeOK
  RetainedAreNewest
  RollbackIsComplete
  SuccessHasRelease
  AcceptedRollbackSucceeds
CHECK_DEADLOCK FALSE
