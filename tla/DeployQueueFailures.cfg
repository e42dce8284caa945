\* Two deployments of one app, two goroutines, with failing statements and a crash.
SPECIFICATION Spec
CONSTANTS
  a1 = a1
  a2 = a2
  d1 = d1
  d2 = d2
  d3 = d3
  Apps = {a1}
  Deployments = {d1, d2}
  AppOf <- MCPairAppOf
  MaxAttempts = 3
  Concurrency = 2
  RetryDelay <- MCRetryDelay
  MaxTime = 1
  MaxFaults = 2
  MaxCrashes = 1
SYMMETRY MCSymmetry
INVARIANTS
  TypeOK
  OneAttemptPerApp
  WaitingJobsHaveAttempts
  HealthCountsOnce
  OutcomeIsBacked
  HealthIsExact
  LateRetryOnlyRequeues
PROPERTIES
  OutcomeIsFinal
  ImplementsBoard
CHECK_DEADLOCK FALSE
