\* A delivery that arrives twice and another one, two apps, a fault and an edit.
SPECIFICATION FairSpec
CONSTANTS
  main = main
  dev = dev
  x1 = x1
  x2 = x2
  r1 = r1
  r2 = r2
  r3 = r3
  Apps = {1, 2}
  Branches = {main, dev}
  Deliveries = {x1, x2}
  Requests = {r1, r2, r3}
  DeliveryOf <- MCDeliveryOf
  BranchOf <- MCBranchOf
  MaxFaults = 1
  MaxEdits = 1
INVARIANTS
  TypeOK
  OneDeploymentPerDelivery
  LedgerRowsHaveOneOwner
  AcceptedMeansQueued
PROPERTIES
  EligibleAppsAreServed
CHECK_DEADLOCK FALSE
