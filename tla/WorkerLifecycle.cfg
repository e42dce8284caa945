\* Three workers one after the other, two callers of Stop, with too few slots configured.
SPECIFICATION FairSpec
CONSTANTS
  Unset = Unset
  Malformed = Malformed
  s1 = s1
  s2 = s2
  Stoppers = {s1, s2}
  RawConcurrency <- MCRawConcurrency
  Environments <- MCEnvironments
  MaxStarts = 3
INVARIANTS
  TypeOK
  NoWorkerIsLeaked
  StoppedMeansQuiet
  RetriesAreBounded
  DelayIsCappedExponential
  InjectionMeetsRetries
PROPERTIES
  EveryStopReturns
  WorkerKeepsPolling
CHECK_DEADLOCK FALSE
