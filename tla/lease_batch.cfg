CONSTANTS
  i1 = i1
  i2 = i2
  j1 = j1
  j2 = j2
  j3 = j3
  j4 = j4
  NoJob = NoJob
  Instance = {i1}
  Job = {j1, j2, j3, j4}
  Kind <- BatchKind
  Phase <- BatchPhase
  Lead <- NoLead
  LeaseDuration = 2
  MaxTime = 1
  MaxAttempt = 1
  QueueDefaultWorkers = 3
  RunMaxConcurrency = 2
  JobLeaseMaxBatch = 3
  DualWrite = TRUE
SPECIFICATION FairSpec
INVARIANTS
  OneTaskPerAttempt
  ClaimedWorkNeverWaits
PROPERTIES
  RunReturns
