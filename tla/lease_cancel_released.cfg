CONSTANTS
  i1 = i1
  i2 = i2
  j1 = j1
  j2 = j2
  j3 = j3
  j4 = j4
  NoJob = NoJob
  Instance = {i1}
  Job = {j1}
  Kind <- RaceKind
  Phase <- RacePhase
  Lead <- NoLead
  LeaseDuration = 2
  MaxTime = 2
  MaxAttempt = 1
  QueueDefaultWorkers = 3
  RunMaxConcurrency = 2
  JobLeaseMaxBatch = 5
  DualWrite = TRUE
SPECIFICATION FairSpec
PROPERTIES
  CancellationCountsAsRelease
