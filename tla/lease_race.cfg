CONSTANTS
  i1 = i1
  i2 = i2
  j1 = j1
  j2 = j2
  j3 = j3
  j4 = j4
  NoJob = NoJob
  Instance = {i1, i2}
  Job = {j1}
  Kind <- RaceKind
  Phase <- RacePhase
  Lead <- RaceLead
  LeaseDuration = 3
  MaxTime = 5
  MaxAttempt = 2
  QueueDefaultWorkers = 1
  RunMaxConcurrency = 1
  JobLeaseMaxBatch = 1
  DualWrite = FALSE
SPECIFICATION Spec
INVARIANTS
  BelievedLeaseIsReal
  CutShortNeverReported
  ReportedIsNotReleased
  GaugesExact
PROPERTIES
  ReportsOnlyUnderLease
  ImplementsExclusive
