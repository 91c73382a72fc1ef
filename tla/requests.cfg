CONSTANTS
  Monitor = {2, 3, 4, 5}
  Numeric = {3, 5}
  Precision = 4
  Types <- Phase
  MaxWorkers = 2
  MaxBatch = 3
  MaxEdits = 2
SPECIFICATION MCSpec
INVARIANTS
  EachMonitorOnce
PROPERTIES
  ReadyMeansServable
