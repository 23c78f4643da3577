SPECIFICATION Spec
CONSTANTS
  Workers = {w1, w2}
  NoWorker = noworker
  MaxJobs = 2
  MaxBatches = 2
  CallerKeeps = FALSE
  ReaderMayThrow = FALSE
INVARIANT MetricsMatchInput
