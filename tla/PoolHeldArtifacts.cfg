SPECIFICATION Spec
CONSTANTS
  Workers = {w1, w2}
  NoWorker = noworker
  MaxJobs = 2
  MaxBatches = 2
  CallerKeeps = TRUE
  ReaderMayThrow = FALSE
INVARIANT HeldArtifactsIntact
