SPECIFICATION FairSpec
CONSTANTS
  Workers = {w1, w2}
  NoWorker = noworker
  MaxJobs = 2
  MaxBatches = 2
  CallerKeeps = FALSE
  ReaderMayThrow = TRUE
INVARIANTS
  TypeOK
  LeaseExclusive
  BatchArtifactsIntact
  SuccessMetricsAreOwn
PROPERTIES
  ImplementsBatchService
  BatchEventuallyReturns
  ShutdownCompletes
