SPECIFICATION Spec
CONSTANTS
  Analyses = {"dc", "tran"}
  Transients = {"tran"}
  MaxJobs = 2
  MaxRuns = 2
INVARIANTS
  TypeOK
  MetricsOwnUnlessLost
  OnePsfxlSilencesAll
