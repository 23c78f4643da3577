SPECIFICATION FairSpec
CONSTANTS
  Pids = {p1, p2}
  NoPid = nobody
  RestartAttempts = 2
  Scripts <- MCScripts
  PipeCapacity = 3
INVARIANTS
  TypeOK
  NoLeak
  SettledWhenIdle
  VerdictIsTheRuns
  OneSimulationPerJob
PROPERTIES
  RetryOnlyAfterTransportFailure
  ImplementsSessionService
  EveryCallReturns
\* A host that does not ignore SIGPIPE may be killed, and then stops for good.
CHECK_DEADLOCK FALSE
