SPECIFICATION FairSpec
CONSTANTS
  h1 = h1
  h2 = h2
  s1 = s1
  s2 = s2
  Hosts = {h1, h2}
  Sims = {s1, s2}
  NoHost = nohost
  UserRoots = {}
  OptionSets <- MCOptions
  Params = {"p"}
  DefaultValue = 0
  NotFinite = NotFinite
  Batches <- MCBatches
  MaxJobs = 2
  MaxBatches = 2
  MaxStarts = 2
  MaxCount = 2
  Machines <- MCMachines
  Unset = unset
INVARIANTS
  TypeOK
  GeneratedRootsDistinct
  ResultsAreOfTheirCases
  InvalidBatchStartsNothing
  ProbeFindsFirstOffer
PROPERTIES
  UsesBatchService
  NoEarlierValueShows
  EveryRunReturns
\* Every process may end for good.
CHECK_DEADLOCK FALSE
