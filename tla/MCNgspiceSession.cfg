SPECIFICATION FairSpec
CONSTANTS
  Dirs = {d1, d2}
  Task = "rc_ac"
  States <- MCStates
  MaxRuns = 3
INVARIANTS
  TypeOK
  NoProcessLeft
  FreshInUnusedDir
PROPERTIES
  OutputsSettled
  ImplementsSessionService
  EveryCallReturns
