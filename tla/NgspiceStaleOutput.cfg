SPECIFICATION Spec
CONSTANTS
  Dirs = {d1, d2}
  Task = "rc_ac"
  States <- MCStates
  MaxRuns = 3
INVARIANT SuccessIsOwn
