SPECIFICATION Spec
CONSTANTS
  Rows = {r1, r2}
  Dispatches = {w1, w2, w3}
  BatchLimit = 2
  MaxAttempts = 3
  MaxCrashes = 1
  MaxOverruns = 1
  MaxReplays = 1
SYMMETRY Symmetry
INVARIANTS
  SentIsStored
  DeadAfterMaxAttempts
  LeaseIsExclusive
PROPERTIES
  SentIsFinal
  FailuresCountOnce
CHECK_DEADLOCK FALSE
