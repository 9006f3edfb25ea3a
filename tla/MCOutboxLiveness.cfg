SPECIFICATION FairSpec
CONSTANTS
  Rows = {r1, r2}
  Dispatches = {w1, w2}
  BatchLimit = 1
  MaxAttempts = 2
  MaxCrashes = 1
  MaxOverruns = 1
  MaxReplays = 0
PROPERTIES
  Settles
CHECK_DEADLOCK FALSE
