SPECIFICATION Spec
CONSTANTS
  Courses = {1, 2}
  Stores = {1}
  Commands = {m1, m2}
  Writers = {w1, w2}
  Owners = {o1}
  MaxAttempts = 2
SYMMETRY Symmetry
INVARIANTS
  PurgedStaysGone
  NoChangeLost
  NoWaitCycle
PROPERTIES
  PurgesWhatWasShown
CHECK_DEADLOCK FALSE
