SPECIFICATION Spec
CONSTANTS
  Editors = {e1, e2, e3}
  Publishers = {p1}
  Savers = {s1}
PROPERTIES
  ActsOnWhatWasShown
  EveryCommandEnds
CHECK_DEADLOCK FALSE
