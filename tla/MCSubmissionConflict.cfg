SPECIFICATION Spec
CONSTANTS
  Tabs = {t1, t2}
  Desks = {d1}
  Texts = {essay, letter}
  Images = {}
  Keys = {k1, k2}
  ImageLimit = 1
  MaxAttempts = 1
  MaxVisits = 0
  MaxVersion = 1
  MaxRevision = 3
SYMMETRY Symmetry
PROPERTIES
  NoSilentOverwrite
CHECK_DEADLOCK FALSE
