SPECIFICATION Spec
CONSTANTS
  Editors = {e1, e2, e3, e4}
  Publishers = {p1, p2}
  Savers = {}
SYMMETRY Symmetry
INVARIANTS
  TypeOK
  AllocationIsFresh
  OneLiveVersion
  NoWaitCycleAlone
PROPERTIES
  PublishSupersedes
CHECK_DEADLOCK FALSE
