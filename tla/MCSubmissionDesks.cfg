SPECIFICATION Spec
CONSTANTS
  Tabs = {t1}
  Desks = {d1, d2}
  Texts = {essay}
  Images = {photo}
  Keys = {k1, k2, k3, k4}
  ImageLimit = 1
  MaxAttempts = 1
  MaxVisits = 1
  MaxVersion = 2
  MaxRevision = 2
SYMMETRY Symmetry
INVARIANTS
  LedgerMatchesHistory
  ProfileTellsLastOutcome
  GenerationHoldsReservation
PROPERTIES
  ImplementsLifecycle
CHECK_DEADLOCK FALSE
