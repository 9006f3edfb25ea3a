SPECIFICATION Spec
CONSTANTS
  Tabs = {t1}
  Desks = {d1}
  Texts = {essay}
  Images = {photo}
  Keys = {k1, k2, k3, k4, k5}
  ImageLimit = 1
  MaxAttempts = 1
  MaxVisits = 0
  MaxVersion = 2
  MaxRevision = 2
SYMMETRY Symmetry
INVARIANTS
  TypeOK
  VersionsFollowState
  FeedbackFollowsDecisions
  FeedbackBoundToEvidence
CHECK_DEADLOCK FALSE
