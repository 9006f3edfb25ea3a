SPECIFICATION Spec
CONSTANTS
  Tabs = {t1, t2}
  Desks = {d1}
  Texts = {essay}
  Images = {photo, scan}
  Keys = {k1, k2, k3}
  ImageLimit = 1
  MaxAttempts = 2
  MaxVisits = 0
  MaxVersion = 2
  MaxRevision = 3
SYMMETRY Symmetry
INVARIANTS
  SealedShowsEvidence
  PagesTellTruth
  AppliedOncePerKey
  PurgeIsFinal
PROPERTIES
  SealedEvidenceImmutable
  ChangedByReader
  RevisionBuildsOnLast
  SubmissionMovesAsAllowed
CHECK_DEADLOCK FALSE
