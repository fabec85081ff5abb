SPECIFICATION Spec
CONSTANTS
  Workers = {w1, w2}
  Vacancies = {v1}
  Applications = {a1}
  InitialStatuses <- OnlyRecommended
  PatchTargets <- OnlyArchive
  Outcomes <- OnlyRejected
  MaxAudit = 1
  None = None
PROPERTY CancelledIsFinal
