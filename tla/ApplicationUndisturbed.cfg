SPECIFICATION UndisturbedSpec
CONSTANTS
  Workers = {w1, w2}
  Vacancies = {v1}
  Applications = {a1, a2, a3}
  InitialStatuses <- Imported
  PatchTargets <- VacancyStatuses
  Outcomes <- OutcomeStatuses
  MaxAudit = 2
  None = None
INVARIANTS VacancyKnowsSubmission EachStepAuditedOnce
PROPERTY LifecycleSpec
