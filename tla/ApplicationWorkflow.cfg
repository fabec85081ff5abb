SPECIFICATION FairSpec
CONSTANTS
  Workers = {w1, w2}
  Vacancies = {v1}
  Applications = {a1, a2}
  InitialStatuses <- OnlyRecommended
  PatchTargets <- OwnerTargets
  Outcomes <- OnlyRejected
  MaxAudit = 2
  None = None
INVARIANTS TypeOK OneActiveApplication ExplicitApproval ApprovalsOverlapped
PROPERTIES SubmissionMovesVacancy ApprovalKept RequestsFinish
