----------------------- MODULE ApplicationRefinement -----------------------
(***************************************************************************)
(* The workflow implements the lifecycle it promises as long as what a     *)
(* request has read stays as it is until the request is done; and what     *)
(* else is true then, but not when a write comes between a request's read  *)
(* and its own write.                                                      *)
(***************************************************************************)
EXTENDS ApplicationWorkflow

Lifecycle ==
  INSTANCE ApplicationLifecycle WITH
    vacancy <- vacancy,
    about   <- [a \in Applications |-> IF app[a] = None THEN None ELSE app[a].vacancy],
    status  <- [a \in Applications |-> IF app[a] = None THEN None ELSE app[a].status]

\* The request read its vacancy's status and has not written it.  (Once it is
\* written the row's lock protects it.)
HasReadVacancy(w) ==
  \/ tx[w].stage \in {"updateVacancy", "patch"}
  \/ tx[w].app # None /\ tx[w].row = PreparedRow(tx[w].vacancy)

\* No step changes a row that a request in flight has read, unless it is that
\* request's own: what SELECT ... FOR UPDATE would see to, and no statement of
\* this program has.  Requests still overlap: several prepare applications for
\* one vacancy, or a vacancy is changed before the submission that moves it
\* reads it.
Undisturbed ==
  \A w \in Workers :
    tx'[w] = tx[w] =>
      /\ tx[w].app # None => app'[tx[w].app] = app[tx[w].app]
      /\ HasReadVacancy(w) => vacancy'[tx[w].vacancy] = vacancy[tx[w].vacancy]

UndisturbedSpec == Init /\ [][Next /\ Undisturbed]_vars

\* While no read is disturbed, every commit is one step of the lifecycle and
\* everything else a transaction does is invisible.
LifecycleSpec == Lifecycle!Spec

\* Where a vacancy can be once its application was sent.
AfterSubmission == {"SUBMITTED", "VIEWED", "ARCHIVED"} \cup OutcomeStatuses

\* While no read is disturbed, a vacancy whose application was sent never
\* shows a status from before the submission, whatever the owner PATCHes and
\* however many further applications he prepares for it.
VacancyKnowsSubmission ==
  \A a \in Applications :
    app[a] # None /\ app[a].status \in Sent => vacancy[app[a].vacancy] \in AfterSubmission

\* While no read is disturbed, repeating a request is harmless: the dates of
\* a row and its audit trail tell the same story, each event once.
Counted(a, e, happened) == audit[a][e] = IF happened THEN 1 ELSE 0
EachStepAuditedOnce ==
  \A a \in Applications :
    app[a] # None =>
      /\ Counted(a, "APPLICATION_PREPARED", TRUE)
      /\ Counted(a, "APPLICATION_APPROVED", app[a].approved)
      /\ Counted(a, "APPLICATION_CANCELLED", app[a].status = "CANCELLED")
      /\ Counted(a, "APPLICATION_MARKED_SUBMITTED", app[a].submitted)
      /\ app[a].submitted <=> app[a].status \in Sent
      /\ app[a].responded <=> app[a].status \in OutcomeStatuses
=============================================================================
