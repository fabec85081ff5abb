------------------------ MODULE ApplicationWorkflow ------------------------
(***************************************************************************)
(* The application use cases of internal/app/applications.go as they run   *)
(* in production: every HTTP request and every Telegram callback is a      *)
(* goroutine (a worker) that executes one use case inside one PostgreSQL   *)
(* transaction, statement by statement.  The transactions are opened with  *)
(* the default isolation level, READ COMMITTED: a SELECT returns the       *)
(* latest committed row and takes no lock, a write takes the row's lock    *)
(* until the transaction ends, and a write that needs a lock another       *)
(* transaction holds waits for it.  UpsertApplication writes the whole row *)
(* the use case computed from its own earlier read.                        *)
(*                                                                         *)
(* A use case that finds nothing to do (approving an approved application, *)
(* cancelling a cancelled one) or refuses at once leaves the database      *)
(* alone: here it is a step that does not happen.  Resumes, cover letters, *)
(* notes and the views returned to the caller are abstracted away; the     *)
(* three timestamps that matter are kept as whether they are set.          *)
(***************************************************************************)
EXTENDS Statuses, Naturals, FiniteSets

CONSTANTS
  Workers,          \* requests that can be in flight at the same time
  Vacancies,
  Applications,     \* identifiers core.NewID can return
  InitialStatuses,  \* statuses an imported vacancy can have
  PatchTargets,     \* statuses the owner asks for with PATCH /vacancies/{id}
  Outcomes,         \* answers of employers the owner records
  MaxAudit,         \* bound: audit events of one kind for one application
  None              \* no row, no identifier, no status

ApplicationRow ==
  [vacancy: Vacancies, status: ApplicationStatuses,
   approved: BOOLEAN, submitted: BOOLEAN, responded: BOOLEAN]

ASSUME WorkersAssumption == IsFiniteSet(Workers)
ASSUME InitialStatusesAssumption == InitialStatuses \subseteq VacancyStatuses
ASSUME PatchTargetsAssumption == PatchTargets \subseteq VacancyStatuses
ASSUME OutcomesAssumption == Outcomes \subseteq OutcomeStatuses
ASSUME MaxAuditAssumption == MaxAudit \in Nat
ASSUME NoneAssumption ==
  None \notin Applications \cup Vacancies \cup VacancyStatuses \cup ApplicationRow

VARIABLES
  vacancy,  \* vacancies.status, as committed
  app,      \* applications: the committed row of each identifier, or None
  audit,    \* audit_events: how many committed events of each action
  tx        \* what each worker is doing

vars == <<vacancy, app, audit, tx>>

(***************************************************************************)
(* A worker's progress.  Stages of an application use case:                *)
(*   find           the vacancy is read, the open application is not       *)
(*   upsert         the new row is computed, its write has not happened    *)
(*   readVacancy    the row is written (and locked), the vacancy not read  *)
(*   updateVacancy  the vacancy allows the move, its write has not happened*)
(*   commit         every statement ran; what is left is COMMIT            *)
(* A PATCH of a vacancy has one stage, patch: checked and not yet written. *)
(***************************************************************************)
Stages == {"idle", "find", "upsert", "readVacancy", "updateVacancy", "commit", "patch"}

Idle == [stage |-> "idle", app |-> None, vacancy |-> None, row |-> None, target |-> None]

Tx == [stage: Stages,
       app: Applications \cup {None},
       vacancy: Vacancies \cup {None},
       row: ApplicationRow \cup {None},        \* the row to write
       target: VacancyStatuses \cup {None}]    \* the vacancy status to write

TypeOK ==
  /\ vacancy \in [Vacancies -> VacancyStatuses]
  /\ app \in [Applications -> ApplicationRow \cup {None}]
  /\ audit \in [Applications -> [AuditActions -> Nat]]
  /\ tx \in [Workers -> Tx]

Init ==
  /\ vacancy \in [Vacancies -> InitialStatuses]
  /\ app = [a \in Applications |-> None]
  /\ audit = [a \in Applications |-> [e \in AuditActions |-> 0]]
  /\ tx = [w \in Workers |-> Idle]

-----------------------------------------------------------------------------
(* Rows and locks.                                                         *)

\* application.IsActive, and the WHERE clause of applications_active_unique_idx.
Active(row) == row # None /\ IsActiveStatus(row.status)

ActiveOn(row, v) == Active(row) /\ row.vacancy = v

\* The worker's transaction wrote its application row and has not ended.
HoldsApplication(w) == tx[w].stage \in {"readVacancy", "updateVacancy", "commit"}

\* The worker's transaction wrote a vacancy row and has not ended.
HoldsVacancy(w) == tx[w].stage = "commit" /\ tx[w].target # None

\* Statements wait for the row's lock, and an active row also waits for a
\* transaction that is adding or retiring an active row of the same vacancy.
UpsertWaits(w) ==
  \E u \in Workers \ {w} :
    /\ HoldsApplication(u)
    /\ \/ tx[u].app = tx[w].app
       \/ /\ Active(tx[w].row)
          /\ tx[u].vacancy = tx[w].vacancy
          /\ Active(tx[u].row) \/ Active(app[tx[u].app])

VacancyWaits(w) ==
  \E u \in Workers \ {w} : HoldsVacancy(u) /\ tx[u].vacancy = tx[w].vacancy

\* Fault: the migration forgot the partial unique index.
ConflictIgnored(w) == FALSE

\* SQLSTATE 23505: the unique index already has an active row of this vacancy.
IndexConflict(w) ==
  /\ Active(tx[w].row)
  /\ \E a \in Applications \ {tx[w].app} : ActiveOn(app[a], tx[w].vacancy)

\* The event the use case writes with the row it writes.
AuditActionFor(status) ==
  CASE status = "WAITING_APPROVAL"       -> "APPLICATION_PREPARED"
    [] status = "MANUAL_ACTION_REQUIRED" -> "APPLICATION_APPROVED"
    [] status = "CANCELLED"              -> "APPLICATION_CANCELLED"
    [] status = "SUBMITTED"              -> "APPLICATION_MARKED_SUBMITTED"
    [] OTHER                             -> auditActionForOutcome(status)

\* The vacancy status the use case moves to, None when it leaves it alone.
VacancyTargetFor(status) ==
  CASE status = "SUBMITTED"          -> "SUBMITTED"
    [] status \in OutcomeStatuses    -> VacancyStatusForOutcome(status)
    [] OTHER                         -> None

-----------------------------------------------------------------------------
(* The first statement of each use case: read, check, compute the row.     *)

Start(w, stage, a, row) ==
  /\ audit[a][AuditActionFor(row.status)] < MaxAudit
  /\ tx' = [tx EXCEPT ![w] = [stage |-> stage, app |-> a, vacancy |-> row.vacancy,
                              row |-> row, target |-> VacancyTargetFor(row.status)]]
  /\ UNCHANGED <<vacancy, app, audit>>

\* Fault: the status of the vacancy written into the application.
PreparedRowAsVacancy(v) ==
  [vacancy |-> v, status |-> "APPLICATION_PREPARED",
   approved |-> FALSE, submitted |-> FALSE, responded |-> FALSE]

PreparedRow(v) ==
  [vacancy |-> v, status |-> "WAITING_APPROVAL",
   approved |-> FALSE, submitted |-> FALSE, responded |-> FALSE]

\* PrepareApplication: an archived vacancy is refused.  The identifier is one
\* nobody uses; core.NewID draws it later in the handler, where only this
\* transaction can see it.
BeginPrepare(w, a, v) ==
  /\ tx[w].stage = "idle"
  /\ vacancy[v] # "ARCHIVED"
  /\ app[a] = None
  /\ \A u \in Workers : tx[u].app # a
  /\ Start(w, "find", a, PreparedRow(v))

\* ApproveApplication writes APPROVED and then MANUAL_ACTION_REQUIRED in the
\* same transaction; only the second is ever visible to anybody else.
ApprovedRow(row) ==
  [row EXCEPT !.status = "MANUAL_ACTION_REQUIRED", !.approved = TRUE]

\* Fault: approving an approved application is not recognised as a repetition.
BeginApproveUnchecked(w, a) ==
  /\ tx[w].stage = "idle"
  /\ app[a] # None
  /\ Start(w, "upsert", a, ApprovedRow(app[a]))

BeginApprove(w, a) ==
  /\ tx[w].stage = "idle"
  /\ app[a] # None
  /\ app[a].status \in {"WAITING_APPROVAL", "APPROVED"}
  /\ Start(w, "upsert", a, ApprovedRow(app[a]))

\* Fault: an application that was sent can still be cancelled.
BeginCancelSent(w, a) ==
  /\ tx[w].stage = "idle"
  /\ app[a] # None
  /\ app[a].status # "CANCELLED"
  /\ Start(w, "upsert", a, [app[a] EXCEPT !.status = "CANCELLED"])

\* CancelApplication: refused once the application was sent.
BeginCancel(w, a) ==
  /\ tx[w].stage = "idle"
  /\ app[a] # None
  /\ app[a].status \in {"DRAFT", "WAITING_APPROVAL", "APPROVED", "MANUAL_ACTION_REQUIRED"}
  /\ Start(w, "upsert", a, [app[a] EXCEPT !.status = "CANCELLED"])

\* Fault: the row is built anew and the approval is not carried over.
SubmittedRowAnew(row) ==
  [PreparedRow(row.vacancy) EXCEPT !.status = "SUBMITTED", !.submitted = TRUE]

SubmittedRow(row) == [row EXCEPT !.status = "SUBMITTED", !.submitted = TRUE]

\* Fault: an application still waiting for approval can be marked as sent.
BeginSubmitUnapproved(w, a) ==
  /\ tx[w].stage = "idle"
  /\ app[a] # None
  /\ app[a].status \in {"WAITING_APPROVAL", "MANUAL_ACTION_REQUIRED"}
  /\ Start(w, "upsert", a, SubmittedRow(app[a]))

\* MarkApplicationSubmitted: the owner sent it by hand; only an approved
\* application can be marked.
BeginSubmit(w, a) ==
  /\ tx[w].stage = "idle"
  /\ app[a] # None
  /\ app[a].status = "MANUAL_ACTION_REQUIRED"
  /\ Start(w, "upsert", a, SubmittedRow(app[a]))

\* UpdateApplicationOutcome: the employer answered.
BeginOutcome(w, a, status) ==
  /\ tx[w].stage = "idle"
  /\ app[a] # None
  /\ app[a].status # status
  /\ CanTransitionApplicationStatus(app[a].status, status)
  /\ Start(w, "upsert", a, [app[a] EXCEPT !.status = status, !.responded = TRUE])

\* Fault: the table of transitions is not consulted.
BeginPatchUnchecked(w, v, status) ==
  /\ tx[w].stage = "idle"
  /\ tx' = [tx EXCEPT ![w] = [Idle EXCEPT !.stage = "patch", !.vacancy = v, !.target = status]]
  /\ UNCHANGED <<vacancy, app, audit>>

\* App.UpdateVacancyStatus has no transaction: a read, a check and then the
\* write.  PATCH asks for any status, the Telegram button for ARCHIVED.
BeginPatch(w, v, status) ==
  /\ tx[w].stage = "idle"
  /\ CanTransitionVacancyStatus(vacancy[v], status)
  /\ tx' = [tx EXCEPT ![w] = [Idle EXCEPT !.stage = "patch", !.vacancy = v, !.target = status]]
  /\ UNCHANGED <<vacancy, app, audit>>

-----------------------------------------------------------------------------
(* The remaining statements.                                               *)

End(w) == tx' = [tx EXCEPT ![w] = Idle] /\ UNCHANGED <<vacancy, app, audit>>

Advance(w, stage) ==
  tx' = [tx EXCEPT ![w].stage = stage] /\ UNCHANGED <<vacancy, app, audit>>

HasActive(v) == \E a \in Applications : ActiveOn(app[a], v)

\* FindActiveApplicationByVacancyProfile found one: it is the answer.
ReturnExisting(w) ==
  /\ tx[w].stage = "find"
  /\ HasActive(tx[w].vacancy)
  /\ End(w)

\* No open application, and a resume was selected.  (When none fits, the
\* transaction is rolled back: Rollback.)
SelectResume(w) ==
  /\ tx[w].stage = "find"
  /\ ~HasActive(tx[w].vacancy)
  /\ Advance(w, "upsert")

UpsertApplication(w) ==
  /\ tx[w].stage = "upsert"
  /\ ~UpsertWaits(w)
  /\ ~IndexConflict(w)
  /\ Advance(w, IF tx[w].target = None THEN "commit" ELSE "readVacancy")

\* store.ErrConflict: the transaction is rolled back and the caller told.
RefuseConflict(w) ==
  /\ tx[w].stage = "upsert"
  /\ ~UpsertWaits(w)
  /\ IndexConflict(w)
  /\ End(w)

ReadVacancy(w) ==
  /\ tx[w].stage = "readVacancy"
  /\ CanTransitionVacancyStatus(vacancy[tx[w].vacancy], tx[w].target)
  /\ Advance(w, "updateVacancy")

\* Fault: the transaction of a refused move is neither committed nor rolled back.
RefuseVacancyLeaks(w) ==
  /\ tx[w].stage = "readVacancy"
  /\ ~CanTransitionVacancyStatus(vacancy[tx[w].vacancy], tx[w].target)
  /\ UNCHANGED vars

\* ErrInvalidApplicationTransition, after the application row was written.
RefuseVacancy(w) ==
  /\ tx[w].stage = "readVacancy"
  /\ ~CanTransitionVacancyStatus(vacancy[tx[w].vacancy], tx[w].target)
  /\ End(w)

UpdateVacancy(w) ==
  /\ tx[w].stage = "updateVacancy"
  /\ ~VacancyWaits(w)
  /\ Advance(w, "commit")

\* Fault: the vacancy is left where it was.
CommitWithoutVacancy(w) ==
  /\ tx[w].stage = "commit"
  /\ app' = [app EXCEPT ![tx[w].app] = tx[w].row]
  /\ audit' = [audit EXCEPT ![tx[w].app][AuditActionFor(tx[w].row.status)] = @ + 1]
  /\ tx' = [tx EXCEPT ![w] = Idle]
  /\ UNCHANGED vacancy

\* COMMIT publishes the row, the vacancy status and the audit event together.
Commit(w) ==
  /\ tx[w].stage = "commit"
  /\ app' = [app EXCEPT ![tx[w].app] = tx[w].row]
  /\ vacancy' = IF tx[w].target = None THEN vacancy
                ELSE [vacancy EXCEPT ![tx[w].vacancy] = tx[w].target]
  /\ audit' = [audit EXCEPT ![tx[w].app][AuditActionFor(tx[w].row.status)] = @ + 1]
  /\ tx' = [tx EXCEPT ![w] = Idle]

\* The UPDATE of a PATCH commits by itself.
WritePatch(w) ==
  /\ tx[w].stage = "patch"
  /\ ~VacancyWaits(w)
  /\ vacancy' = [vacancy EXCEPT ![tx[w].vacancy] = tx[w].target]
  /\ tx' = [tx EXCEPT ![w] = Idle]
  /\ UNCHANGED <<app, audit>>

\* A statement fails, the client goes away (the request's context is
\* cancelled) or the process dies: what the transaction wrote is gone.  A
\* crash of the whole process is every worker doing this.
Rollback(w) == tx[w].stage # "idle" /\ End(w)

-----------------------------------------------------------------------------

Request(w) ==
  \/ \E a \in Applications, v \in Vacancies : BeginPrepare(w, a, v)
  \/ \E a \in Applications : BeginApprove(w, a)
  \/ \E a \in Applications : BeginCancel(w, a)
  \/ \E a \in Applications : BeginSubmit(w, a)
  \/ \E a \in Applications, s \in Outcomes : BeginOutcome(w, a, s)
  \/ \E v \in Vacancies, s \in PatchTargets : BeginPatch(w, v, s)

\* What a worker does with a request it has accepted.
Proceed(w) ==
  \/ ReturnExisting(w)
  \/ SelectResume(w)
  \/ UpsertApplication(w)
  \/ RefuseConflict(w)
  \/ ReadVacancy(w)
  \/ RefuseVacancy(w)
  \/ UpdateVacancy(w)
  \/ Commit(w)
  \/ WritePatch(w)

Next == \E w \in Workers : Request(w) \/ Proceed(w) \/ Rollback(w)

Spec == Init /\ [][Next]_vars

\* The Go scheduler runs every runnable goroutine, and PostgreSQL hands a row
\* lock to its waiters in order of arrival, so a worker that can go on again
\* and again does go on.  Nothing forces a request to come or to fail.
FairSpec == Spec /\ \A w \in Workers : SF_vars(Proceed(w))

-----------------------------------------------------------------------------
(* What must hold.                                                         *)

Sent == {"SUBMITTED"} \cup OutcomeStatuses

\* However the requests interleave, and whichever stale row is written back,
\* a vacancy has at most one open application: the unique index stands where
\* the FindActiveApplicationByVacancyProfile check can be outrun.
OneActiveApplication ==
  \A a, b \in Applications : \A v \in Vacancies :
    ActiveOn(app[a], v) /\ ActiveOn(app[b], v) => a = b

\* README: applications "require explicit approval before submission".  An
\* application that counts as sent carries its approval and submission dates
\* and has both events in the audit trail, even when writes were lost.
ExplicitApproval ==
  \A a \in Applications :
    app[a] # None /\ app[a].status \in Sent =>
      /\ app[a].approved /\ app[a].submitted
      /\ audit[a]["APPLICATION_APPROVED"] > 0
      /\ audit[a]["APPLICATION_MARKED_SUBMITTED"] > 0

\* Requests in flight that are going to approve the application.
Approving(a) ==
  {w \in Workers : tx[w].app = a /\ tx[w].row.status = "MANUAL_ACTION_REQUIRED"}

\* A double tap or a retried POST: approvals of one application, those in its
\* trail and those that may still get there, were all in flight at one time.
\* So there are never more of them than requests can be, and a request that
\* begins when one of them has committed adds none, whichever stale rows other
\* requests have written back in the meantime.
ApprovalsOverlapped ==
  \A a \in Applications :
    audit[a]["APPLICATION_APPROVED"] + Cardinality(Approving(a)) <= Cardinality(Workers)

\* An application becomes sent, or gets an answer, in the very step that puts
\* the same news on its vacancy; no reader sees one without the other.
SubmissionMovesVacancy ==
  [][\A a \in Applications :
       app'[a] # app[a] /\ app'[a].status \in Sent =>
         vacancy'[app'[a].vacancy] = app'[a].status]_vars

\* The date of the owner's approval is never overwritten with nothing, except
\* by a cancellation that read the row before the approval.
ApprovalKept ==
  [][\A a \in Applications :
       app[a] # None /\ app[a].approved =>
         app'[a].approved \/ app'[a].status = "CANCELLED"]_vars

\* Row locks are always taken application first, vacancy second, and nobody
\* waits for a transaction that waits for him: every request is answered.
RequestsFinish ==
  \A w \in Workers : tx[w].stage # "idle" ~> tx[w].stage = "idle"

\* Stated by applicationTransitions: nothing follows CANCELLED.
CancelledIsFinal ==
  [][\A a \in Applications :
       app[a] # None /\ app[a].status = "CANCELLED" => app'[a] = app[a]]_vars
=============================================================================
