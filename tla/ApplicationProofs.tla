------------------------- MODULE ApplicationProofs -------------------------
(***************************************************************************)
(* Proofs about ApplicationWorkflow, for every set of workers, vacancies   *)
(* and identifiers and every bound.  The inductive invariant has four      *)
(* parts:                                                                  *)
(*   TxShape   what a worker's record says at each stage;                  *)
(*   Fresh     an application being prepared is its worker's alone;        *)
(*   Locks     what the row locks and the unique index keep apart;         *)
(*   Trail     dates, statuses and audit events tell one story, in the     *)
(*             table and in every row still to be written.                 *)
(* The second part is about requests whose reads nobody disturbs: what a   *)
(* request has read is then still there when it writes (CurrentInv), and   *)
(* the workflow implements ApplicationLifecycle.  The last part is about   *)
(* what the requests have to keep to for that (ApartSpec).                 *)
(***************************************************************************)
EXTENDS ApplicationRefinement, FiniteSetTheorems, TLAPS

\* The statuses the use cases write.
Written == {"WAITING_APPROVAL", "MANUAL_ACTION_REQUIRED", "CANCELLED"} \cup Sent

\* The worker is inside an application use case.
InUseCase(w) == tx[w].stage \in Stages \ {"idle", "patch"}

TxShape ==
  \A w \in Workers :
    /\ InUseCase(w) =>
         /\ tx[w].app \in Applications
         /\ tx[w].row \in ApplicationRow
         /\ tx[w].row.status \in Written
         /\ tx[w].vacancy = tx[w].row.vacancy
         /\ tx[w].target = VacancyTargetFor(tx[w].row.status)
    /\ tx[w].stage = "patch" =>
         tx[w].app = None /\ tx[w].vacancy \in Vacancies /\ tx[w].target \in VacancyStatuses
    /\ tx[w].stage = "idle" => tx[w] = Idle

Fresh ==
  \A w \in Workers :
    InUseCase(w) /\ tx[w].row.status = "WAITING_APPROVAL" =>
      /\ app[tx[w].app] = None
      /\ \A u \in Workers \ {w} : tx[u].app # tx[w].app

Locks ==
  /\ \A u, w \in Workers :
       u # w /\ HoldsApplication(u) /\ HoldsApplication(w) =>
         /\ tx[u].app # tx[w].app
         /\ Active(tx[u].row) /\ Active(tx[w].row) => tx[u].vacancy # tx[w].vacancy
  /\ \A w \in Workers :
       HoldsApplication(w) /\ Active(tx[w].row) =>
         \A a \in Applications \ {tx[w].app} : ~ActiveOn(app[a], tx[w].vacancy)

\* A row's dates agree with its status and, but for the event that will be
\* written with the row, with the trail of its application.
Told(row, events) ==
  /\ row.status \in {"MANUAL_ACTION_REQUIRED"} \cup Sent => row.approved
  /\ row.status \in Sent => row.submitted
  /\ row.approved /\ row.status # "MANUAL_ACTION_REQUIRED" => events["APPLICATION_APPROVED"] > 0
  /\ row.submitted /\ row.status # "SUBMITTED" => events["APPLICATION_MARKED_SUBMITTED"] > 0

Trail ==
  /\ \A a \in Applications :
       app[a] # None =>
         /\ Told(app[a], audit[a])
         /\ app[a].approved => audit[a]["APPLICATION_APPROVED"] > 0
         /\ app[a].submitted => audit[a]["APPLICATION_MARKED_SUBMITTED"] > 0
  /\ \A w \in Workers : InUseCase(w) => Told(tx[w].row, audit[tx[w].app])

-----------------------------------------------------------------------------
(* What the helpers return.                                                *)

\* A use case writes one of the known events.
LEMMA AuditActionType ==
  ASSUME NEW s \in ApplicationStatuses
  PROVE  AuditActionFor(s) \in AuditActions
  BY DEF AuditActionFor, auditActionForOutcome, AuditActions, ApplicationStatuses

\* A use case moves the vacancy to one of its statuses, or leaves it alone.
LEMMA VacancyTargetType ==
  ASSUME NEW s \in ApplicationStatuses
  PROVE  VacancyTargetFor(s) \in VacancyStatuses \cup {None}
  BY DEF VacancyTargetFor, VacancyStatusForOutcome, OutcomeStatuses,
         VacancyStatuses, ApplicationStatuses

\* The statuses of an application that was sent are statuses of its vacancy.
LEMMA SentIsTarget ==
  ASSUME NEW s \in Sent
  PROVE  VacancyTargetFor(s) = s /\ s \in VacancyStatuses
  BY DEF VacancyTargetFor, VacancyStatusForOutcome, OutcomeStatuses, Sent, VacancyStatuses

\* An employer answers an application that was sent, and no other.
LEMMA OnlySentIsAnswered ==
  ASSUME NEW from \in ApplicationStatuses, NEW s \in OutcomeStatuses, from # s,
         CanTransitionApplicationStatus(from, s)
  PROVE  from \in Sent
  BY DEF CanTransitionApplicationStatus, applicationTransitions, ApplicationStatuses,
         OutcomeStatuses, Sent

-----------------------------------------------------------------------------
(* The inductive invariant and what the first statements of the use cases  *)
(* have in common.                                                         *)

IInv == TypeOK /\ TxShape /\ Fresh /\ Locks /\ Trail /\ OneActiveApplication

\* A use case of worker w begins: it will write the row for application a.
Begun(w, stage, a, row) ==
  /\ tx[w].stage = "idle"
  /\ stage \in {"find", "upsert"}
  /\ Start(w, stage, a, row)
  /\ row \in ApplicationRow
  /\ row.status \in Written
  /\ Told(row, audit[a])
  /\ row.status = "WAITING_APPROVAL" => app[a] = None /\ \A u \in Workers : tx[u].app # a
  /\ row.status # "WAITING_APPROVAL" => app[a] # None

\* Preparing begins with a new application.
LEMMA PrepareBegins ==
  ASSUME TypeOK, NEW w \in Workers, NEW a \in Applications, NEW v \in Vacancies,
         BeginPrepare(w, a, v)
  PROVE  Begun(w, "find", a, PreparedRow(v))
  BY DEF BeginPrepare, Begun, PreparedRow, ApplicationRow, ApplicationStatuses, Written,
         Told, Sent, OutcomeStatuses

\* Approving begins with the dates of the row that was read.
LEMMA ApproveBegins ==
  ASSUME TypeOK, Trail, NEW w \in Workers, NEW a \in Applications, BeginApprove(w, a)
  PROVE  Begun(w, "upsert", a, ApprovedRow(app[a]))
<1>1. app[a] \in ApplicationRow /\ app[a].status \in {"WAITING_APPROVAL", "APPROVED"}
  BY DEF TypeOK, BeginApprove
<1>2. /\ ApprovedRow(app[a]) \in ApplicationRow
      /\ ApprovedRow(app[a]).status = "MANUAL_ACTION_REQUIRED"
      /\ ApprovedRow(app[a]).approved
      /\ ApprovedRow(app[a]).submitted = app[a].submitted
  BY <1>1 DEF ApprovedRow, ApplicationRow, ApplicationStatuses
<1>3. Told(ApprovedRow(app[a]), audit[a])
  BY <1>1, <1>2 DEF Told, Trail, BeginApprove, Sent, OutcomeStatuses
<1> QED
  BY <1>1, <1>2, <1>3 DEF Begun, BeginApprove, Written

\* Cancelling keeps the dates.
LEMMA CancelBegins ==
  ASSUME TypeOK, Trail, NEW w \in Workers, NEW a \in Applications, BeginCancel(w, a)
  PROVE  Begun(w, "upsert", a, [app[a] EXCEPT !.status = "CANCELLED"])
<1> DEFINE row == [app[a] EXCEPT !.status = "CANCELLED"]
<1>1. app[a] \in ApplicationRow
  BY DEF TypeOK, BeginCancel
<1>2. /\ row \in ApplicationRow
      /\ row.status = "CANCELLED"
      /\ row.approved = app[a].approved
      /\ row.submitted = app[a].submitted
  BY <1>1 DEF ApplicationRow, ApplicationStatuses
<1>3. Told(row, audit[a])
  BY <1>1, <1>2 DEF Told, Trail, BeginCancel, Sent, OutcomeStatuses
<1> QED
  BY <1>1, <1>2, <1>3 DEF Begun, BeginCancel, Written

\* Marking as submitted begins with an approved row.
LEMMA SubmitBegins ==
  ASSUME TypeOK, Trail, NEW w \in Workers, NEW a \in Applications, BeginSubmit(w, a)
  PROVE  Begun(w, "upsert", a, SubmittedRow(app[a]))
<1>1. app[a] \in ApplicationRow /\ app[a].status = "MANUAL_ACTION_REQUIRED"
  BY DEF TypeOK, BeginSubmit
<1>2. /\ SubmittedRow(app[a]) \in ApplicationRow
      /\ SubmittedRow(app[a]).status = "SUBMITTED"
      /\ SubmittedRow(app[a]).submitted
      /\ SubmittedRow(app[a]).approved = app[a].approved
  BY <1>1 DEF SubmittedRow, ApplicationRow, ApplicationStatuses
<1>3. app[a].approved /\ audit[a]["APPLICATION_APPROVED"] > 0
  BY <1>1 DEF Trail, Told, BeginSubmit
<1>4. Told(SubmittedRow(app[a]), audit[a])
  BY <1>2, <1>3 DEF Told, Sent, OutcomeStatuses
<1> QED
  BY <1>1, <1>2, <1>4 DEF Begun, BeginSubmit, Written, Sent

\* An answer begins with a row that was sent, hence approved.
LEMMA OutcomeBegins ==
  ASSUME TypeOK, Trail, NEW w \in Workers, NEW a \in Applications, NEW s \in Outcomes,
         BeginOutcome(w, a, s)
  PROVE  Begun(w, "upsert", a, [app[a] EXCEPT !.status = s, !.responded = TRUE])
<1> DEFINE row == [app[a] EXCEPT !.status = s, !.responded = TRUE]
<1>1. /\ app[a] \in ApplicationRow
      /\ s \in OutcomeStatuses
      /\ s \in ApplicationStatuses
  BY OutcomesAssumption DEF TypeOK, BeginOutcome, OutcomeStatuses, ApplicationStatuses
<1>2. app[a].status \in Sent
  BY <1>1, OnlySentIsAnswered DEF BeginOutcome, ApplicationRow
<1>3. /\ row \in ApplicationRow
      /\ row.status = s
      /\ row.approved = app[a].approved
      /\ row.submitted = app[a].submitted
  BY <1>1 DEF ApplicationRow
<1>4. /\ app[a].approved /\ audit[a]["APPLICATION_APPROVED"] > 0
      /\ app[a].submitted /\ audit[a]["APPLICATION_MARKED_SUBMITTED"] > 0
  BY <1>2 DEF Trail, Told, BeginOutcome
<1>5. Told(row, audit[a])
  BY <1>3, <1>4 DEF Told
<1> QED
  BY <1>1, <1>3, <1>5 DEF Begun, BeginOutcome, Written, Sent, OutcomeStatuses

-----------------------------------------------------------------------------
(* What each kind of step does to the workers' records.                    *)

\* The first statement of a use case fills in the record of its worker.
LEMMA BegunTx ==
  ASSUME TypeOK, NEW w \in Workers, NEW stage, NEW a \in Applications, NEW row,
         Begun(w, stage, a, row)
  PROVE  /\ UNCHANGED <<vacancy, app, audit>>
         /\ tx'[w].stage = stage /\ tx'[w].app = a /\ tx'[w].row = row
         /\ tx'[w].vacancy = row.vacancy
         /\ tx'[w].target = VacancyTargetFor(row.status)
         /\ \A u \in Workers \ {w} : tx'[u] = tx[u]
         /\ tx' \in [Workers -> Tx]
<1>1. row \in ApplicationRow /\ stage \in Stages
  BY DEF Begun, Stages
<1>2. row.vacancy \in Vacancies /\ VacancyTargetFor(row.status) \in VacancyStatuses \cup {None}
  BY <1>1, VacancyTargetType DEF ApplicationRow
<1> DEFINE rec == [stage |-> stage, app |-> a, vacancy |-> row.vacancy,
                   row |-> row, target |-> VacancyTargetFor(row.status)]
<1>3. rec \in Tx
  BY <1>1, <1>2 DEF Tx
<1>4. tx' = [tx EXCEPT ![w] = rec] /\ UNCHANGED <<vacancy, app, audit>>
  BY DEF Begun, Start
<1> QED
  BY <1>3, <1>4 DEF TypeOK

\* A statement that only moves its worker to the next stage.
LEMMA AdvanceTx ==
  ASSUME TypeOK, NEW w \in Workers, NEW stage \in Stages, Advance(w, stage)
  PROVE  /\ UNCHANGED <<vacancy, app, audit>>
         /\ tx'[w].stage = stage /\ tx'[w].app = tx[w].app /\ tx'[w].row = tx[w].row
         /\ tx'[w].vacancy = tx[w].vacancy /\ tx'[w].target = tx[w].target
         /\ \A u \in Workers \ {w} : tx'[u] = tx[u]
         /\ tx' \in [Workers -> Tx]
<1>1. tx[w] \in Tx
  BY DEF TypeOK
<1> DEFINE rec == [tx[w] EXCEPT !.stage = stage]
<1>2. /\ rec \in Tx
      /\ rec.stage = stage /\ rec.app = tx[w].app /\ rec.row = tx[w].row
      /\ rec.vacancy = tx[w].vacancy /\ rec.target = tx[w].target
  BY <1>1 DEF Tx
<1>3. tx' = [tx EXCEPT ![w] = rec] /\ UNCHANGED <<vacancy, app, audit>>
  BY DEF Advance
<1> QED
  BY <1>2, <1>3 DEF TypeOK

\* An idle worker's record.
LEMMA IdleTx ==
  /\ Idle \in Tx
  /\ Idle.stage = "idle" /\ Idle.app = None /\ Idle.row = None
  BY DEF Idle, Tx, Stages

\* A worker that is done forgets its transaction.
LEMMA DoneTx ==
  ASSUME TypeOK, NEW w \in Workers, tx' = [tx EXCEPT ![w] = Idle]
  PROVE  /\ tx'[w] = Idle
         /\ \A u \in Workers \ {w} : tx'[u] = tx[u]
         /\ tx' \in [Workers -> Tx]
  BY IdleTx DEF TypeOK

\* A PATCH passed its check.
LEMMA PatchTx ==
  ASSUME TypeOK, NEW w \in Workers, NEW v \in Vacancies, NEW s \in PatchTargets,
         BeginPatch(w, v, s)
  PROVE  /\ UNCHANGED <<vacancy, app, audit>>
         /\ tx'[w].stage = "patch" /\ tx'[w].app = None
         /\ tx'[w].vacancy = v /\ tx'[w].target = s
         /\ \A u \in Workers \ {w} : tx'[u] = tx[u]
         /\ tx' \in [Workers -> Tx]
<1> DEFINE rec == [Idle EXCEPT !.stage = "patch", !.vacancy = v, !.target = s]
<1>1. /\ rec \in Tx
      /\ rec.stage = "patch" /\ rec.app = None /\ rec.vacancy = v /\ rec.target = s
  BY PatchTargetsAssumption DEF Idle, Tx, Stages
<1>2. tx' = [tx EXCEPT ![w] = rec] /\ UNCHANGED <<vacancy, app, audit>>
  BY DEF BeginPatch
<1> QED
  BY <1>1, <1>2 DEF TypeOK

\* COMMIT writes the row, the vacancy and the event of its worker.
LEMMA CommitTables ==
  ASSUME TypeOK, TxShape, NEW w \in Workers, Commit(w)
  PROVE  /\ InUseCase(w) /\ HoldsApplication(w)
         /\ tx[w].app \in Applications /\ tx[w].row \in ApplicationRow
         /\ tx[w].vacancy = tx[w].row.vacancy
         /\ tx[w].row.status \in Written
         /\ tx[w].target = VacancyTargetFor(tx[w].row.status)
         /\ app'[tx[w].app] = tx[w].row
         /\ \A a \in Applications \ {tx[w].app} : app'[a] = app[a] /\ audit'[a] = audit[a]
         /\ audit'[tx[w].app] =
              [audit[tx[w].app] EXCEPT ![AuditActionFor(tx[w].row.status)] = @ + 1]
         /\ vacancy' \in [Vacancies -> VacancyStatuses]
         /\ app' \in [Applications -> ApplicationRow \cup {None}]
         /\ audit' \in [Applications -> [AuditActions -> Nat]]
<1>1. /\ InUseCase(w) /\ HoldsApplication(w)
      /\ tx[w].app \in Applications /\ tx[w].row \in ApplicationRow
      /\ tx[w].vacancy = tx[w].row.vacancy
      /\ tx[w].row.status \in Written
      /\ tx[w].target = VacancyTargetFor(tx[w].row.status)
  BY DEF TxShape, InUseCase, HoldsApplication, Commit, Stages
<1> DEFINE a == tx[w].app
           e == AuditActionFor(tx[w].row.status)
           counts == [audit[a] EXCEPT ![e] = @ + 1]
<1>2. e \in AuditActions
  BY <1>1, AuditActionType DEF ApplicationRow
<1>3. tx[w].target \in VacancyStatuses \cup {None} /\ tx[w].vacancy \in Vacancies
  BY <1>1, VacancyTargetType DEF ApplicationRow
<1>4. counts \in [AuditActions -> Nat]
  BY <1>1, <1>2 DEF TypeOK
<1>5. audit' = [audit EXCEPT ![a] = counts] /\ app' = [app EXCEPT ![a] = tx[w].row]
  BY DEF Commit
<1>6. vacancy' \in [Vacancies -> VacancyStatuses]
  BY <1>3 DEF Commit, TypeOK
<1> HIDE DEF counts
<1>7. /\ audit'[a] = counts /\ audit' \in [Applications -> [AuditActions -> Nat]]
      /\ app'[a] = tx[w].row /\ app' \in [Applications -> ApplicationRow \cup {None}]
      /\ \A b \in Applications \ {a} : app'[b] = app[b] /\ audit'[b] = audit[b]
  BY <1>1, <1>4, <1>5 DEF TypeOK
<1> QED
  BY <1>1, <1>6, <1>7 DEF counts

-----------------------------------------------------------------------------
(* Each kind of step preserves the invariant.                              *)

\* A use case begins: nothing is written, and only a new record must fit.
LEMMA BegunKeeps ==
  ASSUME IInv, NEW w \in Workers, NEW stage, NEW a \in Applications, NEW row,
         Begun(w, stage, a, row)
  PROVE  IInv'
<1> USE DEF IInv
<1>1. /\ UNCHANGED <<vacancy, app, audit>>
      /\ tx'[w].stage = stage /\ tx'[w].app = a /\ tx'[w].row = row
      /\ tx'[w].vacancy = row.vacancy
      /\ tx'[w].target = VacancyTargetFor(row.status)
      /\ \A u \in Workers \ {w} : tx'[u] = tx[u]
      /\ tx' \in [Workers -> Tx]
  BY BegunTx
<1>2. /\ stage \in {"find", "upsert"}
      /\ row \in ApplicationRow
      /\ row.status \in Written
      /\ Told(row, audit[a])
      /\ row.status = "WAITING_APPROVAL" => app[a] = None /\ \A u \in Workers : tx[u].app # a
      /\ row.status # "WAITING_APPROVAL" => app[a] # None
  BY DEF Begun
<1>3. TypeOK'
  BY <1>1 DEF TypeOK
<1>4. TxShape'
  BY <1>1, <1>2 DEF TxShape, InUseCase
<1>5. Fresh'
  BY <1>1, <1>2 DEF Fresh, InUseCase
<1>6. Locks'
  BY <1>1, <1>2 DEF Locks, HoldsApplication
<1>7. Trail'
  BY <1>1, <1>2 DEF Trail, Told, InUseCase
<1>8. OneActiveApplication'
  BY <1>1 DEF OneActiveApplication
<1> QED
  BY <1>3, <1>4, <1>5, <1>6, <1>7, <1>8

\* A PATCH begins.
LEMMA PatchKeeps ==
  ASSUME IInv, NEW w \in Workers, NEW v \in Vacancies, NEW s \in PatchTargets,
         BeginPatch(w, v, s)
  PROVE  IInv'
<1> USE DEF IInv
<1>1. /\ UNCHANGED <<vacancy, app, audit>>
      /\ tx'[w].stage = "patch" /\ tx'[w].app = None
      /\ tx'[w].vacancy = v /\ tx'[w].target = s
      /\ \A u \in Workers \ {w} : tx'[u] = tx[u]
      /\ tx' \in [Workers -> Tx]
  BY PatchTx
<1>2. TypeOK'
  BY <1>1 DEF TypeOK
<1>3. TxShape'
  BY <1>1, PatchTargetsAssumption DEF TxShape, InUseCase
<1>4. Fresh'
  <2> SUFFICES ASSUME NEW x \in Workers, InUseCase(x)', tx'[x].row.status = "WAITING_APPROVAL"
               PROVE  app'[tx'[x].app] = None /\ \A u \in Workers \ {x} : tx'[u].app # tx'[x].app
    BY DEF Fresh
  <2>1. x # w /\ InUseCase(x) /\ tx'[x] = tx[x]
    BY <1>1 DEF InUseCase
  <2>2. tx[x].app # None
    BY <2>1, NoneAssumption DEF TxShape
  <2> QED
    BY <1>1, <2>1, <2>2 DEF Fresh
<1>5. Locks'
  BY <1>1 DEF Locks, HoldsApplication
<1>6. Trail'
  BY <1>1 DEF Trail, Told, InUseCase
<1>7. OneActiveApplication'
  BY <1>1 DEF OneActiveApplication
<1> QED
  BY <1>2, <1>3, <1>4, <1>5, <1>6, <1>7

\* A worker is done, and has changed the status of a vacancy at most.
LEMMA DoneKeeps ==
  ASSUME IInv, NEW w \in Workers, tx' = [tx EXCEPT ![w] = Idle],
         UNCHANGED <<app, audit>>, vacancy' \in [Vacancies -> VacancyStatuses]
  PROVE  IInv'
<1> USE DEF IInv
<1>1. /\ tx'[w] = Idle
      /\ \A u \in Workers \ {w} : tx'[u] = tx[u]
      /\ tx' \in [Workers -> Tx]
  BY DoneTx
<1>2. tx'[w].stage = "idle" /\ tx'[w].app = None
  BY <1>1, IdleTx
<1>3. TypeOK'
  BY <1>1 DEF TypeOK
<1>4. TxShape'
  BY <1>1, <1>2 DEF TxShape, InUseCase
<1>5. Fresh'
  <2> SUFFICES ASSUME NEW x \in Workers, InUseCase(x)', tx'[x].row.status = "WAITING_APPROVAL"
               PROVE  app'[tx'[x].app] = None /\ \A u \in Workers \ {x} : tx'[u].app # tx'[x].app
    BY DEF Fresh
  <2>1. x # w /\ InUseCase(x) /\ tx'[x] = tx[x]
    BY <1>1, <1>2 DEF InUseCase
  <2>2. tx[x].app # None
    BY <2>1, NoneAssumption DEF TxShape
  <2> QED
    BY <1>1, <1>2, <2>1, <2>2 DEF Fresh
<1>6. Locks'
  BY <1>1, <1>2 DEF Locks, HoldsApplication
<1>7. Trail'
  BY <1>1, <1>2 DEF Trail, Told, InUseCase
<1>8. OneActiveApplication'
  BY <1>1 DEF OneActiveApplication
<1> QED
  BY <1>3, <1>4, <1>5, <1>6, <1>7, <1>8

\* A statement runs in a use case.  If it is the write of the application, its
\* row is not locked by others and the unique index has no objection.
LEMMA AdvanceKeeps ==
  ASSUME IInv, NEW w \in Workers, NEW stage \in Stages \ {"idle", "patch"},
         InUseCase(w), Advance(w, stage),
         \/ stage \in {"find", "upsert"}
         \/ HoldsApplication(w)
         \/ ~UpsertWaits(w) /\ ~IndexConflict(w)
  PROVE  IInv'
<1> USE DEF IInv
<1>1. /\ UNCHANGED <<vacancy, app, audit>>
      /\ tx'[w].stage = stage /\ tx'[w].app = tx[w].app /\ tx'[w].row = tx[w].row
      /\ tx'[w].vacancy = tx[w].vacancy /\ tx'[w].target = tx[w].target
      /\ \A u \in Workers \ {w} : tx'[u] = tx[u]
      /\ tx' \in [Workers -> Tx]
  BY AdvanceTx
<1>2. \A u \in Workers : /\ InUseCase(u)' <=> InUseCase(u)
                         /\ tx'[u].app = tx[u].app /\ tx'[u].row = tx[u].row
                         /\ tx'[u].vacancy = tx[u].vacancy /\ tx'[u].target = tx[u].target
  BY <1>1 DEF InUseCase
<1>3. TypeOK'
  BY <1>1 DEF TypeOK
<1>4. TxShape'
  BY <1>1, <1>2 DEF TxShape, InUseCase
<1>5. Fresh'
  BY <1>1, <1>2 DEF Fresh
<1>6. Locks'
  <2>1. CASE stage \in {"find", "upsert"}
    BY <1>1, <1>2, <2>1 DEF Locks, HoldsApplication
  <2>2. CASE HoldsApplication(w)
    BY <1>1, <1>2, <2>2 DEF Locks, HoldsApplication
  <2>3. CASE ~UpsertWaits(w) /\ ~IndexConflict(w)
    <3>1. \A u \in Workers \ {w} : HoldsApplication(u)' <=> HoldsApplication(u)
      BY <1>1 DEF HoldsApplication
    <3>2. \A u \in Workers \ {w} :
            HoldsApplication(u) =>
              /\ tx[u].app # tx[w].app
              /\ Active(tx[u].row) /\ Active(tx[w].row) => tx[u].vacancy # tx[w].vacancy
      BY <2>3 DEF UpsertWaits
    <3>3. Active(tx[w].row) =>
            \A a \in Applications \ {tx[w].app} : ~ActiveOn(app[a], tx[w].vacancy)
      BY <2>3 DEF IndexConflict
    <3> QED
      BY <1>1, <1>2, <3>1, <3>2, <3>3 DEF Locks
  <2> QED
    BY <2>1, <2>2, <2>3
<1>7. Trail'
  BY <1>1, <1>2 DEF Trail, Told
<1>8. OneActiveApplication'
  BY <1>1 DEF OneActiveApplication
<1> QED
  BY <1>3, <1>4, <1>5, <1>6, <1>7, <1>8

\* COMMIT publishes a row whose lock kept every other writer and every other
\* active row of the vacancy away.
LEMMA CommitKeeps ==
  ASSUME IInv, NEW w \in Workers, Commit(w)
  PROVE  IInv'
<1> USE DEF IInv
<1> DEFINE a == tx[w].app
           row == tx[w].row
           e == AuditActionFor(row.status)
<1>1. /\ InUseCase(w) /\ HoldsApplication(w)
      /\ a \in Applications /\ row \in ApplicationRow
      /\ tx[w].vacancy = row.vacancy
      /\ row.status \in Written
      /\ app'[a] = row
      /\ \A b \in Applications \ {a} : app'[b] = app[b] /\ audit'[b] = audit[b]
      /\ audit'[a] = [audit[a] EXCEPT ![e] = @ + 1]
      /\ vacancy' \in [Vacancies -> VacancyStatuses]
      /\ app' \in [Applications -> ApplicationRow \cup {None}]
      /\ audit' \in [Applications -> [AuditActions -> Nat]]
  BY CommitTables
<1>2. /\ tx'[w] = Idle
      /\ \A u \in Workers \ {w} : tx'[u] = tx[u]
      /\ tx' \in [Workers -> Tx]
  BY DoneTx DEF Commit
<1>3. tx'[w].stage = "idle" /\ tx'[w].app = None
  BY <1>2, IdleTx
<1>4. \A u \in Workers :
        /\ InUseCase(u)' => u # w /\ InUseCase(u)
        /\ HoldsApplication(u)' => u # w /\ HoldsApplication(u)
  BY <1>2, <1>3 DEF InUseCase, HoldsApplication
<1>5. \A b \in Applications : \A x \in AuditActions :
        audit[b][x] \in Nat /\ (audit[b][x] > 0 => audit'[b][x] > 0)
  <2> SUFFICES ASSUME NEW b \in Applications, NEW x \in AuditActions
               PROVE  audit[b][x] \in Nat /\ (audit[b][x] > 0 => audit'[b][x] > 0)
    OBVIOUS
  <2>1. audit[b] \in [AuditActions -> Nat]
    BY DEF TypeOK
  <2>2. CASE b = a
    <3>1. audit'[b][x] = IF x = e THEN audit[b][x] + 1 ELSE audit[b][x]
      BY <1>1, <2>1, <2>2
    <3> QED
      BY <2>1, <3>1
  <2>3. CASE b # a
    BY <1>1, <2>1, <2>3
  <2> QED
    BY <2>2, <2>3
<1>6. TypeOK'
  BY <1>1, <1>2 DEF TypeOK
<1>7. TxShape'
  BY <1>2, <1>3, <1>4 DEF TxShape, InUseCase
<1>8. Fresh'
  <2> SUFFICES ASSUME NEW x \in Workers, InUseCase(x)', tx'[x].row.status = "WAITING_APPROVAL"
               PROVE  app'[tx'[x].app] = None /\ \A u \in Workers \ {x} : tx'[u].app # tx'[x].app
    BY DEF Fresh
  <2>1. x # w /\ InUseCase(x) /\ tx'[x] = tx[x]
    BY <1>2, <1>4
  <2>2. /\ tx[x].app \in Applications /\ app[tx[x].app] = None
        /\ \A u \in Workers \ {x} : tx[u].app # tx[x].app
    BY <2>1 DEF TxShape, Fresh
  <2>3. tx[x].app # None
    BY <2>2, NoneAssumption
  <2> QED
    BY <1>1, <1>2, <1>3, <2>1, <2>2, <2>3
<1>9. Locks'
  <2>1. ASSUME NEW u \in Workers, NEW x \in Workers, u # x,
               HoldsApplication(u)', HoldsApplication(x)'
        PROVE  /\ tx'[u].app # tx'[x].app
               /\ Active(tx'[u].row) /\ Active(tx'[x].row) => tx'[u].vacancy # tx'[x].vacancy
    BY <1>2, <1>4, <2>1 DEF Locks
  <2>2. ASSUME NEW u \in Workers, HoldsApplication(u)', Active(tx'[u].row),
               NEW b \in Applications \ {tx'[u].app}
        PROVE  ~ActiveOn(app'[b], tx'[u].vacancy)
    <3>1. u # w /\ HoldsApplication(u) /\ tx'[u] = tx[u]
      BY <1>2, <1>4, <2>2
    <3>2. CASE b = a
      BY <1>1, <2>2, <3>1, <3>2 DEF Locks, ActiveOn
    <3>3. CASE b # a
      BY <1>1, <2>2, <3>1, <3>3 DEF Locks
    <3> QED
      BY <3>2, <3>3
  <2> QED
    BY <2>1, <2>2 DEF Locks
<1>10. Trail'
  <2>1. ASSUME NEW b \in Applications, NEW r, Told(r, audit[b])
        PROVE  Told(r, audit'[b])
    BY <1>5, <2>1 DEF Told, AuditActions
  <2>2. \A u \in Workers : InUseCase(u)' => Told(tx'[u].row, audit'[tx'[u].app])
    <3> SUFFICES ASSUME NEW u \in Workers, InUseCase(u)'
                 PROVE  Told(tx'[u].row, audit'[tx'[u].app])
      OBVIOUS
    <3>1. InUseCase(u) /\ tx'[u] = tx[u]
      BY <1>2, <1>4
    <3>2. tx[u].app \in Applications /\ Told(tx[u].row, audit[tx[u].app])
      BY <3>1 DEF Trail, TxShape
    <3> QED
      BY <2>1, <3>1, <3>2
  <2>3. Told(row, audit[a]) /\ Told(row, audit'[a])
    BY <1>1, <2>1 DEF Trail
  <2>4. /\ row.approved => audit'[a]["APPLICATION_APPROVED"] > 0
        /\ row.submitted => audit'[a]["APPLICATION_MARKED_SUBMITTED"] > 0
    <3>1. audit[a] \in [AuditActions -> Nat]
      BY <1>1 DEF TypeOK
    <3>2. CASE row.status = "MANUAL_ACTION_REQUIRED"
      <4>1. e = "APPLICATION_APPROVED"
        BY <3>2 DEF AuditActionFor
      <4> QED
        BY <1>1, <2>3, <3>1, <3>2, <4>1 DEF Told, AuditActions
    <3>3. CASE row.status = "SUBMITTED"
      <4>1. e = "APPLICATION_MARKED_SUBMITTED"
        BY <3>3 DEF AuditActionFor
      <4> QED
        BY <1>1, <2>3, <3>1, <3>3, <4>1 DEF Told, AuditActions
    <3>4. CASE row.status \notin {"MANUAL_ACTION_REQUIRED", "SUBMITTED"}
      BY <2>3, <3>4 DEF Told
    <3> QED
      BY <3>2, <3>3, <3>4
  <2>5. ASSUME NEW b \in Applications, app'[b] # None
        PROVE  /\ Told(app'[b], audit'[b])
               /\ app'[b].approved => audit'[b]["APPLICATION_APPROVED"] > 0
               /\ app'[b].submitted => audit'[b]["APPLICATION_MARKED_SUBMITTED"] > 0
    <3>1. CASE b = a
      BY <1>1, <2>3, <2>4, <3>1
    <3>2. CASE b # a
      <4>1. app'[b] = app[b] /\ audit'[b] = audit[b]
        BY <1>1, <3>2
      <4> QED
        BY <2>1, <2>5, <4>1 DEF Trail
    <3> QED
      BY <3>1, <3>2
  <2> QED
    BY <2>2, <2>5 DEF Trail
<1>11. OneActiveApplication'
  <2> SUFFICES ASSUME NEW b \in Applications, NEW c \in Applications, NEW v \in Vacancies,
                      ActiveOn(app'[b], v), ActiveOn(app'[c], v), b # c
               PROVE  FALSE
    BY DEF OneActiveApplication
  <2>1. Active(row) => \A d \in Applications \ {a} : ~ActiveOn(app'[d], row.vacancy)
    BY <1>1 DEF Locks
  <2>2. CASE b # a /\ c # a
    BY <1>1, <2>2 DEF OneActiveApplication
  <2>3. CASE b = a
    BY <1>1, <2>1, <2>3 DEF ActiveOn
  <2>4. CASE c = a
    BY <1>1, <2>1, <2>4 DEF ActiveOn
  <2> QED
    BY <2>2, <2>3, <2>4
<1> QED
  BY <1>6, <1>7, <1>8, <1>9, <1>10, <1>11

\* A transaction ends without a trace.
LEMMA EndKeeps ==
  ASSUME IInv, NEW w \in Workers, End(w)
  PROVE  IInv'
  BY DoneKeeps DEF End, IInv, TypeOK

\* The UPDATE of a PATCH touches no application.
LEMMA WritePatchKeeps ==
  ASSUME IInv, NEW w \in Workers, WritePatch(w)
  PROVE  IInv'
<1>1. vacancy' \in [Vacancies -> VacancyStatuses]
  BY DEF WritePatch, IInv, TypeOK, TxShape
<1> QED
  BY <1>1, DoneKeeps DEF WritePatch

-----------------------------------------------------------------------------
(* The invariant is inductive.                                             *)

\* It holds before the first request.
LEMMA InitIInv == Init => IInv
<1> SUFFICES ASSUME Init PROVE IInv
  OBVIOUS
<1>1. \A w \in Workers : tx[w] = Idle
  BY DEF Init
<1>2. TypeOK
  BY IdleTx, InitialStatusesAssumption DEF Init, TypeOK
<1>3. TxShape /\ Fresh /\ Locks
  BY <1>1, IdleTx DEF TxShape, Fresh, Locks, InUseCase, HoldsApplication
<1>4. Trail
  BY <1>1, IdleTx DEF Init, Trail, InUseCase
<1>5. OneActiveApplication
  BY DEF Init, OneActiveApplication, ActiveOn, Active
<1> QED
  BY <1>2, <1>3, <1>4, <1>5 DEF IInv

\* Every request, statement and failure preserves it.
LEMMA NextIInv == IInv /\ [Next]_vars => IInv'
<1> SUFFICES ASSUME IInv, [Next]_vars PROVE IInv'
  OBVIOUS
<1> USE DEF IInv
<1>1. CASE UNCHANGED vars
  BY <1>1 DEF vars, TypeOK, TxShape, Fresh, Locks, Trail, OneActiveApplication,
              InUseCase, HoldsApplication
<1>2. ASSUME NEW w \in Workers, NEW a \in Applications, NEW v \in Vacancies,
             BeginPrepare(w, a, v)
      PROVE  IInv'
  BY <1>2, PrepareBegins, BegunKeeps
<1>3. ASSUME NEW w \in Workers, NEW a \in Applications, BeginApprove(w, a)
      PROVE  IInv'
  BY <1>3, ApproveBegins, BegunKeeps
<1>4. ASSUME NEW w \in Workers, NEW a \in Applications, BeginCancel(w, a)
      PROVE  IInv'
  BY <1>4, CancelBegins, BegunKeeps
<1>5. ASSUME NEW w \in Workers, NEW a \in Applications, BeginSubmit(w, a)
      PROVE  IInv'
  BY <1>5, SubmitBegins, BegunKeeps
<1>6. ASSUME NEW w \in Workers, NEW a \in Applications, NEW s \in Outcomes,
             BeginOutcome(w, a, s)
      PROVE  IInv'
  BY <1>6, OutcomeBegins, BegunKeeps
<1>7. ASSUME NEW w \in Workers, NEW v \in Vacancies, NEW s \in PatchTargets,
             BeginPatch(w, v, s)
      PROVE  IInv'
  BY <1>7, PatchKeeps
<1>8. ASSUME NEW w \in Workers, ReturnExisting(w)
      PROVE  IInv'
  BY <1>8, EndKeeps DEF ReturnExisting
<1>9. ASSUME NEW w \in Workers, SelectResume(w)
      PROVE  IInv'
  BY <1>9, AdvanceKeeps DEF SelectResume, InUseCase, Stages
<1>10. ASSUME NEW w \in Workers, UpsertApplication(w)
       PROVE  IInv'
  BY <1>10, AdvanceKeeps DEF UpsertApplication, InUseCase, Stages
<1>11. ASSUME NEW w \in Workers, RefuseConflict(w)
       PROVE  IInv'
  BY <1>11, EndKeeps DEF RefuseConflict
<1>12. ASSUME NEW w \in Workers, ReadVacancy(w)
       PROVE  IInv'
  BY <1>12, AdvanceKeeps DEF ReadVacancy, InUseCase, Stages, HoldsApplication
<1>13. ASSUME NEW w \in Workers, RefuseVacancy(w)
       PROVE  IInv'
  BY <1>13, EndKeeps DEF RefuseVacancy
<1>14. ASSUME NEW w \in Workers, UpdateVacancy(w)
       PROVE  IInv'
  BY <1>14, AdvanceKeeps DEF UpdateVacancy, InUseCase, Stages, HoldsApplication
<1>15. ASSUME NEW w \in Workers, Commit(w)
       PROVE  IInv'
  BY <1>15, CommitKeeps
<1>16. ASSUME NEW w \in Workers, WritePatch(w)
       PROVE  IInv'
  BY <1>16, WritePatchKeeps
<1>17. ASSUME NEW w \in Workers, Rollback(w)
       PROVE  IInv'
  BY <1>17, EndKeeps DEF Rollback
<1> QED
  BY <1>1, <1>2, <1>3, <1>4, <1>5, <1>6, <1>7, <1>8, <1>9, <1>10, <1>11, <1>12,
     <1>13, <1>14, <1>15, <1>16, <1>17 DEF Next, Request, Proceed

\* The invariant holds in every behavior.
THEOREM InvariantHolds == Spec => []IInv
<1>1. Init => IInv
  BY InitIInv
<1>2. IInv /\ [Next]_vars => IInv'
  BY NextIInv
<1> QED
  BY <1>1, <1>2, PTL DEF Spec

-----------------------------------------------------------------------------
(* The safety properties of the workflow.                                  *)

\* The tables and the workers' records hold what their columns may hold.
THEOREM TypeCorrect == Spec => []TypeOK
<1>1. IInv => TypeOK
  BY DEF IInv
<1> QED
  BY <1>1, InvariantHolds, PTL

\* However requests interleave, a vacancy has one open application at most.
THEOREM AtMostOneActive == Spec => []OneActiveApplication
<1>1. IInv => OneActiveApplication
  BY DEF IInv
<1> QED
  BY <1>1, InvariantHolds, PTL

\* An application that was sent was approved, and both facts are on record.
THEOREM SentWasApproved == Spec => []ExplicitApproval
<1>1. IInv => ExplicitApproval
  BY DEF IInv, Trail, Told, ExplicitApproval
<1> QED
  BY <1>1, InvariantHolds, PTL

-----------------------------------------------------------------------------
(* What a step may do: only a COMMIT writes an application or its trail.   *)

\* Every other statement leaves the two tables alone.
LEMMA OnlyCommitWrites ==
  ASSUME [Next]_vars
  PROVE  UNCHANGED <<app, audit>> \/ \E w \in Workers : Commit(w)
<1>1. CASE UNCHANGED vars
  BY <1>1 DEF vars
<1>2. ASSUME NEW w \in Workers, Request(w)
      PROVE  UNCHANGED <<app, audit>>
  BY <1>2 DEF Request, BeginPrepare, BeginApprove, BeginCancel, BeginSubmit, BeginOutcome,
              BeginPatch, Start
<1>3. ASSUME NEW w \in Workers, Proceed(w)
      PROVE  UNCHANGED <<app, audit>> \/ Commit(w)
  BY <1>3 DEF Proceed, ReturnExisting, SelectResume, UpsertApplication, RefuseConflict,
              ReadVacancy, RefuseVacancy, UpdateVacancy, WritePatch, Advance, End
<1>4. ASSUME NEW w \in Workers, Rollback(w)
      PROVE  UNCHANGED <<app, audit>>
  BY <1>4 DEF Rollback, End
<1> QED
  BY <1>1, <1>2, <1>3, <1>4 DEF Next

\* An application is sent, or answered, together with its vacancy.
THEOREM VacancyMovesAlong == Spec => SubmissionMovesVacancy
<1> DEFINE Together ==
      \A a \in Applications :
        app'[a] # app[a] /\ app'[a].status \in Sent =>
          vacancy'[app'[a].vacancy] = app'[a].status
<1>1. IInv /\ [Next]_vars => [Together]_vars
  <2> SUFFICES ASSUME IInv, [Next]_vars PROVE Together
    OBVIOUS
  <2>1. CASE UNCHANGED <<app, audit>>
    BY <2>1
  <2>2. ASSUME NEW w \in Workers, Commit(w), NEW a \in Applications,
               app'[a] # app[a], app'[a].status \in Sent
        PROVE  vacancy'[app'[a].vacancy] = app'[a].status
    <3>1. /\ a = tx[w].app /\ app'[a] = tx[w].row
          /\ tx[w].row \in ApplicationRow /\ tx[w].vacancy = tx[w].row.vacancy
          /\ tx[w].target = VacancyTargetFor(tx[w].row.status)
      BY <2>2, CommitTables DEF IInv
    <3>2. tx[w].target = app'[a].status /\ tx[w].target # None
      BY <2>2, <3>1, SentIsTarget, NoneAssumption
    <3>3. tx[w].vacancy \in Vacancies
      BY <3>1 DEF ApplicationRow
    <3> QED
      BY <2>2, <3>1, <3>2, <3>3 DEF Commit, IInv, TypeOK
  <2> QED
    BY <2>1, <2>2, OnlyCommitWrites
<1> QED
  BY <1>1, InvariantHolds, PTL DEF Spec, SubmissionMovesVacancy

\* A lost update can undo an approval by a cancellation only.
THEOREM ApprovalSurvives == Spec => ApprovalKept
<1> DEFINE Kept ==
      \A a \in Applications :
        app[a] # None /\ app[a].approved => app'[a].approved \/ app'[a].status = "CANCELLED"
<1>1. IInv /\ [Next]_vars => [Kept]_vars
  <2> SUFFICES ASSUME IInv, [Next]_vars PROVE Kept
    OBVIOUS
  <2>1. CASE UNCHANGED <<app, audit>>
    BY <2>1
  <2>2. ASSUME NEW w \in Workers, Commit(w), NEW a \in Applications,
               app[a] # None, app[a].approved
        PROVE  app'[a].approved \/ app'[a].status = "CANCELLED"
    <3>1. CASE a # tx[w].app
      BY <2>2, <3>1, CommitTables DEF IInv
    <3>2. CASE a = tx[w].app
      <4>1. app'[a] = tx[w].row /\ tx[w].row.status \in Written /\ InUseCase(w)
        BY <2>2, <3>2, CommitTables DEF IInv
      <4>2. tx[w].row.status # "WAITING_APPROVAL"
        BY <2>2, <3>2, <4>1 DEF IInv, Fresh
      <4>3. tx[w].row.status \in {"MANUAL_ACTION_REQUIRED"} \cup Sent => tx[w].row.approved
        BY <4>1 DEF IInv, Trail, Told
      <4> QED
        BY <4>1, <4>2, <4>3 DEF Written
    <3> QED
      BY <3>1, <3>2
  <2> QED
    BY <2>1, <2>2, OnlyCommitWrites
<1> QED
  BY <1>1, InvariantHolds, PTL DEF Spec, ApprovalKept

-----------------------------------------------------------------------------
(* How many approvals of one application there can be.                     *)

\* Once an application has left WAITING_APPROVAL no request reads that status
\* again; while it is there, or not yet prepared, its trail has no approval.
Unapproved(a) ==
  /\ app[a] = None \/ app[a].status = "WAITING_APPROVAL" =>
       audit[a]["APPLICATION_APPROVED"] = 0
  /\ app[a] # None => app[a].status \in Written

AInv == (\A a \in Applications : Unapproved(a)) /\ ApprovalsOverlapped

\* Approvals in flight are requests in flight.
LEMMA ApprovingCount ==
  ASSUME NEW S, IsFiniteSet(S), NEW T \in SUBSET S
  PROVE  /\ IsFiniteSet(T) /\ Cardinality(T) \in Nat /\ Cardinality(S) \in Nat
         /\ Cardinality(T) <= Cardinality(S)
  BY FS_Subset, FS_CardinalityType

\* While the tables stay, it is enough that an approval which joins those in
\* flight finds none in the trail.
LEMMA JoinersFindNone ==
  ASSUME TypeOK, AInv, UNCHANGED <<app, audit>>,
         \A a \in Applications :
           Approving(a)' \subseteq Approving(a) \/ audit[a]["APPLICATION_APPROVED"] = 0
  PROVE  AInv'
<1>1. \A a \in Applications : Unapproved(a)'
  BY DEF AInv, Unapproved
<1>2. ASSUME NEW a \in Applications
      PROVE  audit'[a]["APPLICATION_APPROVED"] + Cardinality(Approving(a)') <= Cardinality(Workers)
  <2> DEFINE before == Approving(a)
             after == Approving(a)'
             events == audit[a]["APPLICATION_APPROVED"]
  <2>1. before \in SUBSET Workers /\ after \in SUBSET Workers
    BY DEF Approving
  <2>2. events \in Nat /\ audit'[a]["APPLICATION_APPROVED"] = events
    BY DEF TypeOK, AuditActions
  <2>3. events + Cardinality(before) <= Cardinality(Workers)
    BY DEF AInv, ApprovalsOverlapped
  <2>4. after \subseteq before \/ events = 0
    OBVIOUS
  <2> HIDE DEF before, after, events
  <2>5. /\ IsFiniteSet(before) /\ Cardinality(before) \in Nat
        /\ Cardinality(after) \in Nat /\ Cardinality(Workers) \in Nat
        /\ Cardinality(after) <= Cardinality(Workers)
    BY <2>1, WorkersAssumption, ApprovingCount
  <2>6. after \subseteq before => Cardinality(after) <= Cardinality(before)
    BY <2>5, ApprovingCount
  <2>7. events + Cardinality(after) <= Cardinality(Workers)
    BY <2>2, <2>3, <2>4, <2>5, <2>6
  <2> QED
    BY <2>2, <2>7 DEF after
<1> QED
  BY <1>1, <1>2 DEF AInv, ApprovalsOverlapped

\* The first statement of a use case: only an approval joins the approvals in
\* flight, and it has read WAITING_APPROVAL.
LEMMA BegunCounts ==
  ASSUME IInv, AInv, NEW w \in Workers, NEW stage, NEW a \in Applications, NEW row,
         Begun(w, stage, a, row),
         row.status = "MANUAL_ACTION_REQUIRED" => app[a].status = "WAITING_APPROVAL"
  PROVE  AInv'
<1>1. /\ UNCHANGED <<app, audit>>
      /\ tx'[w].app = a /\ tx'[w].row = row
      /\ \A u \in Workers \ {w} : tx'[u] = tx[u]
  BY BegunTx DEF IInv
<1>2. row.status = "MANUAL_ACTION_REQUIRED" => audit[a]["APPLICATION_APPROVED"] = 0
  BY DEF AInv, Unapproved
<1>3. ASSUME NEW b \in Applications
      PROVE  Approving(b)' \subseteq Approving(b) \/ audit[b]["APPLICATION_APPROVED"] = 0
  <2>1. CASE b = a /\ row.status = "MANUAL_ACTION_REQUIRED"
    BY <1>2, <2>1
  <2>2. CASE ~(b = a /\ row.status = "MANUAL_ACTION_REQUIRED")
    BY <1>1, <2>2 DEF Approving
  <2> QED
    BY <2>1, <2>2
<1> QED
  BY <1>1, <1>3, JoinersFindNone DEF IInv

\* A statement that leaves the tables alone takes no request from one
\* application to another.
LEMMA QuietCounts ==
  ASSUME IInv, AInv, NEW w \in Workers, UNCHANGED <<app, audit>>,
         \A u \in Workers \ {w} : tx'[u] = tx[u],
         \/ tx'[w].app = None
         \/ tx'[w].app = tx[w].app /\ tx'[w].row = tx[w].row
  PROVE  AInv'
<1>1. \A b \in Applications : Approving(b)' \subseteq Approving(b)
  BY NoneAssumption DEF Approving
<1> QED
  BY <1>1, JoinersFindNone DEF IInv

\* COMMIT: an approval in flight becomes one in the trail.
LEMMA CommitCounts ==
  ASSUME IInv, AInv, NEW w \in Workers, Commit(w)
  PROVE  AInv'
<1> DEFINE a == tx[w].app
           row == tx[w].row
           e == AuditActionFor(row.status)
<1>1. /\ InUseCase(w)
      /\ a \in Applications /\ row \in ApplicationRow
      /\ row.status \in Written
      /\ app'[a] = row
      /\ \A b \in Applications \ {a} : app'[b] = app[b] /\ audit'[b] = audit[b]
      /\ audit'[a] = [audit[a] EXCEPT ![e] = @ + 1]
      /\ audit[a] \in [AuditActions -> Nat]
  BY CommitTables DEF IInv, TypeOK
<1>2. tx'[w].app = None /\ \A u \in Workers \ {w} : tx'[u] = tx[u]
  BY DoneTx, IdleTx DEF Commit, IInv
<1>3. "APPLICATION_APPROVED" \in AuditActions
  BY DEF AuditActions
<1>4. e = "APPLICATION_APPROVED" <=> row.status = "MANUAL_ACTION_REQUIRED"
  BY <1>1 DEF AuditActionFor, auditActionForOutcome, Written, Sent, OutcomeStatuses
<1>5. \A b \in Applications : Unapproved(b)
  BY DEF AInv
<1>6. ASSUME NEW b \in Applications PROVE Unapproved(b)'
  <2>1. CASE b # a
    BY <1>1, <1>5, <2>1 DEF Unapproved
  <2>2. CASE b = a /\ row.status = "WAITING_APPROVAL"
    <3>1. audit[a]["APPLICATION_APPROVED"] = 0
      BY <1>1, <1>5, <2>2 DEF IInv, Fresh, Unapproved
    <3>2. audit'[a]["APPLICATION_APPROVED"] = 0
      BY <1>1, <1>3, <1>4, <2>2, <3>1
    <3> QED
      BY <1>1, <2>2, <3>2 DEF Unapproved
  <2>3. CASE b = a /\ row.status # "WAITING_APPROVAL"
    BY <1>1, <2>3, NoneAssumption DEF Unapproved
  <2> QED
    BY <2>1, <2>2, <2>3
<1>7. ASSUME NEW b \in Applications
      PROVE  audit'[b]["APPLICATION_APPROVED"] + Cardinality(Approving(b)') <= Cardinality(Workers)
  <2> DEFINE before == Approving(b)
             after == Approving(b)'
  <2>1. before \in SUBSET Workers /\ after = before \ {w}
    BY <1>2, NoneAssumption DEF Approving
  <2>2. /\ IsFiniteSet(before) /\ Cardinality(before) \in Nat /\ Cardinality(Workers) \in Nat
        /\ Cardinality(after) = IF w \in before THEN Cardinality(before) - 1
                                ELSE Cardinality(before)
    <3> HIDE DEF before, after
    <3> QED
      BY <2>1, WorkersAssumption, ApprovingCount, FS_RemoveElement
  <2>3. audit[b]["APPLICATION_APPROVED"] \in Nat
    BY <1>3 DEF IInv, TypeOK
  <2>4. audit[b]["APPLICATION_APPROVED"] + Cardinality(before) <= Cardinality(Workers)
    BY DEF AInv, ApprovalsOverlapped
  <2>5. CASE b = a /\ row.status = "MANUAL_ACTION_REQUIRED"
    <3>1. w \in before
      BY <2>5 DEF Approving
    <3>2. audit'[b]["APPLICATION_APPROVED"] = audit[b]["APPLICATION_APPROVED"] + 1
      BY <1>1, <1>3, <1>4, <2>5
    <3> HIDE DEF before, after
    <3> QED
      BY <2>2, <2>3, <2>4, <3>1, <3>2 DEF after
  <2>6. CASE ~(b = a /\ row.status = "MANUAL_ACTION_REQUIRED")
    <3>1. audit'[b]["APPLICATION_APPROVED"] = audit[b]["APPLICATION_APPROVED"]
      BY <1>1, <1>3, <1>4, <2>6
    <3> HIDE DEF before, after
    <3>2. Cardinality(after) \in Nat /\ Cardinality(after) <= Cardinality(before)
      BY <2>1, <2>2, ApprovingCount
    <3>3. audit'[b]["APPLICATION_APPROVED"] + Cardinality(after) <= Cardinality(Workers)
      BY <2>2, <2>3, <2>4, <3>1, <3>2
    <3> QED
      BY <3>3 DEF after
  <2> QED
    BY <2>5, <2>6
<1> QED
  BY <1>6, <1>7 DEF AInv, ApprovalsOverlapped

\* Every step keeps the count.
LEMMA NextAInv ==
  ASSUME IInv, AInv, [Next]_vars
  PROVE  AInv'
<1>1. CASE UNCHANGED vars
  BY <1>1 DEF vars, AInv, Unapproved, ApprovalsOverlapped, Approving
<1>2. TypeOK /\ Trail
  BY DEF IInv
<1>3. ASSUME NEW w \in Workers, NEW a \in Applications, NEW v \in Vacancies,
             BeginPrepare(w, a, v)
      PROVE  AInv'
  BY <1>2, <1>3, PrepareBegins, BegunCounts DEF PreparedRow
<1>4. ASSUME NEW w \in Workers, NEW a \in Applications, BeginApprove(w, a)
      PROVE  AInv'
  <2>1. app[a].status = "WAITING_APPROVAL"
    BY <1>4 DEF BeginApprove, AInv, Unapproved, Written, Sent, OutcomeStatuses
  <2> QED
    BY <1>2, <1>4, <2>1, ApproveBegins, BegunCounts
<1>5. ASSUME NEW w \in Workers, NEW a \in Applications, BeginCancel(w, a)
      PROVE  AInv'
  <2>1. [app[a] EXCEPT !.status = "CANCELLED"].status = "CANCELLED"
    BY <1>2, <1>5 DEF BeginCancel, TypeOK, ApplicationRow
  <2> QED
    BY <1>2, <1>5, <2>1, CancelBegins, BegunCounts
<1>6. ASSUME NEW w \in Workers, NEW a \in Applications, BeginSubmit(w, a)
      PROVE  AInv'
  <2>1. SubmittedRow(app[a]).status = "SUBMITTED"
    BY <1>2, <1>6 DEF BeginSubmit, SubmittedRow, TypeOK, ApplicationRow
  <2> QED
    BY <1>2, <1>6, <2>1, SubmitBegins, BegunCounts
<1>7. ASSUME NEW w \in Workers, NEW a \in Applications, NEW s \in Outcomes,
             BeginOutcome(w, a, s)
      PROVE  AInv'
  <2> SUFFICES ASSUME NEW row, row = [app[a] EXCEPT !.status = s, !.responded = TRUE]
               PROVE  AInv'
    OBVIOUS
  <2>1. row.status = s
    BY <1>2, <1>7 DEF BeginOutcome, TypeOK, ApplicationRow
  <2>2. s # "MANUAL_ACTION_REQUIRED"
    BY OutcomesAssumption DEF OutcomeStatuses
  <2>3. Begun(w, "upsert", a, row)
    BY <1>2, <1>7, OutcomeBegins, Zenon
  <2> QED
    BY <2>1, <2>2, <2>3, BegunCounts
<1>8. ASSUME NEW w \in Workers, NEW v \in Vacancies, NEW s \in PatchTargets,
             BeginPatch(w, v, s)
      PROVE  AInv'
  BY <1>2, <1>8, PatchTx, QuietCounts
<1>9. ASSUME NEW w \in Workers, End(w)
      PROVE  AInv'
  BY <1>2, <1>9, DoneTx, IdleTx, QuietCounts DEF End
<1>10. ASSUME NEW w \in Workers, NEW stage \in Stages, Advance(w, stage)
       PROVE  AInv'
  BY <1>2, <1>10, AdvanceTx, QuietCounts
<1>11. ASSUME NEW w \in Workers, WritePatch(w)
       PROVE  AInv'
  BY <1>2, <1>11, DoneTx, IdleTx, QuietCounts DEF WritePatch
<1>12. ASSUME NEW w \in Workers, Request(w)
       PROVE  AInv'
  BY <1>3, <1>4, <1>5, <1>6, <1>7, <1>8, <1>12 DEF Request
<1>13. ASSUME NEW w \in Workers, Proceed(w)
       PROVE  AInv'
  BY <1>9, <1>10, <1>11, <1>13, CommitCounts
  DEF Proceed, ReturnExisting, SelectResume, UpsertApplication, RefuseConflict,
      ReadVacancy, RefuseVacancy, UpdateVacancy, Stages
<1>14. ASSUME NEW w \in Workers, Rollback(w)
       PROVE  AInv'
  BY <1>9, <1>14 DEF Rollback
<1> QED
  BY <1>1, <1>12, <1>13, <1>14 DEF Next

\* However often an approval is repeated, and by however many requests, its
\* application has no more approvals in its trail than overlapped.
THEOREM RepeatsAddNoApproval == Spec => []ApprovalsOverlapped
<1>1. Init => AInv
  <2> SUFFICES ASSUME Init PROVE AInv
    OBVIOUS
  <2>1. ASSUME NEW a \in Applications
        PROVE  /\ Approving(a) = {} /\ app[a] = None
               /\ audit[a]["APPLICATION_APPROVED"] = 0
    BY IdleTx, NoneAssumption DEF Init, Approving, AuditActions
  <2>2. Cardinality({}) = 0 /\ Cardinality(Workers) \in Nat
    BY FS_EmptySet, FS_CardinalityType, WorkersAssumption
  <2>3. ASSUME NEW a \in Applications
        PROVE  audit[a]["APPLICATION_APPROVED"] + Cardinality(Approving(a)) <= Cardinality(Workers)
    <3>1. Cardinality(Approving(a)) = 0
      BY <2>1, <2>2, Zenon
    <3> QED
      BY <2>1, <2>2, <3>1
  <2>4. \A a \in Applications : Unapproved(a)
    BY <2>1 DEF Unapproved
  <2> QED
    BY <2>3, <2>4 DEF AInv, ApprovalsOverlapped
<1>2. IInv /\ AInv /\ [Next]_vars => AInv'
  BY NextAInv
<1>3. AInv => ApprovalsOverlapped
  BY DEF AInv
<1> QED
  BY <1>1, <1>2, <1>3, InvariantHolds, PTL DEF Spec

-----------------------------------------------------------------------------
(* No read is disturbed.  What a request is about to write then follows    *)
(* from the tables as they are, and not only as they were when it read     *)
(* them.                                                                   *)

\* Fields of a row that a use case leaves as they are.
Same(row, old) ==
  row.vacancy = old.vacancy /\ row.approved = old.approved /\
  row.submitted = old.submitted /\ row.responded = old.responded

\* The row is the next one of the application in the table.
Follows(a, row) ==
  LET old == app[a] IN
    \/ old = None /\ row = PreparedRow(row.vacancy)
    \/ /\ old # None
       /\ \/ /\ old.status = "WAITING_APPROVAL" /\ row.status = "MANUAL_ACTION_REQUIRED"
             /\ row.approved /\ Same(row, [old EXCEPT !.approved = TRUE])
          \/ /\ old.status \in {"WAITING_APPROVAL", "MANUAL_ACTION_REQUIRED"}
             /\ row.status = "CANCELLED"
             /\ Same(row, old)
          \/ /\ old.status = "MANUAL_ACTION_REQUIRED" /\ row.status = "SUBMITTED"
             /\ Same(row, [old EXCEPT !.submitted = TRUE])
          \/ /\ row.status \in Outcomes
             /\ row.status \in applicationTransitions[old.status]
             /\ Same(row, [old EXCEPT !.responded = TRUE])

\* What the request of w has seen is still there.
Current(w) ==
  /\ InUseCase(w) =>
       /\ Follows(tx[w].app, tx[w].row)
       /\ app[tx[w].app] = None => vacancy[tx[w].vacancy] # "ARCHIVED"
  /\ tx[w].stage \in {"updateVacancy", "commit", "patch"} /\ tx[w].target # None =>
       CanTransitionVacancyStatus(vacancy[tx[w].vacancy], tx[w].target)
  /\ tx[w].stage = "patch" => tx[w].target \in PatchTargets

\* The rows' locks: two transactions never write one vacancy.
VacancyLocks ==
  \A u, w \in Workers :
    u # w /\ HoldsVacancy(u) /\ HoldsVacancy(w) => tx[u].vacancy # tx[w].vacancy

\* Rows and trails, while no read is disturbed.
Orderly(a) ==
  /\ app[a] = None => \A e \in AuditActions : audit[a][e] = 0
  /\ app[a] # None =>
       /\ app[a].status \in Written
       /\ app[a].status = "WAITING_APPROVAL" => ~app[a].approved

CurrentInv ==
  /\ \A w \in Workers : Current(w)
  /\ VacancyLocks
  /\ \A a \in Applications : Orderly(a)
  /\ EachStepAuditedOnce
  /\ VacancyKnowsSubmission

\* A request that has just read the tables.
LEMMA CurrentRequest ==
  ASSUME CurrentInv, NEW w \in Workers, NEW a \in Applications, NEW stage, NEW row,
         TypeOK, Begun(w, stage, a, row), Follows(a, row),
         app[a] = None => stage = "find" /\ vacancy[row.vacancy] # "ARCHIVED"
  PROVE  Current(w)'
<1>1. /\ UNCHANGED <<vacancy, app, audit>>
      /\ tx'[w].stage = stage /\ tx'[w].app = a /\ tx'[w].row = row
      /\ tx'[w].vacancy = row.vacancy
  BY BegunTx
<1>2. stage \in {"find", "upsert"}
  BY DEF Begun
<1> QED
  BY <1>1, <1>2 DEF Current, Follows

\* A statement that moves the request on, and what it saw.
LEMMA CurrentAdvance ==
  ASSUME TypeOK, NEW w \in Workers, NEW stage \in Stages \ {"idle", "patch"}, InUseCase(w),
         Current(w), Advance(w, stage),
         stage \in {"updateVacancy", "commit"} /\ tx[w].target # None =>
           CanTransitionVacancyStatus(vacancy[tx[w].vacancy], tx[w].target)
  PROVE  Current(w)'
<1>1. /\ UNCHANGED <<vacancy, app, audit>>
      /\ tx'[w].stage = stage /\ tx'[w].app = tx[w].app /\ tx'[w].row = tx[w].row
      /\ tx'[w].vacancy = tx[w].vacancy /\ tx'[w].target = tx[w].target
  BY AdvanceTx
<1> QED
  BY <1>1 DEF Current, Follows, InUseCase

\* What a request begins with is the next row of its application.
LEMMA RequestFollows ==
  ASSUME IInv, CurrentInv, NEW w \in Workers, NEW a \in Applications
  PROVE  /\ \A v \in Vacancies : BeginPrepare(w, a, v) => Follows(a, PreparedRow(v))
         /\ BeginApprove(w, a) => Follows(a, ApprovedRow(app[a]))
         /\ BeginCancel(w, a) => Follows(a, [app[a] EXCEPT !.status = "CANCELLED"])
         /\ BeginSubmit(w, a) => Follows(a, SubmittedRow(app[a]))
         /\ \A s \in Outcomes :
              BeginOutcome(w, a, s) =>
                Follows(a, [app[a] EXCEPT !.status = s, !.responded = TRUE])
<1> USE DEF Follows, Same
<1>1. app[a] # None => app[a] \in ApplicationRow /\ app[a].status \in Written
  BY DEF IInv, TypeOK, CurrentInv, Orderly
<1>2. ASSUME NEW v \in Vacancies, BeginPrepare(w, a, v)
      PROVE  Follows(a, PreparedRow(v))
  BY <1>2 DEF BeginPrepare, PreparedRow
<1>3. ASSUME BeginApprove(w, a)
      PROVE  Follows(a, ApprovedRow(app[a]))
  <2>1. app[a].status = "WAITING_APPROVAL" /\ app[a] # None
    BY <1>1, <1>3 DEF BeginApprove, Written, Sent, OutcomeStatuses
  <2> QED
    BY <1>1, <2>1 DEF ApprovedRow, ApplicationRow
<1>4. ASSUME BeginCancel(w, a)
      PROVE  Follows(a, [app[a] EXCEPT !.status = "CANCELLED"])
  <2>1. app[a].status \in {"WAITING_APPROVAL", "MANUAL_ACTION_REQUIRED"} /\ app[a] # None
    BY <1>1, <1>4 DEF BeginCancel, Written, Sent, OutcomeStatuses
  <2> QED
    BY <1>1, <2>1 DEF ApplicationRow
<1>5. ASSUME BeginSubmit(w, a)
      PROVE  Follows(a, SubmittedRow(app[a]))
  BY <1>1, <1>5 DEF BeginSubmit, SubmittedRow, ApplicationRow
<1>6. ASSUME NEW s \in Outcomes, BeginOutcome(w, a, s)
      PROVE  Follows(a, [app[a] EXCEPT !.status = s, !.responded = TRUE])
  <2>1. app[a] # None /\ s \in applicationTransitions[app[a].status]
    BY <1>6 DEF BeginOutcome, CanTransitionApplicationStatus
  <2> QED
    BY <1>1, <2>1 DEF ApplicationRow
<1> HIDE DEF Follows, Same
<1> QED
  BY <1>2, <1>3, <1>4, <1>5, <1>6, Zenon

\* Where the table of transitions leads from what follows a submission.
LEMMA AfterSubmissionStays ==
  ASSUME NEW from \in AfterSubmission, NEW to, CanTransitionVacancyStatus(from, to)
  PROVE  to \in AfterSubmission
BY DEF AfterSubmission, CanTransitionVacancyStatus, vacancyTransitions, VacancyStatuses,
       OutcomeStatuses

\* Only a submission and its answers move the vacancy.
LEMMA OnlySentMoves ==
  ASSUME NEW s, VacancyTargetFor(s) # None
  PROVE  s \in Sent /\ VacancyTargetFor(s) = s
BY DEF VacancyTargetFor, VacancyStatusForOutcome, Sent

\* A COMMIT of what is current: the row, the trail and the vacancy.
LEMMA CommitInOrder ==
  ASSUME IInv, CurrentInv, NEW w \in Workers, Commit(w)
  PROVE  /\ (\A a \in Applications : Orderly(a))'
         /\ EachStepAuditedOnce' /\ VacancyKnowsSubmission'
<1> DEFINE a == tx[w].app
           row == tx[w].row
           e == AuditActionFor(row.status)
<1>1. /\ InUseCase(w)
      /\ a \in Applications /\ row \in ApplicationRow
      /\ tx[w].vacancy = row.vacancy
      /\ row.status \in Written
      /\ tx[w].target = VacancyTargetFor(row.status)
      /\ app'[a] = row
      /\ \A b \in Applications \ {a} : app'[b] = app[b] /\ audit'[b] = audit[b]
      /\ audit'[a] = [audit[a] EXCEPT ![e] = @ + 1]
      /\ audit[a] \in [AuditActions -> Nat]
  BY CommitTables DEF IInv, TypeOK
<1>2. row # None /\ Follows(a, row)
  BY <1>1, NoneAssumption DEF CurrentInv, Current
<1>3. app[a] # None => app[a] \in ApplicationRow
  BY <1>1 DEF IInv, TypeOK
<1>4. ASSUME NEW b \in Applications PROVE Orderly(b)'
  <2>1. CASE b = a
    BY <1>1, <1>2, <2>1, OutcomesAssumption DEF Orderly, Follows, PreparedRow, OutcomeStatuses
  <2>2. CASE b # a
    BY <1>1, <2>2 DEF Orderly, CurrentInv
  <2> QED
    BY <2>1, <2>2
<1>5. EachStepAuditedOnce'
  <2> SUFFICES ASSUME NEW b \in Applications, app'[b] # None
               PROVE  /\ Counted(b, "APPLICATION_PREPARED", TRUE)'
                      /\ Counted(b, "APPLICATION_APPROVED", app[b].approved)'
                      /\ Counted(b, "APPLICATION_CANCELLED", app[b].status = "CANCELLED")'
                      /\ Counted(b, "APPLICATION_MARKED_SUBMITTED", app[b].submitted)'
                      /\ (app[b].submitted <=> app[b].status \in Sent)'
                      /\ (app[b].responded <=> app[b].status \in OutcomeStatuses)'
    BY DEF EachStepAuditedOnce
  <2>1. CASE b # a
    BY <1>1, <2>1 DEF CurrentInv, EachStepAuditedOnce, Counted
  <2>2. CASE b = a
    <3>1. \A x \in AuditActions :
            audit'[a][x] = IF x = e THEN audit[a][x] + 1 ELSE audit[a][x]
      BY <1>1
    <3>2. Orderly(a) /\ (app[a] # None =>
            /\ Counted(a, "APPLICATION_PREPARED", TRUE)
            /\ Counted(a, "APPLICATION_APPROVED", app[a].approved)
            /\ Counted(a, "APPLICATION_CANCELLED", app[a].status = "CANCELLED")
            /\ Counted(a, "APPLICATION_MARKED_SUBMITTED", app[a].submitted)
            /\ app[a].submitted <=> app[a].status \in Sent
            /\ app[a].responded <=> app[a].status \in OutcomeStatuses)
      BY <1>1 DEF CurrentInv, EachStepAuditedOnce
    <3>3. CASE app[a] = None
      <4>1. row.status = "WAITING_APPROVAL" /\ ~row.approved /\ ~row.submitted /\ ~row.responded
        BY <1>2, <3>3 DEF Follows, PreparedRow
      <4>2. e = "APPLICATION_PREPARED"
        BY <4>1 DEF AuditActionFor
      <4> QED
        BY <1>1, <2>2, <3>1, <3>2, <3>3, <4>1, <4>2
        DEF Orderly, Counted, AuditActions, Sent, OutcomeStatuses
    <3>4. CASE app[a] # None /\ row.status = "MANUAL_ACTION_REQUIRED"
      <4>1. e = "APPLICATION_APPROVED"
        BY <3>4 DEF AuditActionFor
      <4>2. /\ app[a].status = "WAITING_APPROVAL" /\ ~app[a].approved
            /\ row.approved /\ row.submitted = app[a].submitted /\ row.responded = app[a].responded
        BY <1>2, <1>3, <3>2, <3>4, OutcomesAssumption
        DEF Follows, Same, Orderly, PreparedRow, OutcomeStatuses, ApplicationRow
      <4> QED
        BY <1>1, <2>2, <3>1, <3>2, <3>4, <4>1, <4>2
        DEF Counted, AuditActions, Sent, OutcomeStatuses
    <3>5. CASE app[a] # None /\ row.status = "CANCELLED"
      <4>1. e = "APPLICATION_CANCELLED"
        BY <3>5 DEF AuditActionFor
      <4>2. /\ app[a].status \in {"WAITING_APPROVAL", "MANUAL_ACTION_REQUIRED"}
            /\ row.approved = app[a].approved
            /\ row.submitted = app[a].submitted /\ row.responded = app[a].responded
        BY <1>2, <3>5, OutcomesAssumption DEF Follows, Same, PreparedRow, OutcomeStatuses
      <4> QED
        BY <1>1, <2>2, <3>1, <3>2, <3>5, <4>1, <4>2
        DEF Counted, AuditActions, Sent, OutcomeStatuses
    <3>6. CASE app[a] # None /\ row.status = "SUBMITTED"
      <4>1. e = "APPLICATION_MARKED_SUBMITTED"
        BY <3>6 DEF AuditActionFor
      <4>2. /\ app[a].status = "MANUAL_ACTION_REQUIRED"
            /\ row.approved = app[a].approved
            /\ row.submitted /\ row.responded = app[a].responded
        BY <1>2, <1>3, <3>6, OutcomesAssumption
        DEF Follows, Same, PreparedRow, OutcomeStatuses, ApplicationRow
      <4> QED
        BY <1>1, <2>2, <3>1, <3>2, <3>6, <4>1, <4>2
        DEF Counted, AuditActions, Sent, OutcomeStatuses
    <3>7. CASE app[a] # None /\ row.status \in OutcomeStatuses
      <4>1. e \notin {"APPLICATION_PREPARED", "APPLICATION_APPROVED",
                      "APPLICATION_CANCELLED", "APPLICATION_MARKED_SUBMITTED"}
        BY <3>7 DEF AuditActionFor, auditActionForOutcome, OutcomeStatuses
      <4>2. /\ row.status \in applicationTransitions[app[a].status]
            /\ row.approved = app[a].approved
            /\ row.submitted = app[a].submitted /\ row.responded
        BY <1>2, <1>3, <3>7 DEF Follows, Same, OutcomeStatuses, ApplicationRow
      <4>3. app[a].status \in Sent /\ app[a].status # "CANCELLED"
        BY <1>3, <3>7, <4>2
        DEF applicationTransitions, ApplicationStatuses, ApplicationRow, Sent, OutcomeStatuses
      <4> QED
        BY <1>1, <2>2, <3>1, <3>2, <3>7, <4>1, <4>2, <4>3
        DEF Counted, AuditActions, Sent, OutcomeStatuses
    <3> QED
      BY <1>2, <3>3, <3>4, <3>5, <3>6, <3>7, OutcomesAssumption DEF Follows
  <2> QED
    BY <2>1, <2>2
<1>6. VacancyKnowsSubmission'
  <2> SUFFICES ASSUME NEW b \in Applications, app'[b] # None, app'[b].status \in Sent
               PROVE  vacancy'[app'[b].vacancy] \in AfterSubmission
    BY DEF VacancyKnowsSubmission
  <2>1. tx[w].target # None => tx[w].target \in Sent
    BY <1>1, OnlySentMoves
  <2>2. Sent \subseteq AfterSubmission
    BY DEF Sent, AfterSubmission
  <2>3. tx[w].vacancy \in Vacancies /\ vacancy \in [Vacancies -> VacancyStatuses]
    BY <1>1 DEF ApplicationRow, IInv, TypeOK
  <2>4. CASE b = a
    <3>1. tx[w].target = row.status /\ tx[w].target # None
      BY <1>1, <2>4, SentIsTarget, NoneAssumption
    <3> QED
      BY <1>1, <2>1, <2>2, <2>3, <2>4, <3>1 DEF Commit
  <2>5. CASE b # a
    <3>1. app'[b] = app[b] /\ app[b].vacancy \in Vacancies
      BY <1>1, <2>5 DEF IInv, TypeOK, ApplicationRow
    <3>2. vacancy[app[b].vacancy] \in AfterSubmission
      BY <3>1 DEF CurrentInv, VacancyKnowsSubmission
    <3> QED
      BY <2>1, <2>2, <2>3, <3>1, <3>2 DEF Commit
  <2> QED
    BY <2>4, <2>5
<1> QED
  BY <1>4, <1>5, <1>6

\* Without a COMMIT or the write of a PATCH, rows, trails and vacancies stay.
LEMMA TablesStay ==
  ASSUME CurrentInv, UNCHANGED <<vacancy, app, audit>>
  PROVE  /\ (\A a \in Applications : Orderly(a))'
         /\ EachStepAuditedOnce' /\ VacancyKnowsSubmission'
  BY DEF CurrentInv, Orderly, EachStepAuditedOnce, Counted, VacancyKnowsSubmission

\* An idle worker has seen nothing.
LEMMA IdleIsCurrent ==
  ASSUME NEW w \in Workers, tx[w] = Idle
  PROVE  Current(w)
  BY IdleTx DEF Current, InUseCase

\* What another worker has seen survives a write, for it is not disturbed and
\* the row's lock protects a vacancy that is written and not yet committed.
LEMMA OthersStayCurrent ==
  ASSUME IInv, CurrentInv, Undisturbed, NEW w \in Workers, Commit(w) \/ WritePatch(w),
         NEW u \in Workers \ {w}
  PROVE  Current(u)'
<1>1. tx'[u] = tx[u] /\ TxShape /\ Current(u)
  BY DoneTx DEF IInv, CurrentInv, Commit, WritePatch
<1>2. InUseCase(u) => app'[tx[u].app] = app[tx[u].app]
  BY <1>1, NoneAssumption DEF Undisturbed, TxShape
<1>3. HasReadVacancy(u) => vacancy'[tx[u].vacancy] = vacancy[tx[u].vacancy]
  BY <1>1 DEF Undisturbed
<1>4. InUseCase(u) /\ app[tx[u].app] = None => HasReadVacancy(u)
  BY <1>1, NoneAssumption DEF Current, Follows, TxShape, HasReadVacancy
<1>5. tx[u].stage \in {"updateVacancy", "patch"} => HasReadVacancy(u)
  BY DEF HasReadVacancy
<1>6. HoldsVacancy(u) => vacancy'[tx[u].vacancy] = vacancy[tx[u].vacancy]
  <2> SUFFICES ASSUME HoldsVacancy(u)
               PROVE  vacancy'[tx[u].vacancy] = vacancy[tx[u].vacancy]
    OBVIOUS
  <2>1. vacancy' = vacancy \/ tx[u].vacancy # tx[w].vacancy
    <3>1. CASE Commit(w)
      BY <3>1 DEF Commit, HoldsVacancy, CurrentInv, VacancyLocks
    <3>2. CASE WritePatch(w)
      BY <3>2 DEF WritePatch, VacancyWaits
    <3> QED
      BY <3>1, <3>2
  <2>2. vacancy' \in {vacancy, [vacancy EXCEPT ![tx[w].vacancy] = tx[w].target]}
    BY DEF Commit, WritePatch
  <2>3. vacancy \in [Vacancies -> VacancyStatuses] /\ tx[u].vacancy \in Vacancies
    BY <1>1 DEF IInv, TypeOK, TxShape, HoldsVacancy, InUseCase, Stages, ApplicationRow
  <2> QED
    BY <2>1, <2>2, <2>3
<1>7. Follows(tx[u].app, tx[u].row) /\ InUseCase(u) => Follows(tx[u].app, tx[u].row)'
  BY <1>1, <1>2 DEF Follows
<1> QED
  BY <1>1, <1>2, <1>3, <1>4, <1>5, <1>6, <1>7 DEF Current, InUseCase, HoldsVacancy

\* Every step leaves every worker's view of the tables current.
LEMMA NextCurrentInv ==
  ASSUME IInv, CurrentInv, [Next /\ Undisturbed]_vars
  PROVE  CurrentInv'
<1>1. \A w \in Workers : Current(w)
  BY DEF CurrentInv
<1>2. TypeOK /\ Trail /\ TxShape
  BY DEF IInv
<1>3. ASSUME NEW w \in Workers, Current(w)', UNCHANGED <<vacancy, app, audit>>,
             \A u \in Workers \ {w} : tx'[u] = tx[u],
             HoldsVacancy(w)' =>
               \A u \in Workers \ {w} : HoldsVacancy(u) => tx[u].vacancy # tx'[w].vacancy
      PROVE  CurrentInv'
  <2>1. ASSUME NEW u \in Workers PROVE Current(u)'
    <3>1. CASE u # w
      BY <1>1, <1>3, <3>1 DEF Current, InUseCase, Follows
    <3> QED
      BY <1>3, <3>1
  <2>2. VacancyLocks'
    BY <1>3 DEF CurrentInv, VacancyLocks, HoldsVacancy
  <2> QED
    BY <1>3, <2>1, <2>2, TablesStay DEF CurrentInv
<1>4. ASSUME NEW w \in Workers, End(w)
      PROVE  CurrentInv'
  <2>1. tx'[w] = Idle /\ \A u \in Workers \ {w} : tx'[u] = tx[u]
    BY <1>2, <1>4, DoneTx DEF End
  <2>2. Current(w)' /\ ~HoldsVacancy(w)'
    BY <2>1, IdleTx DEF Current, InUseCase, HoldsVacancy
  <2> QED
    BY <1>3, <1>4, <2>1, <2>2 DEF End
<1>5. ASSUME NEW w \in Workers, Request(w)
      PROVE  CurrentInv'
  <2>1. ASSUME NEW a \in Applications, NEW v \in Vacancies, BeginPrepare(w, a, v)
        PROVE  CurrentInv'
    <3>1. Begun(w, "find", a, PreparedRow(v)) /\ Follows(a, PreparedRow(v))
      BY <1>2, <2>1, PrepareBegins, RequestFollows, Zenon
    <3>2. vacancy[PreparedRow(v).vacancy] # "ARCHIVED"
      BY <2>1 DEF BeginPrepare, PreparedRow
    <3>3. /\ Current(w)' /\ UNCHANGED <<vacancy, app, audit>>
          /\ tx'[w].stage = "find" /\ \A u \in Workers \ {w} : tx'[u] = tx[u]
      BY <1>2, <3>1, <3>2, CurrentRequest, BegunTx
    <3> QED
      BY <1>3, <3>3 DEF HoldsVacancy
  <2>2. ASSUME NEW a \in Applications, NEW row, Begun(w, "upsert", a, row), Follows(a, row),
               app[a] # None
        PROVE  CurrentInv'
    <3>1. /\ Current(w)' /\ UNCHANGED <<vacancy, app, audit>>
          /\ tx'[w].stage = "upsert" /\ \A u \in Workers \ {w} : tx'[u] = tx[u]
      BY <1>2, <2>2, CurrentRequest, BegunTx
    <3> QED
      BY <1>3, <3>1 DEF HoldsVacancy
  <2>3. ASSUME NEW a \in Applications, BeginApprove(w, a)
        PROVE  CurrentInv'
    <3>1. app[a] # None
      BY <2>3 DEF BeginApprove
    <3>2. Begun(w, "upsert", a, ApprovedRow(app[a]))
      BY <1>2, <2>3, ApproveBegins
    <3>3. Follows(a, ApprovedRow(app[a]))
      BY <2>3, RequestFollows, Zenon
    <3> QED
      BY <2>2, <3>1, <3>2, <3>3
  <2>4. ASSUME NEW a \in Applications, BeginCancel(w, a)
        PROVE  CurrentInv'
    <3>1. app[a] # None
      BY <2>4 DEF BeginCancel
    <3>2. Begun(w, "upsert", a, [app[a] EXCEPT !.status = "CANCELLED"])
      BY <1>2, <2>4, CancelBegins
    <3>3. Follows(a, [app[a] EXCEPT !.status = "CANCELLED"])
      BY <2>4, RequestFollows, Zenon
    <3> QED
      BY <2>2, <3>1, <3>2, <3>3
  <2>5. ASSUME NEW a \in Applications, BeginSubmit(w, a)
        PROVE  CurrentInv'
    <3>1. app[a] # None
      BY <2>5 DEF BeginSubmit
    <3>2. Begun(w, "upsert", a, SubmittedRow(app[a]))
      BY <1>2, <2>5, SubmitBegins
    <3>3. Follows(a, SubmittedRow(app[a]))
      BY <2>5, RequestFollows, Zenon
    <3> QED
      BY <2>2, <3>1, <3>2, <3>3
  <2>6. ASSUME NEW a \in Applications, NEW s \in Outcomes, BeginOutcome(w, a, s)
        PROVE  CurrentInv'
    <3>1. app[a] # None
      BY <2>6 DEF BeginOutcome
    <3>2. Begun(w, "upsert", a, [app[a] EXCEPT !.status = s, !.responded = TRUE])
      BY <1>2, <2>6, OutcomeBegins, Zenon
    <3>3. Follows(a, [app[a] EXCEPT !.status = s, !.responded = TRUE])
      BY <2>6, RequestFollows, Zenon
    <3> QED
      BY <2>2, <3>1, <3>2, <3>3
  <2>7. ASSUME NEW v \in Vacancies, NEW s \in PatchTargets, BeginPatch(w, v, s)
        PROVE  CurrentInv'
    <3>1. /\ UNCHANGED <<vacancy, app, audit>>
          /\ tx'[w].stage = "patch" /\ tx'[w].vacancy = v /\ tx'[w].target = s
          /\ \A u \in Workers \ {w} : tx'[u] = tx[u]
      BY <1>2, <2>7, PatchTx
    <3>2. Current(w)'
      BY <2>7, <3>1 DEF Current, InUseCase, BeginPatch
    <3> QED
      BY <1>3, <3>1, <3>2 DEF HoldsVacancy
  <2> QED
    BY <1>5, <2>1, <2>3, <2>4, <2>5, <2>6, <2>7 DEF Request
<1>6. ASSUME NEW w \in Workers, Proceed(w), Undisturbed
      PROVE  CurrentInv'
  <2>1. ASSUME NEW stage \in Stages \ {"idle", "patch"}, InUseCase(w), Advance(w, stage),
               stage \in {"updateVacancy", "commit"} /\ tx[w].target # None =>
                 CanTransitionVacancyStatus(vacancy[tx[w].vacancy], tx[w].target),
               stage = "commit" /\ tx[w].target # None => ~VacancyWaits(w)
        PROVE  CurrentInv'
    <3>1. /\ UNCHANGED <<vacancy, app, audit>>
          /\ tx'[w].stage = stage
          /\ tx'[w].vacancy = tx[w].vacancy /\ tx'[w].target = tx[w].target
          /\ \A u \in Workers \ {w} : tx'[u] = tx[u]
      BY <1>2, <2>1, AdvanceTx
    <3>2. Current(w)'
      BY <1>1, <1>2, <2>1, CurrentAdvance
    <3> QED
      BY <1>3, <2>1, <3>1, <3>2 DEF HoldsVacancy, VacancyWaits
  <2>2. CASE ReturnExisting(w) \/ RefuseConflict(w) \/ RefuseVacancy(w)
    BY <1>4, <2>2 DEF ReturnExisting, RefuseConflict, RefuseVacancy
  <2>3. CASE SelectResume(w)
    BY <2>1, <2>3 DEF SelectResume, InUseCase, Stages
  <2>4. CASE UpsertApplication(w)
    BY <2>1, <2>4 DEF UpsertApplication, InUseCase, Stages
  <2>5. CASE ReadVacancy(w)
    BY <2>1, <2>5 DEF ReadVacancy, InUseCase, Stages
  <2>6. CASE UpdateVacancy(w)
    BY <1>1, <2>1, <2>6 DEF UpdateVacancy, InUseCase, Stages, Current
  <2>7. CASE Commit(w) \/ WritePatch(w)
    <3>1. tx'[w] = Idle /\ \A u \in Workers \ {w} : tx'[u] = tx[u]
      BY <1>2, <2>7, DoneTx DEF Commit, WritePatch
    <3>2. /\ (\A u \in Workers : Current(u))'
          /\ VacancyLocks'
      <4>1. Current(w)'
        BY <3>1, IdleTx DEF Current, InUseCase
      <4>2. \A u \in Workers \ {w} : Current(u)'
        BY <1>6, <2>7, OthersStayCurrent
      <4>3. VacancyLocks'
        BY <3>1, IdleTx DEF CurrentInv, VacancyLocks, HoldsVacancy
      <4> QED
        BY <4>1, <4>2, <4>3
    <3>3. CASE Commit(w)
      BY <3>2, <3>3, CommitInOrder DEF CurrentInv
    <3>4. CASE WritePatch(w)
      <4>1. /\ tx[w].vacancy \in Vacancies /\ tx[w].target \in VacancyStatuses
            /\ CanTransitionVacancyStatus(vacancy[tx[w].vacancy], tx[w].target)
            /\ vacancy' = [vacancy EXCEPT ![tx[w].vacancy] = tx[w].target]
            /\ UNCHANGED <<app, audit>>
        BY <1>1, <1>2, <3>4, NoneAssumption DEF WritePatch, Current, TxShape
      <4>2. VacancyKnowsSubmission'
        <5> SUFFICES ASSUME NEW a \in Applications, app[a] # None, app[a].status \in Sent
                     PROVE  vacancy'[app[a].vacancy] \in AfterSubmission
          BY <4>1 DEF VacancyKnowsSubmission
        <5>1. vacancy[app[a].vacancy] \in AfterSubmission /\ app[a].vacancy \in Vacancies
          BY <1>2 DEF CurrentInv, VacancyKnowsSubmission, TypeOK, ApplicationRow
        <5> QED
          BY <1>2, <4>1, <5>1, AfterSubmissionStays DEF TypeOK
      <4>3. (\A a \in Applications : Orderly(a))' /\ EachStepAuditedOnce'
        BY <4>1 DEF CurrentInv, Orderly, EachStepAuditedOnce, Counted
      <4> QED
        BY <3>2, <4>2, <4>3 DEF CurrentInv
    <3> QED
      BY <2>7, <3>3, <3>4
  <2> QED
    BY <1>6, <2>2, <2>3, <2>4, <2>5, <2>6, <2>7 DEF Proceed
<1>7. CASE UNCHANGED vars
  <2>1. (\A w \in Workers : Current(w))' /\ VacancyLocks'
    BY <1>1, <1>7 DEF CurrentInv, VacancyLocks, HoldsVacancy, vars, Current, InUseCase, Follows
  <2> QED
    BY <1>7, <2>1, TablesStay DEF CurrentInv, vars
<1> QED
  BY <1>4, <1>5, <1>6, <1>7 DEF Next, Rollback

\* Nothing is there before the first request.
LEMMA InitCurrentInv == Init => CurrentInv
<1> SUFFICES ASSUME Init PROVE CurrentInv
  OBVIOUS
<1>1. (\A w \in Workers : Current(w)) /\ VacancyLocks
  BY IdleIsCurrent, IdleTx DEF Init, VacancyLocks, HoldsVacancy
<1> QED
  BY <1>1 DEF Init, CurrentInv, Orderly, EachStepAuditedOnce, VacancyKnowsSubmission

\* Behaviours in which no read is disturbed are behaviours of the workflow.
LEMMA UndisturbedIsSpec == UndisturbedSpec => Spec
<1>1. [Next /\ Undisturbed]_vars => [Next]_vars
  OBVIOUS
<1> QED
  BY <1>1, PTL DEF UndisturbedSpec, Spec

\* While no read is disturbed, requests see the tables as they are.
LEMMA CurrentInvHolds == UndisturbedSpec => []CurrentInv
<1>1. IInv /\ CurrentInv /\ [Next /\ Undisturbed]_vars => CurrentInv'
  BY NextCurrentInv
<1> QED
  BY <1>1, InitCurrentInv, InvariantHolds, UndisturbedIsSpec, PTL DEF UndisturbedSpec

\* While no read is disturbed, the vacancy of an application that was sent never
\* shows a status from before the submission.
THEOREM VacancyKnows == UndisturbedSpec => []VacancyKnowsSubmission
<1>1. CurrentInv => VacancyKnowsSubmission
  BY DEF CurrentInv
<1> QED
  BY <1>1, CurrentInvHolds, PTL

\* While no read is disturbed, each step of an application is in its trail once.
THEOREM StepsAuditedOnce == UndisturbedSpec => []EachStepAuditedOnce
<1>1. CurrentInv => EachStepAuditedOnce
  BY DEF CurrentInv
<1> QED
  BY <1>1, CurrentInvHolds, PTL

\* While no read is disturbed, nothing follows CANCELLED: the stale row of an
\* overlapping request (applications.go:95) is all that can revive an application.
THEOREM CancelledStays == UndisturbedSpec => CancelledIsFinal
<1>1. ASSUME IInv, CurrentInv, [Next]_vars, NEW a \in Applications,
             app[a] # None, app[a].status = "CANCELLED", app'[a] # app[a]
      PROVE  FALSE
  <2>1. PICK w \in Workers : Commit(w)
    <3>1. ~(UNCHANGED <<app, audit>>)
      BY <1>1
    <3> QED
      BY <1>1, <3>1, OnlyCommitWrites
  <2>2. InUseCase(w) /\ tx[w].app = a
    BY <1>1, <2>1, CommitTables DEF IInv
  <2>3. Follows(a, tx[w].row)
    BY <1>1, <2>2 DEF CurrentInv, Current
  <2>4. applicationTransitions["CANCELLED"] = {}
    BY DEF applicationTransitions, ApplicationStatuses
  <2> QED
    BY <1>1, <2>3, <2>4 DEF Follows
<1>2. IInv /\ CurrentInv /\ [Next]_vars =>
        [\A a \in Applications :
           app[a] # None /\ app[a].status = "CANCELLED" => app'[a] = app[a]]_vars
  BY <1>1
<1> QED
  BY <1>2, InvariantHolds, CurrentInvHolds, UndisturbedIsSpec, PTL DEF Spec, CancelledIsFinal

-----------------------------------------------------------------------------
(* The workflow implements the lifecycle: what is about to be written goes *)
(* to the lifecycle in one step, the COMMIT.                               *)

\* The application's part of a row, as the lifecycle sees it.
AboutOf(row) == IF row = None THEN None ELSE row.vacancy
StatusOf(row) == IF row = None THEN None ELSE row.status

\* The tables of the lifecycle are those of the workflow.
LEMMA SameTables ==
  /\ Lifecycle!ApplicationStatuses = ApplicationStatuses
  /\ Lifecycle!VacancyStatuses = VacancyStatuses
  /\ Lifecycle!applicationTransitions = applicationTransitions
  /\ Lifecycle!vacancyTransitions = vacancyTransitions
  /\ \A from, to : Lifecycle!CanTransitionVacancyStatus(from, to)
                     <=> CanTransitionVacancyStatus(from, to)
  /\ \A s : Lifecycle!IsActiveStatus(s) <=> IsActiveStatus(s)
BY DEF Lifecycle!ApplicationStatuses, ApplicationStatuses,
       Lifecycle!VacancyStatuses, VacancyStatuses,
       Lifecycle!applicationTransitions, applicationTransitions,
       Lifecycle!vacancyTransitions, vacancyTransitions,
       Lifecycle!CanTransitionVacancyStatus, CanTransitionVacancyStatus,
       Lifecycle!IsActiveStatus, IsActiveStatus

\* A row that replaces another, as the lifecycle sees it.
LEMMA RowReplaced ==
  ASSUME NEW a \in Applications, NEW row,
         app'[a] = row,
         \A b \in Applications \ {a} : app'[b] = app[b]
  PROVE  /\ [b \in Applications |-> AboutOf(app'[b])] =
              [[b \in Applications |-> AboutOf(app[b])] EXCEPT ![a] = AboutOf(row)]
         /\ [b \in Applications |-> StatusOf(app'[b])] =
              [[b \in Applications |-> StatusOf(app[b])] EXCEPT ![a] = StatusOf(row)]
  OBVIOUS

\* A COMMIT of what is current is a step of the lifecycle.
LEMMA CommitIsLifecycleStep ==
  ASSUME IInv, CurrentInv, NEW w \in Workers, Commit(w),
         NEW a \in Applications, NEW row \in ApplicationRow, tx[w].app = a, tx[w].row = row
  PROVE  Lifecycle!Next
<1> DEFINE about == [b \in Applications |-> AboutOf(app[b])]
           status == [b \in Applications |-> StatusOf(app[b])]
<1>1. /\ InUseCase(w)
      /\ a \in Applications /\ row \in ApplicationRow /\ row # None
      /\ tx[w].vacancy = row.vacancy /\ row.vacancy \in Vacancies
      /\ tx[w].target = VacancyTargetFor(row.status)
      /\ app'[a] = row
      /\ \A b \in Applications \ {a} : app'[b] = app[b]
  BY CommitTables, NoneAssumption DEF IInv, ApplicationRow
<1>2. Follows(a, row) /\ Current(w)
  BY <1>1 DEF CurrentInv, Current
<1>3. /\ app[a] # None => app[a] \in ApplicationRow
      /\ \A b \in Applications : app[b] # None => app[b] \in ApplicationRow
  BY <1>1 DEF IInv, TypeOK
<1>4. /\ [b \in Applications |-> AboutOf(app'[b])] = [about EXCEPT ![a] = row.vacancy]
      /\ [b \in Applications |-> StatusOf(app'[b])] = [status EXCEPT ![a] = row.status]
      /\ about[a] = AboutOf(app[a]) /\ status[a] = StatusOf(app[a])
  BY <1>1, RowReplaced DEF AboutOf, StatusOf
<1>5. row.status \notin Sent => UNCHANGED vacancy
  BY <1>1, OnlySentMoves DEF Commit
<1>6. app[a] # None => row.vacancy = app[a].vacancy
  BY <1>2, <1>3 DEF Follows, Same, PreparedRow, ApplicationRow
<1>7. app[a] # None => [about EXCEPT ![a] = row.vacancy] = about
  BY <1>1, <1>6 DEF AboutOf
<1>8. CASE app[a] = None
  <2>1. row.status = "WAITING_APPROVAL"
    BY <1>2, <1>8 DEF Follows, PreparedRow
  <2>2. vacancy[row.vacancy] # "ARCHIVED" /\ ~HasActive(row.vacancy)
    <3>1. vacancy[row.vacancy] # "ARCHIVED"
      BY <1>1, <1>2, <1>8 DEF Current
    <3>2. HoldsApplication(w) /\ Active(row)
      BY <1>1, <2>1 DEF Commit, HoldsApplication, Active, IsActiveStatus
    <3>3. \A b \in Applications \ {a} : ~ActiveOn(app[b], row.vacancy)
      BY <1>1, <3>2 DEF IInv, Locks
    <3> QED
      BY <1>8, <3>1, <3>3 DEF HasActive, ActiveOn, Active
  <2>3. ~Lifecycle!Open(row.vacancy)
    BY <1>1, <2>2, NoneAssumption, SameTables
    DEF Lifecycle!Open, HasActive, ActiveOn, Active
  <2>4. UNCHANGED vacancy
    BY <1>5, <2>1 DEF Sent, OutcomeStatuses
  <2>5. Lifecycle!Prepare(a, row.vacancy)
    BY <1>1, <1>4, <1>8, <2>1, <2>2, <2>3, <2>4 DEF Lifecycle!Prepare, AboutOf, StatusOf
  <2> QED
    BY <1>1, <2>5 DEF Lifecycle!Next
<1>9. CASE app[a] # None /\ row.status \in {"MANUAL_ACTION_REQUIRED", "CANCELLED"}
  <2>1. UNCHANGED vacancy
    BY <1>5, <1>9 DEF Sent, OutcomeStatuses
  <2>2. CASE row.status = "MANUAL_ACTION_REQUIRED"
    <3>1. app[a].status = "WAITING_APPROVAL"
      BY <1>2, <1>9, <2>2, OutcomesAssumption DEF Follows, PreparedRow, OutcomeStatuses
    <3>2. Lifecycle!Approve(a)
      BY <1>4, <1>7, <1>9, <2>1, <2>2, <3>1 DEF Lifecycle!Approve, AboutOf, StatusOf
    <3> QED
      BY <1>1, <3>2 DEF Lifecycle!Next
  <2>3. CASE row.status = "CANCELLED"
    <3>1. app[a].status \in {"WAITING_APPROVAL", "MANUAL_ACTION_REQUIRED"}
      BY <1>2, <1>9, <2>3, OutcomesAssumption DEF Follows, PreparedRow, OutcomeStatuses
    <3>2. /\ app[a].status \in ApplicationStatuses
          /\ "CANCELLED" \in applicationTransitions[app[a].status]
      BY <3>1 DEF ApplicationStatuses, applicationTransitions
    <3>3. Lifecycle!Cancel(a)
      BY <1>4, <1>7, <1>9, <2>1, <2>3, <3>2, SameTables DEF Lifecycle!Cancel, AboutOf, StatusOf
    <3> QED
      BY <1>1, <3>3 DEF Lifecycle!Next
  <2> QED
    BY <1>9, <2>2, <2>3
<1>10. CASE app[a] # None /\ row.status \in {"SUBMITTED"} \cup Outcomes
  <2>1. row.status \in Sent
    BY <1>10, OutcomesAssumption DEF Sent
  <2>2. /\ tx[w].target = row.status /\ tx[w].target # None
        /\ CanTransitionVacancyStatus(vacancy[row.vacancy], row.status)
        /\ vacancy' = [vacancy EXCEPT ![row.vacancy] = row.status]
    BY <1>1, <1>2, <2>1, SentIsTarget, NoneAssumption DEF Current, Commit
  <2>3. app[a].status \in ApplicationStatuses
    BY <1>3, <1>10 DEF ApplicationRow
  <2>4. row.status \in applicationTransitions[app[a].status]
    BY <1>2, <1>10, <2>3, OutcomesAssumption
    DEF Follows, PreparedRow, OutcomeStatuses, applicationTransitions, ApplicationStatuses
  <2>5. Lifecycle!Report(a, row.status)
    BY <1>4, <1>6, <1>7, <1>10, <2>2, <2>3, <2>4, SameTables
    DEF Lifecycle!Report, AboutOf, StatusOf
  <2> QED
    BY <1>1, <1>10, <2>5 DEF Lifecycle!Next
<1> QED
  BY <1>2, <1>8, <1>9, <1>10 DEF Follows

\* Nothing but a COMMIT and the write of a PATCH moves rows and vacancies.
LEMMA OnlyWritesMoveTables ==
  ASSUME NEW w \in Workers, Request(w) \/ Proceed(w) \/ Rollback(w),
         ~Commit(w), ~WritePatch(w)
  PROVE  UNCHANGED <<vacancy, app>>
<1>1. CASE Request(w)
  BY <1>1 DEF Request, BeginPrepare, BeginApprove, BeginCancel, BeginSubmit, BeginOutcome,
     BeginPatch, Start
<1>2. CASE Proceed(w)
  BY <1>2 DEF Proceed, ReturnExisting, SelectResume, UpsertApplication, RefuseConflict,
     ReadVacancy, RefuseVacancy, UpdateVacancy, Advance, End
<1>3. CASE Rollback(w)
  BY <1>3 DEF Rollback, End
<1> QED
  BY <1>1, <1>2, <1>3

\* Every step is one of the lifecycle, or invisible to it.
LEMMA StepsAreLifecycleSteps ==
  ASSUME IInv, CurrentInv, [Next]_vars
  PROVE  [Lifecycle!Next]_(Lifecycle!vars)
<1>1. CASE UNCHANGED <<vacancy, app>>
  BY <1>1 DEF Lifecycle!vars
<1>2. ASSUME NEW w \in Workers, Commit(w)
      PROVE  Lifecycle!Next
  <2>1. tx[w].app \in Applications /\ tx[w].row \in ApplicationRow
    BY <1>2, CommitTables DEF IInv
  <2>2. PICK a \in Applications, row \in ApplicationRow : tx[w].app = a /\ tx[w].row = row
    BY <2>1
  <2> QED
    BY <1>2, <2>2, CommitIsLifecycleStep
<1>3. ASSUME NEW w \in Workers, WritePatch(w)
      PROVE  Lifecycle!Next
  <2>1. /\ tx[w].vacancy \in Vacancies /\ tx[w].target \in PatchTargets
        /\ CanTransitionVacancyStatus(vacancy[tx[w].vacancy], tx[w].target)
        /\ vacancy' = [vacancy EXCEPT ![tx[w].vacancy] = tx[w].target]
        /\ UNCHANGED app
    BY <1>3, PatchTargetsAssumption, NoneAssumption
    DEF WritePatch, CurrentInv, Current, IInv, TxShape
  <2>2. PICK v \in Vacancies, s \in PatchTargets : tx[w].vacancy = v /\ tx[w].target = s
    BY <2>1
  <2>3. Lifecycle!ChangeVacancy(v, s)
    BY <2>1, <2>2, SameTables DEF Lifecycle!ChangeVacancy
  <2> QED
    BY <2>3 DEF Lifecycle!Next
<1>4. CASE UNCHANGED vars
  BY <1>1, <1>4 DEF vars
<1> QED
  BY <1>1, <1>2, <1>3, <1>4, OnlyWritesMoveTables DEF Next

\* While no read is disturbed, the transactions implement the lifecycle: the
\* row locks and the unique index see to the rest, however many requests run.
THEOREM ImplementsLifecycle == UndisturbedSpec => LifecycleSpec
<1>1. Init => Lifecycle!Init
  BY DEF Init, Lifecycle!Init
<1>2. IInv /\ CurrentInv /\ [Next]_vars => [Lifecycle!Next]_(Lifecycle!vars)
  BY StepsAreLifecycleSteps
<1> QED
  BY <1>1, <1>2, InvariantHolds, CurrentInvHolds, UndisturbedIsSpec, PTL
  DEF Spec, LifecycleSpec, Lifecycle!Spec

-----------------------------------------------------------------------------
(* What it takes of the requests that no read is disturbed.                *)

\* The request has read the status of its vacancy, or will.
DependsOnVacancy(w) == HasReadVacancy(w) \/ tx[w].target # None

\* Two requests in flight are about two applications; and the one does not move
\* the vacancy the other depends on.  Any number of preparations may still meet
\* on one vacancy, with approvals and cancellations beside them.
RequestsApart ==
  \A u, w \in Workers :
    u # w =>
      /\ tx[u].app = tx[w].app => tx[u].app = None
      /\ tx[u].target # None /\ DependsOnVacancy(w) => tx[u].vacancy # tx[w].vacancy

\* An owner who waits for the answer about an application, and about the
\* vacancy's move, before he asks for the next thing; nobody else waits.
ApartSpec == Init /\ [][Next /\ RequestsApart']_vars

\* Requests that are apart disturb no read.
LEMMA ApartIsUndisturbed ==
  ASSUME IInv, RequestsApart, Next
  PROVE  Undisturbed
<1> SUFFICES ASSUME NEW w \in Workers, tx'[w] = tx[w]
             PROVE  /\ tx[w].app # None => app'[tx[w].app] = app[tx[w].app]
                    /\ HasReadVacancy(w) => vacancy'[tx[w].vacancy] = vacancy[tx[w].vacancy]
  BY DEF Undisturbed
<1>1. TypeOK /\ TxShape
  BY DEF IInv
<1>2. PICK u \in Workers : Request(u) \/ Proceed(u) \/ Rollback(u)
  BY DEF Next
<1>3. CASE ~Commit(u) /\ ~WritePatch(u)
  BY <1>2, <1>3, OnlyWritesMoveTables
<1>4. CASE Commit(u) \/ WritePatch(u)
  <2>1. u # w
    BY <1>1, <1>4, DoneTx, IdleTx DEF Commit, WritePatch
  <2>2. tx[u].app = tx[w].app => tx[u].app = None
    BY <2>1 DEF RequestsApart
  <2>3. tx[w].app # None => app'[tx[w].app] = app[tx[w].app]
    <3>1. CASE Commit(u)
      <4>1. tx[u].app \in Applications /\ \A b \in Applications \ {tx[u].app} : app'[b] = app[b]
        BY <1>1, <3>1, CommitTables
      <4>2. tx[w].app \in Applications \cup {None}
        BY <1>1 DEF TypeOK, Tx
      <4> QED
        BY <2>2, <4>1, <4>2, NoneAssumption
    <3>2. CASE WritePatch(u)
      BY <3>2 DEF WritePatch
    <3> QED
      BY <1>4, <3>1, <3>2
  <2>4. HasReadVacancy(w) => vacancy'[tx[w].vacancy] = vacancy[tx[w].vacancy]
    <3> SUFFICES ASSUME HasReadVacancy(w)
                 PROVE  vacancy'[tx[w].vacancy] = vacancy[tx[w].vacancy]
      OBVIOUS
    <3>1. DependsOnVacancy(w)
      BY DEF DependsOnVacancy
    <3>2. tx[u].target = None \/ tx[u].vacancy # tx[w].vacancy
      BY <2>1, <3>1 DEF RequestsApart
    <3>3. \/ vacancy' = vacancy
          \/ tx[u].target # None /\ vacancy' = [vacancy EXCEPT ![tx[u].vacancy] = tx[u].target]
      BY <1>1, <1>4, NoneAssumption DEF Commit, WritePatch, TxShape
    <3>4. tx[w].vacancy \in Vacancies
      BY <1>1, NoneAssumption
      DEF HasReadVacancy, TypeOK, Tx, TxShape, InUseCase, ApplicationRow, Idle
    <3>5. vacancy \in [Vacancies -> VacancyStatuses]
      BY <1>1 DEF TypeOK
    <3> QED
      BY <3>2, <3>3, <3>4, <3>5
  <2> QED
    BY <2>3, <2>4
<1> QED
  BY <1>3, <1>4

\* Behaviours of requests that are apart are behaviours in which no read is
\* disturbed.
LEMMA ApartSpecIsUndisturbed == ApartSpec => UndisturbedSpec
<1>1. Init => RequestsApart
  BY IdleTx DEF Init, RequestsApart, Idle
<1>2. RequestsApart /\ [Next /\ RequestsApart']_vars => RequestsApart'
  BY DEF vars, RequestsApart, DependsOnVacancy, HasReadVacancy
<1>3. IInv /\ RequestsApart /\ [Next /\ RequestsApart']_vars => [Next /\ Undisturbed]_vars
  BY ApartIsUndisturbed
<1>4. [Next /\ RequestsApart']_vars => [Next]_vars
  OBVIOUS
<1> QED
  BY <1>1, <1>2, <1>3, <1>4, InvariantHolds, PTL DEF ApartSpec, Spec, UndisturbedSpec

\* What the owner has to do for the workflow to be what it promises, however
\* many other requests are in flight: ask for one thing about an application,
\* or about a vacancy that moves, at a time (applications.go:95, app.go:182).
\* Preparations that meet on one vacancy are the program's business: the
\* unique index sees to them.
THEOREM PatientOwnerIsServed ==
  ApartSpec => /\ LifecycleSpec
               /\ []EachStepAuditedOnce
               /\ []VacancyKnowsSubmission
               /\ CancelledIsFinal
BY ApartSpecIsUndisturbed, ImplementsLifecycle, StepsAuditedOnce, VacancyKnows,
   CancelledStays, PTL
=============================================================================
