------------------------ MODULE ApplicationLifecycle ------------------------
(***************************************************************************)
(* What the application use cases promise to an owner whose requests do    *)
(* not write what another request has read: each either does nothing or    *)
(* moves one application, with its vacancy, along the two tables of        *)
(* transitions, in one step.  No statements, no transactions, no locks.    *)
(***************************************************************************)
EXTENDS Statuses

CONSTANTS Vacancies, Applications, InitialStatuses, PatchTargets, Outcomes, None

VARIABLES
  vacancy,  \* status of each vacancy
  about,    \* the vacancy an application is about, None before it exists
  status    \* status of each application, None before it exists

vars == <<vacancy, about, status>>

Init ==
  /\ vacancy \in [Vacancies -> InitialStatuses]
  /\ about = [a \in Applications |-> None]
  /\ status = [a \in Applications |-> None]

Open(v) == \E a \in Applications : about[a] = v /\ IsActiveStatus(status[a])

Prepare(a, v) ==
  /\ about[a] = None
  /\ vacancy[v] # "ARCHIVED"
  /\ ~Open(v)
  /\ about' = [about EXCEPT ![a] = v]
  /\ status' = [status EXCEPT ![a] = "WAITING_APPROVAL"]
  /\ UNCHANGED vacancy

\* Two moves of the table, WAITING_APPROVAL -> APPROVED -> MANUAL_ACTION_REQUIRED.
Approve(a) ==
  /\ status[a] = "WAITING_APPROVAL"
  /\ status' = [status EXCEPT ![a] = "MANUAL_ACTION_REQUIRED"]
  /\ UNCHANGED <<vacancy, about>>

Cancel(a) ==
  /\ status[a] \in ApplicationStatuses
  /\ "CANCELLED" \in applicationTransitions[status[a]]
  /\ status' = [status EXCEPT ![a] = "CANCELLED"]
  /\ UNCHANGED <<vacancy, about>>

\* The vacancy takes the status of its application; both tables must allow it.
Report(a, s) ==
  /\ status[a] \in ApplicationStatuses
  /\ s \in applicationTransitions[status[a]]
  /\ CanTransitionVacancyStatus(vacancy[about[a]], s)
  /\ status' = [status EXCEPT ![a] = s]
  /\ vacancy' = [vacancy EXCEPT ![about[a]] = s]
  /\ UNCHANGED about

ChangeVacancy(v, s) ==
  /\ CanTransitionVacancyStatus(vacancy[v], s)
  /\ vacancy' = [vacancy EXCEPT ![v] = s]
  /\ UNCHANGED <<about, status>>

Next ==
  \/ \E a \in Applications, v \in Vacancies : Prepare(a, v)
  \/ \E a \in Applications : Approve(a) \/ Cancel(a) \/ Report(a, "SUBMITTED")
  \/ \E a \in Applications, s \in Outcomes : Report(a, s)
  \/ \E v \in Vacancies, s \in PatchTargets : ChangeVacancy(v, s)

Spec == Init /\ [][Next]_vars
=============================================================================
