--------------------------- MODULE ImportContract ---------------------------
(***************************************************************************)
(* What importing and deciding promise to whoever reads the table of       *)
(* vacancies: each import and each decision of the owner happens at once,  *)
(* or not at all.  A new posting is classified, unless a primary of the    *)
(* same content is there: then it becomes that one's duplicate.  A known   *)
(* posting is brought up to date and keeps what was decided about it; it   *)
(* is classified anew otherwise, and a duplicate then stops being one.     *)
(* No transactions, no locks, no companies.                                *)
(***************************************************************************)
EXTENDS Statuses

CONSTANTS
  Postings, Contents,
  Says,          \* the contents a posting can have
  Verdicts,      \* what filters and scoring can make of a vacancy
  Kept,          \* statuses that no import takes back
  PatchTargets,  \* statuses the owner asks for
  None

VARIABLE vacancies  \* the row of each posting, None before its first import

Init == vacancies = [p \in Postings |-> None]

Known(p) == vacancies[p] # None

Primary(p, c) ==
  Known(p) /\ vacancies[p].content = c /\ vacancies[p].duplicateOf = None

Put(p, c, status, link) ==
  vacancies' = [vacancies EXCEPT ![p] =
                  [content |-> c, status |-> status, duplicateOf |-> link]]

New(p, c, verdict) ==
  /\ ~Known(p)
  /\ \A q \in Postings : ~Primary(q, c)
  /\ Put(p, c, verdict, None)

NewDuplicate(p, c, primary) ==
  /\ ~Known(p)
  /\ Primary(primary, c)
  /\ Put(p, c, "DUPLICATE", primary)

Again(p, c, verdict) ==
  /\ Known(p)
  /\ Put(p, c, IF vacancies[p].status \in Kept THEN vacancies[p].status ELSE verdict, None)

Decide(p, status) ==
  /\ Known(p)
  /\ CanTransitionVacancyStatus(vacancies[p].status, status)
  /\ vacancies' = [vacancies EXCEPT ![p].status = status]

Next ==
  \/ \E p \in Postings : \E c \in Says[p] :
       \/ \E v \in Verdicts : New(p, c, v) \/ Again(p, c, v)
       \/ \E q \in Postings : NewDuplicate(p, c, q)
  \/ \E p \in Postings, s \in PatchTargets : Decide(p, s)

Spec == Init /\ [][Next]_vacancies
=============================================================================
