--------------------------- MODULE VacancyImport ---------------------------
(***************************************************************************)
(* How vacancies get into the database: importVacancyFromRaw of            *)
(* internal/app/app.go, run by a search for every vacancy found and by the *)
(* manual import of one URL, next to the owner's PATCH of a status.  An    *)
(* import is one READ COMMITTED transaction; its search for a primary      *)
(* vacancy of the same content (detectDedup) goes through the pool, on     *)
(* another connection, and so sees committed rows only.  Reads take no     *)
(* lock; a write locks its row until the transaction ends.                 *)
(*                                                                         *)
(* A posting is a pair of a source and an external id, the unique key of   *)
(* the vacancies table; the row of a posting keeps its id for ever, so a   *)
(* link to a vacancy is a link to a posting.  What a posting says (title,  *)
(* employer, text, salary) is its content, told apart by the content hash; *)
(* an employer may edit it between two imports.  Filters and scoring are   *)
(* a verdict that each import draws anew, because the profile changes too; *)
(* the row of vacancy_matches, written by the same transaction under the   *)
(* vacancy's lock, is the detail of that verdict and is left out.          *)
(***************************************************************************)
EXTENDS Statuses

CONSTANTS
  Workers,       \* imports and requests that can be in flight together
  Postings,
  Contents,
  Says,          \* the contents a posting can have, as its employer edits it
  Companies,     \* normalized company names
  Employer,      \* the company a content names, None for none; the hash covers the name
  Hosts,         \* companies named after the host of a URL
  Verdicts,      \* what filters and scoring can make of a vacancy
  PatchTargets,  \* statuses the owner asks for with PATCH /vacancies/{id}
  None           \* no row, no link, no status, no name

VacancyRow ==
  [content: Contents, status: VacancyStatuses, duplicateOf: Postings \cup {None}]

ASSUME SaysAssumption == Says \in [Postings -> SUBSET Contents]
ASSUME EmployerAssumption ==
  Employer \in [Contents -> Companies \cup {None}] /\ Hosts \subseteq Companies
ASSUME VerdictsAssumption ==
  Verdicts \subseteq {"FILTERED_OUT", "RECOMMENDED", "NORMALIZED"} /\ Verdicts # {}
ASSUME ImportPatchAssumption == PatchTargets \subseteq VacancyStatuses
ASSUME ImportNoneAssumption ==
  None \notin Postings \cup Contents \cup Companies \cup VacancyStatuses \cup VacancyRow

VARIABLES
  vacancies,   \* the committed row of each posting, or None
  reimported,  \* history: postings imported again after their first import
  unordered,   \* history: postings whose import no lock ordered
  tx           \* what each worker is doing

vars == <<vacancies, reimported, unordered, tx>>

history == <<reimported, unordered>>

(***************************************************************************)
(* Stages of an import, named after the statement that comes next:         *)
(*   company   GetOrCreateCompany, which locks the company's row           *)
(*   find      FindVacancyBySourceExternalID                               *)
(*   dedup     detectDedup, then the verdict                               *)
(*   upsert    UpsertVacancy, which locks the vacancy's row                *)
(*   commit    UpsertVacancyMatch and COMMIT                               *)
(* A PATCH has one stage, patch: checked and not yet written.              *)
(***************************************************************************)
Stages == {"idle", "company", "find", "dedup", "upsert", "commit", "patch"}

Tx == [stage: Stages,
       posting: Postings \cup {None},
       content: Contents \cup {None},
       company: Companies \cup {None},
       read: VacancyStatuses \cup {None},      \* the status found at the start
       status: VacancyStatuses \cup {None},    \* the status to write
       duplicateOf: Postings \cup {None}]      \* the link to write

Idle == [stage |-> "idle", posting |-> None, content |-> None, company |-> None,
         read |-> None, status |-> None, duplicateOf |-> None]

TypeOK ==
  /\ vacancies \in [Postings -> VacancyRow \cup {None}]
  /\ reimported \subseteq Postings /\ unordered \subseteq Postings
  /\ tx \in [Workers -> Tx]

Init ==
  /\ vacancies = [p \in Postings |-> None]
  /\ reimported = {} /\ unordered = {}
  /\ tx = [w \in Workers |-> Idle]

-----------------------------------------------------------------------------

Exists(p) == vacancies[p] # None

HoldsCompany(w) == tx[w].stage \in {"find", "dedup", "upsert", "commit"}

HoldsVacancy(w) == tx[w].stage = "commit"

\* Fault: ON CONFLICT DO NOTHING, which does not lock the company's row.
CompanyNeverLocked(w) == FALSE

CompanyWaits(w) ==
  \E u \in Workers \ {w} : HoldsCompany(u) /\ tx[u].company = tx[w].company

\* Fault: a PATCH reads the row FOR SHARE, and two of them wait for each other.
SharedReadWaits(w) ==
  \E u \in Workers \ {w} :
    /\ HoldsVacancy(u) \/ tx[u].stage = "patch"
    /\ tx[u].posting = tx[w].posting

VacancyWaits(w) ==
  \E u \in Workers \ {w} : HoldsVacancy(u) /\ tx[u].posting = tx[w].posting

\* What FindVacancyByContentHash may return.  It takes the first by
\* created_at, a clock read before the import waited for any lock; here, any.
Primaries(c) ==
  {p \in Postings :
     Exists(p) /\ vacancies[p].content = c /\ vacancies[p].duplicateOf = None}

KeptStatuses ==
  {"ARCHIVED", "REJECTED", "OFFER", "INTERVIEW", "HR_CONTACT", "SUBMITTED",
   "WAITING_APPROVAL", "APPLICATION_PREPARED", "VIEWED"}

\* Fault: no check that there is a status to preserve.
shouldPreserveNothing(existing, computed) ==
  existing # computed /\ existing \in KeptStatuses \cup {None}

\* Fault: the list of statuses to preserve lacks one.
shouldPreserveButArchived(existing, computed) ==
  existing # computed /\ existing \in KeptStatuses \ {"ARCHIVED"}

shouldPreserveStatus(existing, computed) ==
  existing # computed /\ existing \in KeptStatuses

-----------------------------------------------------------------------------

Advance(w, stage) ==
  /\ tx' = [tx EXCEPT ![w].stage = stage]
  /\ UNCHANGED <<vacancies, history>>

End(w) == tx' = [tx EXCEPT ![w] = Idle] /\ UNCHANGED <<vacancies, history>>

\* A vacancy of HeadHunter without an employer's name belongs to the company named
\* after the host of its URL: the URL the owner gave, or the one a search lists.
CompaniesOf(c) == IF Employer[c] = None THEN Hosts ELSE {Employer[c]}

BeginImport(w, p, c, company) ==
  /\ tx[w].stage = "idle"
  /\ tx' = [tx EXCEPT ![w] = [Idle EXCEPT !.stage = "company", !.posting = p, !.content = c,
                                         !.company = company]]
  /\ UNCHANGED <<vacancies, history>>

\* Imports in flight of the same content, without an employer's name, from
\* other hosts: they lock another company.
Unordered(w) ==
  {u \in Workers \ {w} :
     /\ HoldsCompany(u)
     /\ tx[u].content = tx[w].content
     /\ Employer[tx[w].content] = None}

\* The row of the company stays locked until COMMIT.
GetOrCreateCompany(w) ==
  /\ tx[w].stage = "company"
  /\ ~CompanyWaits(w)
  /\ tx' = [tx EXCEPT ![w].stage = "find"]
  /\ unordered' = IF Unordered(w) = {} THEN unordered
                  ELSE unordered \cup {tx[u].posting : u \in Unordered(w) \cup {w}}
  /\ UNCHANGED <<vacancies, reimported>>

FindVacancy(w) ==
  /\ tx[w].stage = "find"
  /\ tx' = [tx EXCEPT ![w].stage = "dedup",
                      ![w].read = IF Exists(tx[w].posting)
                                  THEN vacancies[tx[w].posting].status ELSE None]
  /\ UNCHANGED <<vacancies, history>>

Compute(w, status, duplicateOf) ==
  /\ tx' = [tx EXCEPT ![w].stage = "upsert",
                      ![w].status = IF shouldPreserveStatus(tx[w].read, status)
                                    THEN tx[w].read ELSE status,
                      ![w].duplicateOf = duplicateOf]
  /\ UNCHANGED <<vacancies, history>>

\* A posting seen for the first time, whose content is already here.
DetectDuplicate(w, primary) ==
  /\ tx[w].stage = "dedup"
  /\ tx[w].read = None
  /\ primary \in Primaries(tx[w].content)
  /\ Compute(w, "DUPLICATE", primary)

\* A known posting is never a duplicate, whatever it was before.
Classify(w, verdict) ==
  /\ tx[w].stage = "dedup"
  /\ tx[w].read # None \/ Primaries(tx[w].content) = {}
  /\ Compute(w, verdict, None)

UpsertVacancy(w) ==
  /\ tx[w].stage = "upsert"
  /\ ~VacancyWaits(w)
  /\ Advance(w, "commit")

WrittenRow(t) == [content |-> t.content, status |-> t.status, duplicateOf |-> t.duplicateOf]

\* Fault: ON CONFLICT keeps the link that is there.
CommitKeepsLink(w) ==
  LET p == tx[w].posting IN
    /\ tx[w].stage = "commit"
    /\ vacancies' = [vacancies EXCEPT ![p] =
                       IF Exists(p)
                       THEN [WrittenRow(tx[w]) EXCEPT !.duplicateOf = vacancies[p].duplicateOf]
                       ELSE WrittenRow(tx[w])]
    /\ reimported' = IF Exists(p) THEN reimported \cup {p} ELSE reimported
    /\ tx' = [tx EXCEPT ![w] = Idle]
    /\ UNCHANGED unordered

\* INSERT or, on a conflict with the posting's row, UPDATE of every column but
\* the id and created_at.
Commit(w) ==
  LET p == tx[w].posting IN
    /\ tx[w].stage = "commit"
    /\ vacancies' = [vacancies EXCEPT ![p] = WrittenRow(tx[w])]
    /\ reimported' = IF Exists(p) THEN reimported \cup {p} ELSE reimported
    /\ tx' = [tx EXCEPT ![w] = Idle]
    /\ UNCHANGED unordered

\* A statement fails, the caller goes away or the process dies.
Rollback(w) == tx[w].stage # "idle" /\ End(w)

\* App.UpdateVacancyStatus: the status is checked against the row read, and
\* the link that was read is written back with the new status.
BeginPatch(w, p, status) ==
  /\ tx[w].stage = "idle"
  /\ Exists(p)
  /\ CanTransitionVacancyStatus(vacancies[p].status, status)
  /\ tx' = [tx EXCEPT ![w] =
              [Idle EXCEPT !.stage = "patch", !.posting = p, !.read = vacancies[p].status,
                           !.status = status, !.duplicateOf = vacancies[p].duplicateOf]]
  /\ UNCHANGED <<vacancies, history>>

WritePatch(w) ==
  /\ tx[w].stage = "patch"
  /\ ~VacancyWaits(w)
  /\ vacancies' = [vacancies EXCEPT ![tx[w].posting].status = tx[w].status,
                                    ![tx[w].posting].duplicateOf = tx[w].duplicateOf]
  /\ tx' = [tx EXCEPT ![w] = Idle]
  /\ UNCHANGED history

Request(w) ==
  \/ \E p \in Postings : \E c \in Says[p] : \E company \in CompaniesOf(c) :
       BeginImport(w, p, c, company)
  \/ \E p \in Postings, s \in PatchTargets : BeginPatch(w, p, s)

Proceed(w) ==
  \/ GetOrCreateCompany(w)
  \/ FindVacancy(w)
  \/ \E p \in Postings : DetectDuplicate(w, p)
  \/ \E v \in Verdicts : Classify(w, v)
  \/ UpsertVacancy(w)
  \/ Commit(w)
  \/ WritePatch(w)

Next == \E w \in Workers : Request(w) \/ Proceed(w) \/ Rollback(w)

Spec == Init /\ [][Next]_vars

\* Lock queues are first come, first served and goroutines are scheduled; the
\* pool is taken to have a connection for detectDedup.
FairSpec == Spec /\ \A w \in Workers : SF_vars(Proceed(w))

-----------------------------------------------------------------------------
(* What must hold.                                                         *)

Linked(p) == Exists(p) /\ vacancies[p].duplicateOf # None

\* Following the links of duplicates always ends, at a vacancy that exists and
\* is linked to nothing: no vacancy is a duplicate of itself, and no two of
\* each other.  The company's lock is what forbids two imports of one posting
\* to find each other's row.  Only postings without an employer's name, found
\* under two hosts at the same time, escape it: such a vacancy can become a
\* duplicate of itself.
LinksLeadToPrimaries ==
  \A S \in SUBSET (Postings \ unordered) :
    (\A p \in S : Linked(p) /\ vacancies[p].duplicateOf \in S) => S = {}

\* README: "deduplication".  Among vacancies imported once, each content has
\* one primary, even when a search and manual imports meet the postings at the
\* same time, with the same exception.
OnePrimaryPerContent ==
  \A p, q \in Postings \ (reimported \cup unordered) :
    /\ Exists(p) /\ ~Linked(p)
    /\ Exists(q) /\ ~Linked(q)
    /\ vacancies[p].content = vacancies[q].content
    => p = q

\* A vacancy that is linked to its primary is never offered to the owner nor
\* moved along by an application, whichever write comes last.
LinkedIsNotOffered ==
  \A p \in Postings : Linked(p) => vacancies[p].status \in {"DUPLICATE", "ARCHIVED"}

\* What the owner or an application decided about a vacancy changes along the
\* table of transitions only, unless the writer had read the vacancy before
\* the decision.
DecisionsOutlastImports ==
  [][\A p \in Postings :
       Exists(p) /\ vacancies[p].status \in KeptStatuses =>
         \/ CanTransitionVacancyStatus(vacancies[p].status, vacancies'[p].status)
         \/ \E w \in Workers :
              tx[w].posting = p /\ tx[w] # tx'[w] /\ tx[w].read # vacancies[p].status]_vars

\* Locks are taken company first, vacancy second: every import ends.
ImportsFinish == \A w \in Workers : tx[w].stage # "idle" ~> tx[w].stage = "idle"

\* TestVacancyTransitions: an "archived vacancy must not transition back".
ArchivedStaysArchived ==
  [][\A p \in Postings :
       Exists(p) /\ vacancies[p].status = "ARCHIVED" => vacancies'[p].status = "ARCHIVED"]_vars

\* TestRunSearchImportsAndIsIdempotent: a search that finds a vacancy again,
\* unchanged, changes nothing.  Here: a duplicate stays one.
ReimportIsIdempotent ==
  [][\A p \in Postings :
       Linked(p) /\ vacancies'[p].content = vacancies[p].content =>
         vacancies'[p].duplicateOf = vacancies[p].duplicateOf]_vars
=============================================================================
