---------------------------- MODULE ImportProofs ----------------------------
(***************************************************************************)
(* Proofs about VacancyImport, for every set of workers, postings,         *)
(* contents and companies.  The inductive invariant has four parts:        *)
(*   TxShape   what a worker's record says at each stage;                  *)
(*   Links     a link is only ever written together with DUPLICATE or      *)
(*             ARCHIVED;                                                   *)
(*   Decided   what an import or a PATCH writes follows from what it read; *)
(*   Dedup     the company's lock makes the search for a primary exact.    *)
(* The last part is about requests whose reads nobody disturbs: the import *)
(* then implements ImportContract.                                         *)
(***************************************************************************)
EXTENDS ImportRefinement, TLAPS

Importing(w) == tx[w].stage \in {"company", "find", "dedup", "upsert", "commit"}

Computed(w) == tx[w].stage \in {"upsert", "commit"}

TxShape ==
  \A w \in Workers :
    /\ Importing(w) => /\ tx[w].posting \in Postings /\ tx[w].content \in Contents
                       /\ tx[w].company \in CompaniesOf(tx[w].content)
    /\ tx[w].stage \in {"dedup", "upsert", "commit"} /\ tx[w].read # None =>
         Exists(tx[w].posting)
    /\ Computed(w) => tx[w].status \in VacancyStatuses
    /\ tx[w].stage = "patch" =>
         /\ tx[w].posting \in Postings /\ Exists(tx[w].posting)
         /\ tx[w].status \in VacancyStatuses

LinkStatuses == {"DUPLICATE", "ARCHIVED"}

Links ==
  /\ LinkedIsNotOffered
  /\ \A w \in Workers :
       (Computed(w) \/ tx[w].stage = "patch") /\ tx[w].duplicateOf # None =>
         tx[w].status \in LinkStatuses

Decided ==
  \A w \in Workers :
    /\ Computed(w) /\ tx[w].read \in KeptStatuses => tx[w].status = tx[w].read
    /\ tx[w].stage = "patch" =>
         tx[w].read \in VacancyStatuses /\ CanTransitionVacancyStatus(tx[w].read, tx[w].status)

\* An original is a primary as its first import left it.
Original(p) ==
  Exists(p) /\ p \notin reimported \cup unordered /\ vacancies[p].duplicateOf = None

Dedup ==
  /\ \A u, w \in Workers :
       u # w /\ HoldsCompany(u) /\ HoldsCompany(w) =>
         \/ tx[u].content # tx[w].content
         \/ tx[w].posting \in unordered
  /\ \A w \in Workers :
       tx[w].stage = "patch" /\ tx[w].posting \notin reimported =>
         tx[w].duplicateOf = vacancies[tx[w].posting].duplicateOf
  /\ \A w \in Workers :
       Computed(w) /\ tx[w].duplicateOf = None /\ ~Exists(tx[w].posting) =>
         \A p \in Postings : Original(p) => vacancies[p].content # tx[w].content

IInv == TypeOK /\ TxShape /\ Links /\ Decided /\ Dedup /\ OnePrimaryPerContent

-----------------------------------------------------------------------------
(* The rows and the workers' records after a step.                         *)

\* An idle worker's record.
LEMMA IdleTx ==
  /\ Idle \in Tx
  /\ Idle.stage = "idle"
  BY DEF Idle, Tx, Stages

\* The record of one worker is replaced.
LEMMA SetTx ==
  ASSUME TypeOK, NEW w \in Workers, NEW rec \in Tx, tx' = [tx EXCEPT ![w] = rec]
  PROVE  /\ tx'[w] = rec
         /\ \A u \in Workers \ {w} : tx'[u] = tx[u]
         /\ tx' \in [Workers -> Tx]
  BY DEF TypeOK

\* A statement that only moves its worker to the next stage.
LEMMA AdvanceTx ==
  ASSUME TypeOK, NEW w \in Workers, NEW stage \in Stages, Advance(w, stage)
  PROVE  /\ UNCHANGED <<vacancies, history>>
         /\ tx'[w].stage = stage
         /\ tx'[w].posting = tx[w].posting /\ tx'[w].content = tx[w].content
         /\ tx'[w].company = tx[w].company
         /\ tx'[w].read = tx[w].read /\ tx'[w].status = tx[w].status
         /\ tx'[w].duplicateOf = tx[w].duplicateOf
         /\ \A u \in Workers \ {w} : tx'[u] = tx[u]
         /\ tx' \in [Workers -> Tx]
<1>1. tx[w] \in Tx
  BY DEF TypeOK
<1> DEFINE rec == [tx[w] EXCEPT !.stage = stage]
<1>2. /\ rec \in Tx
      /\ rec.stage = stage /\ rec.posting = tx[w].posting /\ rec.content = tx[w].content
      /\ rec.company = tx[w].company
      /\ rec.read = tx[w].read /\ rec.status = tx[w].status
      /\ rec.duplicateOf = tx[w].duplicateOf
  BY <1>1 DEF Tx
<1>3. tx' = [tx EXCEPT ![w] = rec] /\ UNCHANGED <<vacancies, history>>
  BY DEF Advance
<1> QED
  BY <1>2, <1>3 DEF TypeOK

\* A worker is done without having written.
LEMMA EndKeeps ==
  ASSUME IInv, NEW w \in Workers, End(w)
  PROVE  IInv'
<1> USE DEF IInv, history
<1>1. /\ UNCHANGED <<vacancies, history>>
      /\ tx'[w] = Idle /\ tx'[w].stage = "idle"
      /\ \A u \in Workers \ {w} : tx'[u] = tx[u]
      /\ tx' \in [Workers -> Tx]
  BY IdleTx, SetTx DEF End
<1>2. TypeOK'
  BY <1>1 DEF TypeOK
<1>3. TxShape'
  BY <1>1 DEF TxShape, Importing, Computed, Exists
<1>4. Links'
  BY <1>1 DEF Links, LinkedIsNotOffered, Linked, Exists, Computed
<1>5. Decided'
  BY <1>1 DEF Decided, Computed
<1>6. Dedup'
  BY <1>1 DEF Dedup, HoldsCompany, Computed, Exists, Original
<1>7. OnePrimaryPerContent'
  BY <1>1 DEF OnePrimaryPerContent, Exists, Linked
<1> QED
  BY <1>2, <1>3, <1>4, <1>5, <1>6, <1>7

-----------------------------------------------------------------------------
(* The steps that write nothing.                                           *)

\* A vacancy is about to be imported.
LEMMA BeginImportKeeps ==
  ASSUME IInv, NEW w \in Workers, NEW p \in Postings, NEW c \in Contents,
         NEW company \in CompaniesOf(c), BeginImport(w, p, c, company)
  PROVE  IInv'
<1> USE DEF IInv, history
<1> DEFINE rec == [Idle EXCEPT !.stage = "company", !.posting = p, !.content = c,
                               !.company = company]
<1>0. company \in Companies
  BY EmployerAssumption DEF CompaniesOf
<1>1. /\ rec \in Tx /\ rec.stage = "company"
      /\ rec.posting = p /\ rec.content = c /\ rec.company = company
  BY <1>0 DEF Idle, Tx, Stages
<1> HIDE DEF rec
<1>2. /\ UNCHANGED <<vacancies, history>>
      /\ tx'[w] = rec
      /\ \A u \in Workers \ {w} : tx'[u] = tx[u]
      /\ tx' \in [Workers -> Tx]
  BY <1>1, SetTx DEF BeginImport, rec
<1>3. TypeOK'
  BY <1>2 DEF TypeOK
<1>4. TxShape'
  BY <1>1, <1>2 DEF TxShape, Importing, Computed, Exists
<1>5. Links'
  BY <1>1, <1>2 DEF Links, LinkedIsNotOffered, Linked, Exists, Computed
<1>6. Decided'
  BY <1>1, <1>2 DEF Decided, Computed
<1>7. Dedup'
  BY <1>1, <1>2 DEF Dedup, HoldsCompany, Computed, Exists, Original
<1>8. OnePrimaryPerContent'
  BY <1>1, <1>2 DEF OnePrimaryPerContent, Exists, Linked
<1> QED
  BY <1>3, <1>4, <1>5, <1>6, <1>7, <1>8

\* The company's lock is free, and taken.  An import of the same content that
\* holds another lock has no employer's name.
LEMMA CompanyKeeps ==
  ASSUME IInv, NEW w \in Workers, GetOrCreateCompany(w)
  PROVE  IInv'
<1> USE DEF IInv
<1> DEFINE rec == [tx[w] EXCEPT !.stage = "find"]
<1>1. /\ tx[w] \in Tx /\ tx[w].stage = "company"
      /\ tx[w].posting \in Postings /\ tx[w].content \in Contents
      /\ tx[w].company \in CompaniesOf(tx[w].content)
      /\ UNCHANGED <<vacancies, reimported>>
  BY DEF GetOrCreateCompany, TypeOK, TxShape, Importing
<1>2. /\ rec \in Tx /\ rec.stage = "find"
      /\ rec.posting = tx[w].posting /\ rec.content = tx[w].content
      /\ rec.company = tx[w].company
  BY <1>1 DEF Tx, Stages
<1>3. tx' = [tx EXCEPT ![w] = rec]
  BY DEF GetOrCreateCompany
<1> HIDE DEF rec
<1>4. /\ tx'[w] = rec
      /\ \A u \in Workers \ {w} : tx'[u] = tx[u]
      /\ tx' \in [Workers -> Tx]
  BY <1>2, <1>3, SetTx
<1>5. \A u \in Workers : HoldsCompany(u) =>
        /\ tx[u].posting \in Postings
        /\ tx[u].company \in CompaniesOf(tx[u].content)
  BY DEF TxShape, Importing, HoldsCompany
<1>6. unordered \subseteq unordered' /\ unordered' \subseteq Postings
  BY <1>1, <1>5 DEF GetOrCreateCompany, Unordered, TypeOK
<1>7. ASSUME NEW u \in Workers \ {w}, HoldsCompany(u), tx[u].content = tx[w].content
      PROVE  tx[u].posting \in unordered' /\ tx[w].posting \in unordered'
  <2>1. tx[u].company # tx[w].company
    BY <1>7 DEF GetOrCreateCompany, CompanyWaits
  <2>2. Employer[tx[w].content] = None
    BY <1>1, <1>5, <1>7, <2>1 DEF CompaniesOf
  <2>3. u \in Unordered(w)
    BY <1>7, <2>2 DEF Unordered
  <2> QED
    BY <2>3 DEF GetOrCreateCompany
<1>8. TypeOK'
  BY <1>1, <1>4, <1>6 DEF TypeOK
<1>9. TxShape'
  BY <1>1, <1>2, <1>4 DEF TxShape, Importing, Computed, Exists
<1>10. Links'
  BY <1>1, <1>2, <1>4 DEF Links, LinkedIsNotOffered, Linked, Exists, Computed
<1>11. Decided'
  BY <1>1, <1>2, <1>4 DEF Decided, Computed
<1>12. Dedup'
  <2>1. ASSUME NEW u \in Workers, NEW v \in Workers, u # v,
               HoldsCompany(u)', HoldsCompany(v)', tx'[u].content = tx'[v].content
        PROVE  tx'[v].posting \in unordered'
    <3>1. CASE u # w /\ v # w
      BY <2>1, <3>1, <1>4, <1>6 DEF Dedup, HoldsCompany
    <3>2. CASE u = w
      BY <2>1, <3>2, <1>2, <1>4, <1>7 DEF HoldsCompany
    <3>3. CASE v = w
      BY <2>1, <3>3, <1>2, <1>4, <1>7 DEF HoldsCompany
    <3> QED
      BY <3>1, <3>2, <3>3
  <2>2. \A q \in Postings : Original(q)' => Original(q)
    BY <1>1, <1>6 DEF Original, Exists
  <2> QED
    BY <1>1, <1>2, <1>4, <2>1, <2>2 DEF Dedup, Computed, Exists
<1>13. OnePrimaryPerContent'
  BY <1>1, <1>6 DEF OnePrimaryPerContent, Exists, Linked
<1> QED
  BY <1>8, <1>9, <1>10, <1>11, <1>12, <1>13

\* The status of the posting, if it is known, is read.
LEMMA FindKeeps ==
  ASSUME IInv, NEW w \in Workers, FindVacancy(w)
  PROVE  IInv'
<1> USE DEF IInv, history
<1> DEFINE found == IF Exists(tx[w].posting) THEN vacancies[tx[w].posting].status ELSE None
           rec == [tx[w] EXCEPT !.stage = "dedup", !.read = found]
<1>1. /\ tx[w] \in Tx /\ tx[w].stage = "find"
      /\ tx[w].posting \in Postings /\ tx[w].content \in Contents
  BY DEF FindVacancy, TypeOK, TxShape, Importing
<1>2. found \in VacancyStatuses \cup {None} /\ (found # None => Exists(tx[w].posting))
  BY <1>1 DEF Exists, TypeOK, VacancyRow
<1> HIDE DEF found
<1>3. /\ rec \in Tx /\ rec.stage = "dedup" /\ rec.read = found
      /\ rec.posting = tx[w].posting /\ rec.content = tx[w].content
      /\ rec.company = tx[w].company
  BY <1>1, <1>2 DEF Tx, Stages
<1>4. /\ UNCHANGED <<vacancies, history>>
      /\ tx' = [tx EXCEPT ![w] = rec]
  BY DEF FindVacancy, found
<1> HIDE DEF rec
<1>5. /\ tx'[w] = rec
      /\ \A u \in Workers \ {w} : tx'[u] = tx[u]
      /\ tx' \in [Workers -> Tx]
  BY <1>3, <1>4, SetTx
<1>6. TypeOK'
  BY <1>4, <1>5 DEF TypeOK
<1>7. TxShape'
  BY <1>1, <1>2, <1>3, <1>4, <1>5 DEF TxShape, Importing, Computed, Exists
<1>8. Links'
  BY <1>3, <1>4, <1>5 DEF Links, LinkedIsNotOffered, Linked, Exists, Computed
<1>9. Decided'
  BY <1>3, <1>4, <1>5 DEF Decided, Computed
<1>10. Dedup'
  BY <1>1, <1>3, <1>4, <1>5 DEF Dedup, HoldsCompany, Computed, Exists, Original
<1>11. OnePrimaryPerContent'
  BY <1>4 DEF OnePrimaryPerContent, Exists, Linked
<1> QED
  BY <1>6, <1>7, <1>8, <1>9, <1>10, <1>11

\* Status and link are computed: a link comes with DUPLICATE, and without one
\* the content has no original unless the posting is known.
LEMMA ComputeKeeps ==
  ASSUME IInv, NEW w \in Workers, tx[w].stage = "dedup",
         NEW status \in VacancyStatuses, NEW link \in Postings \cup {None},
         Compute(w, status, link),
         link # None => status = "DUPLICATE" /\ tx[w].read = None,
         link = None => tx[w].read # None \/ Primaries(tx[w].content) = {}
  PROVE  IInv'
<1> USE DEF IInv, history
<1> DEFINE final == IF shouldPreserveStatus(tx[w].read, status) THEN tx[w].read ELSE status
           rec == [tx[w] EXCEPT !.stage = "upsert", !.status = final, !.duplicateOf = link]
<1>1. /\ tx[w] \in Tx
      /\ tx[w].posting \in Postings /\ tx[w].content \in Contents
      /\ tx[w].read # None => Exists(tx[w].posting)
  BY DEF TypeOK, TxShape, Importing
<1>2. /\ final \in VacancyStatuses
      /\ tx[w].read \in KeptStatuses => final = tx[w].read
      /\ link # None => final = "DUPLICATE"
  BY ImportNoneAssumption DEF shouldPreserveStatus, KeptStatuses, VacancyStatuses
<1> HIDE DEF final
<1>3. /\ rec \in Tx /\ rec.stage = "upsert" /\ rec.status = final /\ rec.duplicateOf = link
      /\ rec.posting = tx[w].posting /\ rec.content = tx[w].content /\ rec.read = tx[w].read
      /\ rec.company = tx[w].company
  BY <1>1, <1>2 DEF Tx, Stages
<1>4. /\ UNCHANGED <<vacancies, history>>
      /\ tx' = [tx EXCEPT ![w] = rec]
  BY DEF Compute, final
<1> HIDE DEF rec
<1>5. /\ tx'[w] = rec
      /\ \A u \in Workers \ {w} : tx'[u] = tx[u]
      /\ tx' \in [Workers -> Tx]
  BY <1>3, <1>4, SetTx
<1>6. TypeOK'
  BY <1>4, <1>5 DEF TypeOK
<1>7. TxShape'
  BY <1>1, <1>2, <1>3, <1>4, <1>5 DEF TxShape, Importing, Computed, Exists
<1>8. Links'
  BY <1>2, <1>3, <1>4, <1>5
     DEF Links, LinkedIsNotOffered, Linked, Exists, Computed, LinkStatuses
<1>9. Decided'
  BY <1>2, <1>3, <1>4, <1>5 DEF Decided, Computed
<1>10. Dedup'
  <2>1. link = None /\ ~Exists(tx[w].posting) =>
          \A p \in Postings : Original(p) => vacancies[p].content # tx[w].content
    BY <1>1 DEF Primaries, Original
  <2> QED
    BY <1>3, <1>4, <1>5, <2>1 DEF Dedup, HoldsCompany, Computed, Exists, Original
<1>11. OnePrimaryPerContent'
  BY <1>4 DEF OnePrimaryPerContent, Exists, Linked
<1> QED
  BY <1>6, <1>7, <1>8, <1>9, <1>10, <1>11

\* The vacancy's lock is taken; the row is not visible before COMMIT.
LEMMA UpsertKeeps ==
  ASSUME IInv, NEW w \in Workers, UpsertVacancy(w)
  PROVE  IInv'
<1> USE DEF IInv, history
<1>1. /\ UNCHANGED <<vacancies, history>>
      /\ tx[w].stage = "upsert" /\ tx'[w].stage = "commit"
      /\ tx'[w].posting = tx[w].posting /\ tx'[w].content = tx[w].content
      /\ tx'[w].company = tx[w].company
      /\ tx'[w].read = tx[w].read /\ tx'[w].status = tx[w].status
      /\ tx'[w].duplicateOf = tx[w].duplicateOf
      /\ \A u \in Workers \ {w} : tx'[u] = tx[u]
      /\ tx' \in [Workers -> Tx]
  BY AdvanceTx DEF UpsertVacancy, Stages
<1>2. TypeOK'
  BY <1>1 DEF TypeOK
<1>3. TxShape'
  BY <1>1 DEF TxShape, Importing, Computed, Exists
<1>4. Links'
  BY <1>1 DEF Links, LinkedIsNotOffered, Linked, Exists, Computed
<1>5. Decided'
  BY <1>1 DEF Decided, Computed
<1>6. Dedup'
  BY <1>1 DEF Dedup, HoldsCompany, Computed, Exists, Original
<1>7. OnePrimaryPerContent'
  BY <1>1 DEF OnePrimaryPerContent, Exists, Linked
<1> QED
  BY <1>2, <1>3, <1>4, <1>5, <1>6, <1>7

\* A PATCH passed its check.
LEMMA BeginPatchKeeps ==
  ASSUME IInv, NEW w \in Workers, NEW p \in Postings, NEW s \in PatchTargets,
         BeginPatch(w, p, s)
  PROVE  IInv'
<1> USE DEF IInv, history
<1> DEFINE rec == [Idle EXCEPT !.stage = "patch", !.posting = p, !.read = vacancies[p].status,
                               !.status = s, !.duplicateOf = vacancies[p].duplicateOf]
<1>1. /\ vacancies[p] \in VacancyRow /\ Exists(p)
      /\ CanTransitionVacancyStatus(vacancies[p].status, s)
      /\ s \in VacancyStatuses
  BY ImportPatchAssumption DEF BeginPatch, Exists, TypeOK
<1>2. /\ rec \in Tx /\ rec.stage = "patch" /\ rec.posting = p /\ rec.status = s
      /\ rec.read = vacancies[p].status /\ rec.duplicateOf = vacancies[p].duplicateOf
  BY <1>1 DEF Idle, Tx, Stages, VacancyRow
<1>3. /\ UNCHANGED <<vacancies, history>>
      /\ tx' = [tx EXCEPT ![w] = rec]
  BY DEF BeginPatch
<1> HIDE DEF rec
<1>4. /\ tx'[w] = rec
      /\ \A u \in Workers \ {w} : tx'[u] = tx[u]
      /\ tx' \in [Workers -> Tx]
  BY <1>2, <1>3, SetTx
<1>5. TypeOK'
  BY <1>3, <1>4 DEF TypeOK
<1>6. TxShape'
  BY <1>1, <1>2, <1>3, <1>4 DEF TxShape, Importing, Computed, Exists
<1>7. Links'
  <2>1. vacancies[p].duplicateOf # None => vacancies[p].status \in LinkStatuses
    BY <1>1 DEF Links, LinkedIsNotOffered, Linked, LinkStatuses
  <2>2. vacancies[p].status \in LinkStatuses => s \in LinkStatuses
    BY <1>1 DEF LinkStatuses, CanTransitionVacancyStatus, vacancyTransitions, VacancyStatuses
  <2> QED
    BY <1>2, <1>3, <1>4, <2>1, <2>2 DEF Links, LinkedIsNotOffered, Linked, Exists, Computed
<1>8. Decided'
  BY <1>1, <1>2, <1>3, <1>4 DEF Decided, Computed, VacancyRow
<1>9. Dedup'
  BY <1>2, <1>3, <1>4 DEF Dedup, HoldsCompany, Computed, Exists, Original
<1>10. OnePrimaryPerContent'
  BY <1>3 DEF OnePrimaryPerContent, Exists, Linked
<1> QED
  BY <1>5, <1>6, <1>7, <1>8, <1>9, <1>10

-----------------------------------------------------------------------------
(* The steps that write.                                                   *)

\* The import's row becomes visible and its locks are free.
LEMMA CommitKeeps ==
  ASSUME IInv, NEW w \in Workers, Commit(w)
  PROVE  IInv'
<1> USE DEF IInv, history
<1> DEFINE p == tx[w].posting
           row == WrittenRow(tx[w])
<1>1. /\ tx[w] \in Tx /\ tx[w].stage = "commit" /\ Computed(w) /\ HoldsCompany(w)
      /\ p \in Postings /\ tx[w].content \in Contents /\ tx[w].status \in VacancyStatuses
  BY DEF Commit, TypeOK, TxShape, Importing, Computed, HoldsCompany
<1>2. /\ row \in VacancyRow /\ row # None
      /\ row.content = tx[w].content /\ row.status = tx[w].status
      /\ row.duplicateOf = tx[w].duplicateOf
  BY <1>1, ImportNoneAssumption DEF WrittenRow, VacancyRow, Tx
<1>3. vacancies' = [vacancies EXCEPT ![p] = row]
  BY DEF Commit
<1>4. /\ reimported' = IF Exists(p) THEN reimported \cup {p} ELSE reimported
      /\ unordered' = unordered
  BY DEF Commit
<1>5. /\ tx'[w] = Idle /\ tx'[w].stage = "idle"
      /\ \A u \in Workers \ {w} : tx'[u] = tx[u]
      /\ tx' \in [Workers -> Tx]
  BY IdleTx, SetTx DEF Commit
<1> HIDE DEF p, row
<1>6. /\ vacancies'[p] = row
      /\ \A q \in Postings \ {p} : vacancies'[q] = vacancies[q]
      /\ \A q \in Postings : Exists(q) => Exists(q)'
  BY <1>1, <1>2, <1>3 DEF TypeOK, Exists
<1>7. TypeOK'
  BY <1>1, <1>2, <1>3, <1>4, <1>5 DEF TypeOK
<1>8. TxShape'
  BY <1>5, <1>6 DEF TxShape, Importing, Computed
<1>9. Links'
  <2>1. tx[w].duplicateOf # None => tx[w].status \in LinkStatuses
    BY <1>1 DEF Links
  <2>2. LinkedIsNotOffered'
    BY <1>2, <1>6, <2>1 DEF Links, LinkedIsNotOffered, Linked, Exists, LinkStatuses
  <2> QED
    BY <1>5, <2>2 DEF Links, Computed
<1>10. Decided'
  BY <1>5 DEF Decided, Computed
<1>11. \A q \in Postings :
         Original(q)' =>
           \/ q # p /\ Original(q) /\ vacancies'[q].content = vacancies[q].content
           \/ /\ q = p /\ ~Exists(p) /\ tx[w].duplicateOf = None
              /\ vacancies'[q].content = tx[w].content
  BY <1>1, <1>2, <1>4, <1>6 DEF Original, Exists
<1>12. Dedup'
  <2>1. \A u, v \in Workers :
          u # v /\ HoldsCompany(u)' /\ HoldsCompany(v)' =>
            tx'[u].content # tx'[v].content \/ tx'[v].posting \in unordered'
    BY <1>4, <1>5 DEF Dedup, HoldsCompany
  <2>2. ASSUME NEW u \in Workers, tx'[u].stage = "patch", tx'[u].posting \notin reimported'
        PROVE  tx'[u].duplicateOf = vacancies'[tx'[u].posting].duplicateOf
    <3>1. u # w /\ tx'[u] = tx[u]
      BY <1>5, <2>2
    <3>2. /\ tx[u].posting \in Postings /\ Exists(tx[u].posting)
          /\ tx[u].posting \notin reimported
      BY <1>4, <2>2, <3>1 DEF TxShape
    <3>3. tx[u].posting # p
      BY <1>4, <2>2, <3>1, <3>2
    <3> QED
      BY <1>6, <2>2, <3>1, <3>2, <3>3 DEF Dedup
  <2>3. ASSUME NEW u \in Workers, Computed(u)', tx'[u].duplicateOf = None,
               vacancies'[tx'[u].posting] = None, NEW q \in Postings, Original(q)'
        PROVE  vacancies'[q].content # tx'[u].content
    <3>1. u # w /\ tx'[u] = tx[u] /\ Computed(u) /\ tx[u].posting \in Postings
      BY <1>5, <2>3 DEF Computed, TxShape, Importing
    <3>2. ~Exists(tx[u].posting)
      BY <1>6, <2>3, <3>1 DEF Exists
    <3>3. CASE q # p /\ Original(q) /\ vacancies'[q].content = vacancies[q].content
      BY <2>3, <3>1, <3>2, <3>3 DEF Dedup
    <3>4. CASE q = p /\ vacancies'[q].content = tx[w].content
      BY <1>1, <1>4, <2>3, <3>1, <3>4 DEF Dedup, HoldsCompany, Computed, Original, p
    <3> QED
      BY <1>11, <2>3, <3>3, <3>4
  <2> QED
    BY <2>1, <2>2, <2>3 DEF Dedup, Exists
<1>13. OnePrimaryPerContent'
  <2> SUFFICES ASSUME NEW q \in Postings, NEW r \in Postings,
                      Original(q)', Original(r)', vacancies'[q].content = vacancies'[r].content
               PROVE  q = r
    BY DEF OnePrimaryPerContent, Original, Linked
  <2>1. \A s \in Postings : Original(s) /\ ~Exists(p) /\ tx[w].duplicateOf = None =>
          vacancies[s].content # tx[w].content
    BY <1>1 DEF Dedup, p
  <2>2. Original(q) /\ Original(r) /\ vacancies[q].content = vacancies[r].content => q = r
    BY DEF OnePrimaryPerContent, Original, Linked
  <2> QED
    BY <1>11, <2>1, <2>2
<1> QED
  BY <1>7, <1>8, <1>9, <1>10, <1>12, <1>13

\* The PATCH writes its status and the link it read.
LEMMA WritePatchKeeps ==
  ASSUME IInv, NEW w \in Workers, WritePatch(w)
  PROVE  IInv'
<1> USE DEF IInv, history
<1> DEFINE p == tx[w].posting
           row == [vacancies[p] EXCEPT !.status = tx[w].status,
                                       !.duplicateOf = tx[w].duplicateOf]
<1>1. /\ tx[w] \in Tx /\ tx[w].stage = "patch"
      /\ p \in Postings /\ Exists(p) /\ tx[w].status \in VacancyStatuses
      /\ vacancies[p] \in VacancyRow
  BY DEF WritePatch, TypeOK, TxShape, Exists
<1>2. /\ row \in VacancyRow /\ row # None
      /\ row.content = vacancies[p].content /\ row.status = tx[w].status
      /\ row.duplicateOf = tx[w].duplicateOf
  BY <1>1, ImportNoneAssumption DEF VacancyRow, Tx
<1>3. vacancies' = [vacancies EXCEPT ![p] = row] /\ UNCHANGED history
  BY <1>1 DEF WritePatch, TypeOK
<1>4. /\ tx'[w] = Idle /\ tx'[w].stage = "idle"
      /\ \A u \in Workers \ {w} : tx'[u] = tx[u]
      /\ tx' \in [Workers -> Tx]
  BY IdleTx, SetTx DEF WritePatch
<1>5. p \notin reimported => tx[w].duplicateOf = vacancies[p].duplicateOf
  BY <1>1 DEF Dedup
<1>6. tx[w].duplicateOf # None => tx[w].status \in LinkStatuses
  BY <1>1 DEF Links
<1> HIDE DEF p, row
<1>7. /\ vacancies'[p] = row
      /\ \A q \in Postings \ {p} : vacancies'[q] = vacancies[q]
      /\ \A q \in Postings : Exists(q) <=> Exists(q)'
  BY <1>1, <1>2, <1>3 DEF TypeOK, Exists
<1>8. /\ \A q \in Postings : vacancies'[q].content = vacancies[q].content
      /\ \A q \in Postings \ reimported : vacancies'[q].duplicateOf = vacancies[q].duplicateOf
      /\ \A q \in Postings : Original(q) <=> Original(q)'
  BY <1>2, <1>3, <1>5, <1>7 DEF Original
<1>9. TypeOK'
  BY <1>1, <1>2, <1>3, <1>4 DEF TypeOK
<1>10. TxShape'
  BY <1>4, <1>7 DEF TxShape, Importing, Computed
<1>11. Links'
  <2>1. LinkedIsNotOffered'
    BY <1>2, <1>6, <1>7 DEF Links, LinkedIsNotOffered, Linked, Exists, LinkStatuses
  <2> QED
    BY <1>4, <2>1 DEF Links, Computed
<1>12. Decided'
  BY <1>4 DEF Decided, Computed
<1>13. Dedup'
  <2>1. \A u \in Workers : tx'[u].stage # "idle" => u # w /\ tx'[u] = tx[u]
    BY <1>4
  <2>2. \A u \in Workers : tx[u].stage = "patch" => tx[u].posting \in Postings
    BY DEF TxShape
  <2>3. \A u \in Workers : Computed(u) => tx[u].posting \in Postings
    BY DEF TxShape, Importing, Computed
  <2> QED
    BY <1>3, <1>7, <1>8, <2>1, <2>2, <2>3 DEF Dedup, HoldsCompany, Computed
<1>14. OnePrimaryPerContent'
  BY <1>3, <1>7, <1>8 DEF OnePrimaryPerContent, Original, Linked
<1> QED
  BY <1>9, <1>10, <1>11, <1>12, <1>13, <1>14

-----------------------------------------------------------------------------
(* The invariant.                                                          *)

\* The empty database satisfies the invariant.
LEMMA InitIInv == Init => IInv
<1> SUFFICES ASSUME Init PROVE IInv
  OBVIOUS
<1>1. \A p \in Postings : ~Exists(p)
  BY DEF Init, Exists
<1>2. \A w \in Workers : tx[w] = Idle /\ tx[w].stage = "idle"
  BY IdleTx DEF Init
<1>3. TypeOK
  BY IdleTx DEF Init, TypeOK
<1>4. TxShape /\ Links /\ Decided /\ Dedup /\ OnePrimaryPerContent
  BY <1>1, <1>2 DEF TxShape, Links, LinkedIsNotOffered, Linked, Decided, Dedup,
                    HoldsCompany, Computed, Importing, Original, OnePrimaryPerContent
<1> QED
  BY <1>3, <1>4 DEF IInv

\* Every step keeps the invariant.
LEMMA NextIInv == IInv /\ [Next]_vars => IInv'
<1> SUFFICES ASSUME IInv, [Next]_vars PROVE IInv'
  OBVIOUS
<1>1. CASE UNCHANGED vars
  BY <1>1 DEF vars, history, IInv, TypeOK, TxShape, Links, LinkedIsNotOffered, Linked,
              Decided, Dedup, HoldsCompany, Computed, Importing, Exists, Original, OnePrimaryPerContent
<1>2. ASSUME NEW w \in Workers, Request(w) PROVE IInv'
  BY <1>2, SaysAssumption, BeginImportKeeps, BeginPatchKeeps DEF Request
<1>3. ASSUME NEW w \in Workers, NEW p \in Postings, DetectDuplicate(w, p) PROVE IInv'
  <2>1. /\ tx[w].stage = "dedup" /\ tx[w].read = None /\ Compute(w, "DUPLICATE", p)
        /\ p # None /\ "DUPLICATE" \in VacancyStatuses
    BY <1>3, ImportNoneAssumption DEF DetectDuplicate, VacancyStatuses
  <2> QED
    BY <2>1, ComputeKeeps
<1>4. ASSUME NEW w \in Workers, NEW v \in Verdicts, Classify(w, v) PROVE IInv'
  <2>1. /\ tx[w].stage = "dedup" /\ Compute(w, v, None)
        /\ tx[w].read # None \/ Primaries(tx[w].content) = {}
        /\ v \in VacancyStatuses
    BY <1>4, VerdictsAssumption DEF Classify, VacancyStatuses
  <2> QED
    BY <2>1, ComputeKeeps
<1>5. ASSUME NEW w \in Workers, Proceed(w) PROVE IInv'
  BY <1>3, <1>4, <1>5, CompanyKeeps, FindKeeps, UpsertKeeps, CommitKeeps, WritePatchKeeps
     DEF Proceed
<1>6. ASSUME NEW w \in Workers, Rollback(w) PROVE IInv'
  BY <1>6, EndKeeps DEF Rollback
<1> QED
  BY <1>1, <1>2, <1>5, <1>6 DEF Next

\* The inductive invariant of the import.
THEOREM InvariantHolds == Spec => []IInv
<1> QED
  BY InitIInv, NextIInv, PTL DEF Spec

\* Rows and requests keep their types through every import and PATCH.
THEOREM TypeCorrect == Spec => []TypeOK
<1>1. IInv => TypeOK
  BY DEF IInv
<1> QED
  BY <1>1, InvariantHolds, PTL

\* Two imports of one content at the same time do not make two primaries of it:
\* the second waits for the company's lock, then finds the first one's row.
\* (Without an employer's name the two may lock different companies, and the
\* postings are then among those no lock ordered.)
THEOREM ContentHasOnePrimary == Spec => []OnePrimaryPerContent
<1>1. IInv => OnePrimaryPerContent
  BY DEF IInv
<1> QED
  BY <1>1, InvariantHolds, PTL

\* The row of a duplicate says DUPLICATE or ARCHIVED after every import, PATCH
\* and overlap of the two.
THEOREM DuplicateIsHidden == Spec => []LinkedIsNotOffered
<1>1. IInv => LinkedIsNotOffered
  BY DEF IInv, Links
<1> QED
  BY <1>1, InvariantHolds, PTL

-----------------------------------------------------------------------------
(* What a step does to a decision.                                         *)

DecisionOutlasts(p) ==
  Exists(p) /\ vacancies[p].status \in KeptStatuses =>
    \/ CanTransitionVacancyStatus(vacancies[p].status, vacancies'[p].status)
    \/ \E w \in Workers :
         tx[w].posting = p /\ tx[w] # tx'[w] /\ tx[w].read # vacancies[p].status

\* A status may stay as it is.
LEMMA StatusMayStay ==
  ASSUME NEW s \in VacancyStatuses
  PROVE  CanTransitionVacancyStatus(s, s)
  BY DEF CanTransitionVacancyStatus

\* A row that a step leaves alone keeps its decision.
LEMMA UntouchedDecision ==
  ASSUME TypeOK, NEW p \in Postings, vacancies'[p] = vacancies[p]
  PROVE  DecisionOutlasts(p)
  BY StatusMayStay DEF DecisionOutlasts, Exists, TypeOK, VacancyRow

\* An import that had read the decision writes it back.
LEMMA CommitDecision ==
  ASSUME IInv, NEW w \in Workers, Commit(w), NEW p \in Postings
  PROVE  DecisionOutlasts(p)
<1>1. /\ TypeOK /\ tx[w].stage = "commit" /\ tx[w] \in Tx
      /\ vacancies' = [vacancies EXCEPT ![tx[w].posting] = WrittenRow(tx[w])]
      /\ tx'[w] = Idle
      /\ tx[w].read \in KeptStatuses => tx[w].status = tx[w].read
  BY DEF Commit, IInv, TypeOK, Decided, Computed
<1>2. CASE p # tx[w].posting
  BY <1>1, <1>2, UntouchedDecision DEF TypeOK
<1>3. CASE p = tx[w].posting /\ tx[w].read # vacancies[p].status
  BY <1>1, <1>3, IdleTx DEF DecisionOutlasts
<1>4. CASE p = tx[w].posting /\ tx[w].read = vacancies[p].status
  <2>1. vacancies'[p].status = tx[w].status
    BY <1>1, <1>4 DEF TypeOK, WrittenRow
  <2> QED
    BY <1>1, <1>4, <2>1, StatusMayStay
       DEF DecisionOutlasts, Exists, TypeOK, VacancyRow
<1> QED
  BY <1>2, <1>3, <1>4

\* A PATCH that had read the decision follows the table.
LEMMA WritePatchDecision ==
  ASSUME IInv, NEW w \in Workers, WritePatch(w), NEW p \in Postings
  PROVE  DecisionOutlasts(p)
<1>1. /\ TypeOK /\ tx[w].stage = "patch"
      /\ vacancies' = [vacancies EXCEPT ![tx[w].posting].status = tx[w].status,
                                        ![tx[w].posting].duplicateOf = tx[w].duplicateOf]
      /\ tx'[w] = Idle
      /\ CanTransitionVacancyStatus(tx[w].read, tx[w].status)
  BY DEF WritePatch, IInv, TypeOK, Decided
<1>2. CASE p # tx[w].posting
  BY <1>1, <1>2, UntouchedDecision DEF TypeOK
<1>3. CASE p = tx[w].posting /\ tx[w].read # vacancies[p].status
  BY <1>1, <1>3, IdleTx DEF DecisionOutlasts
<1>4. CASE p = tx[w].posting /\ tx[w].read = vacancies[p].status
  <2>1. Exists(p) => vacancies'[p].status = tx[w].status
    BY <1>1, <1>4 DEF TypeOK, Exists, VacancyRow
  <2> QED
    BY <1>1, <1>4, <2>1 DEF DecisionOutlasts
<1> QED
  BY <1>2, <1>3, <1>4

\* No row changes but by the COMMIT of an import and the write of a PATCH.
LEMMA OnlyWritesMoveRows ==
  ASSUME Next
  PROVE  UNCHANGED vacancies \/ \E w \in Workers : Commit(w) \/ WritePatch(w)
<1>1. PICK w \in Workers : Request(w) \/ Proceed(w) \/ Rollback(w)
  BY DEF Next
<1>2. \A p \in Postings : \A c \in Says[p] : \A company \in CompaniesOf(c) :
        BeginImport(w, p, c, company) => UNCHANGED vacancies
  BY DEF BeginImport
<1>3. \A p \in Postings, s \in PatchTargets : BeginPatch(w, p, s) => UNCHANGED vacancies
  BY DEF BeginPatch
<1>4. \A s, link : Compute(w, s, link) => UNCHANGED vacancies
  BY DEF Compute
<1>5. GetOrCreateCompany(w) \/ FindVacancy(w) \/ UpsertVacancy(w) => UNCHANGED vacancies
  BY DEF GetOrCreateCompany, FindVacancy, UpsertVacancy, Advance
<1>6. Rollback(w) => UNCHANGED vacancies
  BY DEF Rollback, End
<1>7. Request(w) => UNCHANGED vacancies
  BY <1>2, <1>3 DEF Request
<1>8. Proceed(w) => UNCHANGED vacancies \/ Commit(w) \/ WritePatch(w)
  BY <1>4, <1>5 DEF Proceed, DetectDuplicate, Classify
<1> QED
  BY <1>1, <1>6, <1>7, <1>8

\* No import is reckoned unordered but when it takes its company's lock.
LEMMA UnorderedStays ==
  ASSUME Next
  PROVE  UNCHANGED unordered \/ \E w \in Workers : GetOrCreateCompany(w)
<1>1. PICK w \in Workers : Request(w) \/ Proceed(w) \/ Rollback(w)
  BY DEF Next
<1> USE DEF history
<1>2. \A p \in Postings : \A c \in Says[p] : \A company \in CompaniesOf(c) :
        BeginImport(w, p, c, company) => UNCHANGED unordered
  BY DEF BeginImport
<1>3. \A p \in Postings, s \in PatchTargets : BeginPatch(w, p, s) => UNCHANGED unordered
  BY DEF BeginPatch
<1>4. \A s, link : Compute(w, s, link) => UNCHANGED unordered
  BY DEF Compute
<1>5. FindVacancy(w) \/ UpsertVacancy(w) \/ Commit(w) \/ WritePatch(w) => UNCHANGED unordered
  BY DEF FindVacancy, UpsertVacancy, Advance, Commit, WritePatch
<1>6. Rollback(w) => UNCHANGED unordered
  BY DEF Rollback, End
<1>7. Request(w) => UNCHANGED unordered
  BY <1>2, <1>3 DEF Request
<1>8. Proceed(w) => UNCHANGED unordered \/ GetOrCreateCompany(w)
  BY <1>4, <1>5 DEF Proceed, DetectDuplicate, Classify
<1> QED
  BY <1>1, <1>6, <1>7, <1>8

\* No import and no PATCH that had read a decision undoes it: what breaks one
\* is a writer that had read the vacancy before.
THEOREM DecisionsAreKept == Spec => DecisionsOutlastImports
<1>1. IInv /\ [Next]_vars => [\A p \in Postings : DecisionOutlasts(p)]_vars
  <2> SUFFICES ASSUME IInv, Next, NEW p \in Postings PROVE DecisionOutlasts(p)
    OBVIOUS
  <2>1. CASE UNCHANGED vacancies
    BY <2>1, UntouchedDecision DEF IInv
  <2> QED
    BY <2>1, OnlyWritesMoveRows, CommitDecision, WritePatchDecision
<1>2. [\A p \in Postings : DecisionOutlasts(p)]_vars =>
        [\A p \in Postings :
           Exists(p) /\ vacancies[p].status \in KeptStatuses =>
             \/ CanTransitionVacancyStatus(vacancies[p].status, vacancies'[p].status)
             \/ \E w \in Workers :
                  tx[w].posting = p /\ tx[w] # tx'[w] /\ tx[w].read # vacancies[p].status]_vars
  BY DEF DecisionOutlasts
<1> QED
  BY <1>1, <1>2, InvariantHolds, PTL DEF Spec, DecisionsOutlastImports

-----------------------------------------------------------------------------
(* Links lead to primaries.  The graph has an edge for each link a row has *)
(* or a request is about to write, and for each row an import of a new     *)
(* posting may yet find as its primary.  New edges start at postings that  *)
(* have no row, and end at ones that have: they close no cycle.            *)

\* An import that found no row of its posting may take q for the primary.
Candidate(w, q) ==
  /\ tx[w].stage = "dedup" /\ tx[w].read = None
  /\ Exists(q) /\ vacancies[q].content = tx[w].content

MayLink(w, q) == tx[w].duplicateOf = q \/ Candidate(w, q)

Edge(p, q) ==
  \/ Linked(p) /\ vacancies[p].duplicateOf = q
  \/ \E w \in Workers : tx[w].posting = p /\ MayLink(w, q)

\* The postings whose imports the lock put in order.
Proper == Postings \ unordered

Grounded ==
  /\ \A p, q \in Proper : Edge(p, q) => Exists(q)
  /\ \A S \in SUBSET Proper : (\A p \in S : \E q \in S : Edge(p, q)) => S = {}

\* A step that adds no edge and removes no row.
LEMMA NoNewEdge ==
  ASSUME Grounded,
         unordered \subseteq unordered',
         \A p, q \in Proper' : Edge(p, q)' => Edge(p, q),
         \A p \in Postings : Exists(p) => Exists(p)'
  PROVE  Grounded'
<1>1. Proper' \subseteq Proper /\ Proper \subseteq Postings
  BY DEF Proper
<1>2. \A p, q \in Proper' : Edge(p, q)' => Exists(q)'
  BY <1>1 DEF Grounded
<1>3. ASSUME NEW S \in SUBSET Proper', \A p \in S : \E q \in S : Edge(p, q)'
      PROVE  S = {}
  BY <1>1, <1>3 DEF Grounded
<1> QED
  BY <1>2, <1>3 DEF Grounded

\* A request that writes no row, and may only write links that were edges.
LEMMA QuietStep ==
  ASSUME Grounded, NEW w \in Workers, UNCHANGED <<vacancies, unordered>>,
         \A u \in Workers \ {w} : tx'[u] = tx[u],
         \A q \in Postings : MayLink(w, q)' => Edge(tx'[w].posting, q)
  PROVE  Grounded'
<1>1. \A p \in Postings : Exists(p)' <=> Exists(p)
  BY DEF Exists
<1>2. ASSUME NEW p \in Proper', NEW q \in Proper', Edge(p, q)' PROVE Edge(p, q)
  <2> p \in Postings /\ q \in Postings
    BY DEF Proper
  <2>1. CASE Linked(p)' /\ vacancies'[p].duplicateOf = q
    BY <2>1, <1>1 DEF Linked, Edge
  <2>2. ASSUME NEW u \in Workers, tx'[u].posting = p, MayLink(u, q)' PROVE Edge(p, q)
    <3>1. CASE u = w
      BY <2>2, <3>1
    <3>2. CASE u # w
      BY <2>2, <3>2, <1>1 DEF MayLink, Candidate, Edge
    <3> QED
      BY <3>1, <3>2
  <2> QED
    BY <1>2, <2>1, <2>2 DEF Edge
<1> QED
  BY <1>1, <1>2, NoNewEdge

\* A request without a link to write, and not looking for one.
LEMMA NoLinkStep ==
  ASSUME Grounded, NEW w \in Workers, UNCHANGED <<vacancies, unordered>>,
         \A u \in Workers \ {w} : tx'[u] = tx[u],
         tx'[w].stage # "dedup", tx'[w].duplicateOf = None
  PROVE  Grounded'
<1>1. \A q \in Postings : ~MayLink(w, q)'
  BY ImportNoneAssumption DEF MayLink, Candidate
<1> QED
  BY <1>1, QuietStep

LEMMA IdleLinksNothing ==
  Idle.duplicateOf = None /\ Idle.posting = None /\ Idle.stage = "idle"
  BY DEF Idle

\* The company's lock is taken; no edge depends on it.
LEMMA CompanyGrounded ==
  ASSUME IInv, Grounded, NEW w \in Workers, GetOrCreateCompany(w)
  PROVE  Grounded'
<1>1. /\ UNCHANGED vacancies
      /\ tx[w].stage = "company" /\ tx'[w].stage = "find"
      /\ tx'[w].posting = tx[w].posting /\ tx'[w].duplicateOf = tx[w].duplicateOf
      /\ \A u \in Workers \ {w} : tx'[u] = tx[u]
  BY DEF GetOrCreateCompany, IInv, TypeOK, Tx
<1>2. unordered \subseteq unordered'
  BY DEF GetOrCreateCompany
<1>3. /\ \A p, q \in Postings : Edge(p, q)' => Edge(p, q)
      /\ \A p \in Postings : Exists(p) => Exists(p)'
  BY <1>1 DEF Edge, Linked, Exists, MayLink, Candidate
<1>4. Proper' \subseteq Postings
  BY DEF Proper
<1> QED
  BY <1>2, <1>3, <1>4, NoNewEdge

\* A row that is not there yet gets its edges, all of them to rows.
LEMMA FindGrounded ==
  ASSUME IInv, Grounded, NEW w \in Workers, FindVacancy(w)
  PROVE  Grounded'
<1> DEFINE x == tx[w].posting
           found == IF Exists(x) THEN vacancies[x].status ELSE None
           rec == [tx[w] EXCEPT !.stage = "dedup", !.read = found]
<1>1. /\ tx[w] \in Tx /\ x \in Postings /\ tx[w].stage = "find" /\ TypeOK
  BY DEF FindVacancy, IInv, TypeOK, TxShape, Importing
<1>2. UNCHANGED <<vacancies, unordered>> /\ tx' = [tx EXCEPT ![w] = rec]
  BY DEF FindVacancy, history
<1>3. /\ tx'[w].posting = x /\ tx'[w].duplicateOf = tx[w].duplicateOf
      /\ tx'[w].read = found
      /\ \A u \in Workers \ {w} : tx'[u] = tx[u]
  BY <1>1, <1>2 DEF TypeOK, Tx
<1>4. \A p \in Postings : Exists(p)' <=> Exists(p)
  BY <1>2 DEF Exists
<1>5. CASE Exists(x)
  <2>1. found # None
    BY <1>1, <1>5, ImportNoneAssumption DEF Exists, TypeOK, VacancyRow
  <2>2. \A q \in Postings : MayLink(w, q)' => tx[w].duplicateOf = q
    BY <1>3, <2>1 DEF MayLink, Candidate
  <2>3. \A q \in Postings : MayLink(w, q)' => Edge(tx'[w].posting, q)
    BY <1>3, <2>2 DEF Edge, MayLink
  <2> QED
    BY <1>2, <1>3, <2>3, QuietStep
<1>6. CASE ~Exists(x)
  <2>1. ASSUME NEW p \in Postings, NEW q \in Postings, Edge(p, q)', p # x
        PROVE  Edge(p, q)
    <3>1. CASE Linked(p)' /\ vacancies'[p].duplicateOf = q
      BY <3>1, <1>2, <1>4 DEF Linked, Edge
    <3>2. ASSUME NEW u \in Workers, tx'[u].posting = p, MayLink(u, q)' PROVE Edge(p, q)
      BY <2>1, <3>2, <1>2, <1>3, <1>4 DEF MayLink, Candidate, Edge
    <3> QED
      BY <2>1, <3>1, <3>2 DEF Edge
  <2>2. ASSUME NEW p \in Proper, NEW q \in Proper, Edge(p, q)' PROVE Exists(q)
    <3> p \in Postings /\ q \in Postings
      BY DEF Proper
    <3>1. CASE p # x
      BY <2>1, <2>2, <3>1 DEF Grounded
    <3>2. CASE p = x
      <4>1. ~(Linked(p)' /\ vacancies'[p].duplicateOf = q)
        BY <3>2, <1>4, <1>6 DEF Linked
      <4>2. PICK u \in Workers : tx'[u].posting = p /\ MayLink(u, q)'
        BY <2>2, <4>1 DEF Edge
      <4>3. CASE Candidate(u, q)'
        BY <4>3, <1>4 DEF Candidate
      <4>4. CASE tx'[u].duplicateOf = q
        <5>1. tx[u].posting = p /\ tx[u].duplicateOf = q
          BY <4>2, <4>4, <1>3, <3>2
        <5> QED
          BY <5>1 DEF Edge, MayLink, Grounded
      <4> QED
        BY <4>2, <4>3, <4>4 DEF MayLink
    <3> QED
      BY <3>1, <3>2
  <2>3. ASSUME NEW S \in SUBSET Proper, \A p \in S : \E q \in S : Edge(p, q)'
        PROVE  S = {}
    <3> DEFINE R == {p \in S : Exists(p)}
    <3>1. \A p \in R : \E q \in R : Edge(p, q)
      BY <2>1, <2>2, <2>3, <1>6 DEF Proper
    <3>2. R = {}
      BY <3>1 DEF Grounded
    <3>3. \A p \in S : \E q \in R : TRUE
      BY <2>2, <2>3
    <3> QED
      BY <3>2, <3>3
  <2>4. \A p \in Proper : p \in Postings
    BY DEF Proper
  <2>5. Proper' = Proper
    BY <1>2 DEF Proper
  <2> QED
    BY <2>2, <2>3, <2>4, <2>5, <1>4 DEF Grounded
<1> QED
  BY <1>5, <1>6

\* The link found was a candidate.
LEMMA ComputeGrounded ==
  ASSUME IInv, Grounded, NEW w \in Workers, NEW s, NEW link \in Postings \cup {None},
         Compute(w, s, link), tx[w].posting \in Postings,
         link # None => Candidate(w, link)
  PROVE  Grounded'
<1>1. /\ UNCHANGED <<vacancies, unordered>>
      /\ tx'[w].posting = tx[w].posting /\ tx'[w].duplicateOf = link
      /\ tx'[w].stage = "upsert"
      /\ \A u \in Workers \ {w} : tx'[u] = tx[u]
  BY DEF Compute, IInv, TypeOK, Tx, history
<1>2. \A q \in Postings : MayLink(w, q)' => q = link
  BY <1>1 DEF MayLink, Candidate
<1>3. \A q \in Postings : MayLink(w, q)' => Edge(tx'[w].posting, q)
  BY <1>1, <1>2, ImportNoneAssumption DEF Edge, MayLink
<1> QED
  BY <1>1, <1>3, QuietStep

\* The link that is committed was about to be.  No import is looking for this
\* content: the company's lock keeps it out.
LEMMA CommitGrounded ==
  ASSUME IInv, Grounded, NEW w \in Workers, Commit(w)
  PROVE  Grounded'
<1> DEFINE x == tx[w].posting
           row == WrittenRow(tx[w])
<1>1. /\ tx[w] \in Tx /\ x \in Postings /\ tx[w].content \in Contents
      /\ HoldsCompany(w) /\ TypeOK /\ Dedup
  BY DEF Commit, IInv, TypeOK, TxShape, Importing, HoldsCompany
<1>2. row.content = tx[w].content /\ row.duplicateOf = tx[w].duplicateOf
  BY DEF WrittenRow
<1>3. row # None
  BY <1>1, ImportNoneAssumption DEF IInv, WrittenRow, VacancyRow, TxShape, Computed, Commit, Tx
<1>4. /\ vacancies'[x] = row
      /\ \A p \in Postings \ {x} : vacancies'[p] = vacancies[p]
  BY <1>1 DEF Commit, TypeOK
<1>5. /\ tx'[w] = Idle
      /\ \A u \in Workers \ {w} : tx'[u] = tx[u]
  BY IdleTx, SetTx, <1>1 DEF Commit
<1> HIDE DEF row
<1>6. /\ \A p \in Postings \ {x} : Exists(p)' <=> Exists(p)
      /\ \A p \in Postings : Exists(p) => Exists(p)'
  BY <1>3, <1>4 DEF Exists
<1>7. unordered' = unordered
  BY DEF Commit
<1>8. ASSUME NEW p \in Proper', NEW q \in Proper', Edge(p, q)' PROVE Edge(p, q)
  <2> p \in Postings /\ q \in Postings
    BY DEF Proper
  <2>1. CASE Linked(p)' /\ vacancies'[p].duplicateOf = q
    <3>1. CASE p = x
      BY <2>1, <3>1, <1>2, <1>4 DEF Edge, MayLink
    <3>2. CASE p # x
      BY <2>1, <3>2, <1>4, <1>6 DEF Edge, Linked
    <3> QED
      BY <3>1, <3>2
  <2>2. ASSUME NEW u \in Workers, tx'[u].posting = p, MayLink(u, q)' PROVE Edge(p, q)
    <3>1. u # w /\ tx'[u] = tx[u]
      BY <2>2, <1>5, IdleLinksNothing, ImportNoneAssumption
    <3>2. CASE tx[u].duplicateOf = q
      BY <2>2, <3>1, <3>2 DEF Edge, MayLink
    <3>3. CASE Candidate(u, q)'
      <4>1. ASSUME q = x PROVE FALSE
        <5>1. x \notin unordered
          BY <4>1, <1>7 DEF Proper
        <5>2. HoldsCompany(u)
          BY <3>1, <3>3 DEF Candidate, HoldsCompany
        <5>3. tx[u].content # tx[w].content
          BY <5>1, <5>2, <3>1, <1>1 DEF Dedup
        <5> QED
          BY <4>1, <5>3, <3>1, <3>3, <1>2, <1>4 DEF Candidate
      <4>2. q # x
        BY <4>1
      <4>3. Candidate(u, q)
        BY <3>1, <3>3, <4>2, <1>4, <1>6 DEF Candidate
      <4> QED
        BY <2>2, <3>1, <4>3 DEF Edge, MayLink
    <3> QED
      BY <2>2, <3>1, <3>2, <3>3 DEF MayLink
  <2> QED
    BY <1>8, <2>1, <2>2 DEF Edge
<1> QED
  BY <1>6, <1>7, <1>8, NoNewEdge

\* A PATCH writes back the link it read.
LEMMA WritePatchGrounded ==
  ASSUME IInv, Grounded, NEW w \in Workers, WritePatch(w)
  PROVE  Grounded'
<1> DEFINE x == tx[w].posting
           row == [vacancies[x] EXCEPT !.status = tx[w].status,
                                       !.duplicateOf = tx[w].duplicateOf]
<1>1. /\ tx[w] \in Tx /\ x \in Postings /\ Exists(x) /\ TypeOK
      /\ tx[w].status \in VacancyStatuses /\ vacancies[x] \in VacancyRow
  BY DEF WritePatch, IInv, TypeOK, TxShape, Exists
<1>2. /\ row \in VacancyRow /\ row # None
      /\ row.content = vacancies[x].content /\ row.duplicateOf = tx[w].duplicateOf
  BY <1>1, ImportNoneAssumption DEF VacancyRow, Tx
<1>3. vacancies' = [vacancies EXCEPT ![x] = row] /\ UNCHANGED unordered
  BY <1>1 DEF WritePatch, TypeOK, history
<1>4. /\ tx'[w] = Idle
      /\ \A u \in Workers \ {w} : tx'[u] = tx[u]
  BY IdleTx, SetTx, <1>1 DEF WritePatch
<1> HIDE DEF row
<1>5. /\ vacancies'[x] = row
      /\ \A p \in Postings \ {x} : vacancies'[p] = vacancies[p]
  BY <1>1, <1>3 DEF TypeOK
<1>6. \A p \in Postings : /\ Exists(p)' <=> Exists(p)
                          /\ vacancies'[p].content = vacancies[p].content
  BY <1>1, <1>2, <1>5 DEF Exists
<1>7. ASSUME NEW p \in Proper', NEW q \in Proper', Edge(p, q)' PROVE Edge(p, q)
  <2> p \in Postings /\ q \in Postings
    BY DEF Proper
  <2>1. CASE Linked(p)' /\ vacancies'[p].duplicateOf = q
    <3>1. CASE p = x
      BY <2>1, <3>1, <1>2, <1>5 DEF Edge, MayLink
    <3>2. CASE p # x
      BY <2>1, <3>2, <1>5, <1>6 DEF Edge, Linked
    <3> QED
      BY <3>1, <3>2
  <2>2. ASSUME NEW u \in Workers, tx'[u].posting = p, MayLink(u, q)' PROVE Edge(p, q)
    <3>1. u # w /\ tx'[u] = tx[u]
      BY <2>2, <1>4, IdleLinksNothing, ImportNoneAssumption
    <3> QED
      BY <2>2, <3>1, <1>6 DEF Edge, MayLink, Candidate
  <2> QED
    BY <1>7, <2>1, <2>2 DEF Edge
<1> QED
  BY <1>3, <1>6, <1>7, NoNewEdge

LEMMA InitGrounded == Init => Grounded
<1> SUFFICES ASSUME Init PROVE Grounded
  OBVIOUS
<1>1. \A p, q \in Proper : ~Edge(p, q)
  BY IdleLinksNothing, ImportNoneAssumption
     DEF Init, Proper, Edge, Linked, Exists, MayLink, Candidate
<1> QED
  BY <1>1 DEF Grounded

LEMMA NextGrounded == IInv /\ Grounded /\ [Next]_vars => Grounded'
<1> SUFFICES ASSUME IInv, Grounded, [Next]_vars PROVE Grounded'
  OBVIOUS
<1> USE DEF IInv, history
<1>1. CASE UNCHANGED vars
  <2>1. /\ unordered' = unordered
        /\ \A p, q \in Proper' : Edge(p, q)' => Edge(p, q)
        /\ \A p \in Postings : Exists(p) => Exists(p)'
    BY <1>1 DEF vars, Proper, Edge, Linked, Exists, MayLink, Candidate
  <2> QED
    BY <2>1, NoNewEdge
<1>2. ASSUME NEW w \in Workers, NEW p \in Postings, NEW c \in Contents,
             NEW company \in CompaniesOf(c), BeginImport(w, p, c, company)
      PROVE  Grounded'
  <2>1. /\ UNCHANGED <<vacancies, unordered>>
        /\ tx'[w].stage = "company" /\ tx'[w].duplicateOf = None
        /\ \A u \in Workers \ {w} : tx'[u] = tx[u]
    BY <1>2 DEF BeginImport, TypeOK, Idle
  <2> QED
    BY <2>1, NoLinkStep
<1>3. ASSUME NEW w \in Workers, NEW p \in Postings, NEW s \in PatchTargets, BeginPatch(w, p, s)
      PROVE  Grounded'
  <2>1. /\ UNCHANGED <<vacancies, unordered>> /\ Exists(p)
        /\ tx'[w].stage = "patch" /\ tx'[w].posting = p
        /\ tx'[w].duplicateOf = vacancies[p].duplicateOf
        /\ \A u \in Workers \ {w} : tx'[u] = tx[u]
    BY <1>3 DEF BeginPatch, TypeOK, Idle
  <2>2. \A q \in Postings : MayLink(w, q)' => Edge(tx'[w].posting, q)
    BY <2>1, ImportNoneAssumption DEF MayLink, Candidate, Edge, Linked
  <2> QED
    BY <2>1, <2>2, QuietStep
<1>4. ASSUME NEW w \in Workers, NEW stage \in Stages \ {"dedup"}, Advance(w, stage)
      PROVE  Grounded'
  <2>1. /\ UNCHANGED <<vacancies, unordered>> /\ tx'[w].stage # "dedup"
        /\ tx'[w].posting = tx[w].posting /\ tx'[w].duplicateOf = tx[w].duplicateOf
        /\ \A u \in Workers \ {w} : tx'[u] = tx[u]
    BY <1>4, AdvanceTx
  <2>2. \A q \in Postings : MayLink(w, q)' => Edge(tx'[w].posting, q)
    BY <2>1 DEF MayLink, Candidate, Edge
  <2> QED
    BY <2>1, <2>2, QuietStep
<1>5. ASSUME NEW w \in Workers, NEW p \in Postings, DetectDuplicate(w, p) PROVE Grounded'
  <2>1. Candidate(w, p) /\ Compute(w, "DUPLICATE", p) /\ tx[w].posting \in Postings
    BY <1>5 DEF DetectDuplicate, Candidate, Primaries, TxShape, Importing
  <2> QED
    BY <2>1, ComputeGrounded
<1>6. ASSUME NEW w \in Workers, NEW v \in Verdicts, Classify(w, v) PROVE Grounded'
  <2>1. Compute(w, v, None) /\ tx[w].posting \in Postings
    BY <1>6 DEF Classify, TxShape, Importing
  <2> QED
    BY <2>1, ComputeGrounded
<1>7. ASSUME NEW w \in Workers, End(w) PROVE Grounded'
  <2>1. /\ UNCHANGED <<vacancies, unordered>> /\ tx'[w] = Idle
        /\ \A u \in Workers \ {w} : tx'[u] = tx[u]
    BY <1>7 DEF End, TypeOK
  <2> QED
    BY <2>1, IdleLinksNothing, NoLinkStep
<1>8. "commit" \in Stages \ {"dedup"}
  BY DEF Stages
<1>9. ASSUME NEW w \in Workers, Proceed(w) PROVE Grounded'
  BY <1>4, <1>5, <1>6, <1>8, <1>9, CompanyGrounded, FindGrounded, CommitGrounded,
     WritePatchGrounded DEF Proceed, UpsertVacancy
<1> QED
  BY <1>1, <1>2, <1>3, <1>7, <1>9, SaysAssumption DEF Next, Request, Rollback

\* Whatever imports and PATCHes overlap, following links ends at a vacancy that
\* is linked to nothing.
THEOREM LinksEndAtPrimaries == Spec => []LinksLeadToPrimaries
<1>1. Grounded => LinksLeadToPrimaries
  BY DEF Grounded, LinksLeadToPrimaries, Edge, Proper
<1>2. Spec => []Grounded
  BY InitGrounded, NextGrounded, InvariantHolds, PTL DEF Spec
<1> QED
  BY <1>1, <1>2, PTL

-----------------------------------------------------------------------------
(* While no read is disturbed: what a request has read is still there when *)
(* it writes.                                                              *)

StatusRead(p) == IF Exists(p) THEN vacancies[p].status ELSE None

\* What an import computed for a posting that has no row yet, or has one.
ForNew(t) ==
  \/ t.duplicateOf \in Primaries(t.content) /\ t.status = "DUPLICATE"
  \/ t.duplicateOf = None /\ Primaries(t.content) = {} /\ t.status \in Verdicts

ForKnown(t) ==
  t.duplicateOf = None /\ \E v \in Verdicts : t.status = IF t.read \in KeptStatuses THEN t.read ELSE v

Current(w) ==
  /\ Importing(w) => tx[w].content \in Says[tx[w].posting]
  /\ tx[w].stage \in {"dedup", "upsert", "commit"} => tx[w].read = StatusRead(tx[w].posting)
  /\ Computed(w) => IF tx[w].read = None THEN ForNew(tx[w]) ELSE ForKnown(tx[w])
  /\ tx[w].stage = "patch" =>
       /\ tx[w].status \in PatchTargets
       /\ CanTransitionVacancyStatus(vacancies[tx[w].posting].status, tx[w].status)
       /\ tx[w].duplicateOf = vacancies[tx[w].posting].duplicateOf

\* The row's lock keeps the imports of one posting apart once they write it.
VacancyLocks ==
  \A u, w \in Workers :
    u # w /\ HoldsVacancy(u) /\ HoldsVacancy(w) => tx[u].posting # tx[w].posting

CurrentInv ==
  /\ unordered = {}
  /\ \A w \in Workers : Current(w)
  /\ VacancyLocks
  /\ LinksAreDirect

\* A known posting has a status, and None is no status.
LEMMA StatusReadType ==
  ASSUME TypeOK, NEW p \in Postings
  PROVE  /\ StatusRead(p) # None <=> Exists(p)
         /\ Exists(p) => vacancies[p] \in VacancyRow /\ StatusRead(p) = vacancies[p].status
  BY ImportNoneAssumption DEF StatusRead, Exists, TypeOK, VacancyRow

\* A step of one worker that writes no row: only its own view has to be looked at.
LEMMA QuietCurrent ==
  ASSUME CurrentInv, NEW w \in Workers, UNCHANGED <<vacancies, unordered>>,
         \A u \in Workers \ {w} : tx'[u] = tx[u],
         Current(w)', HoldsVacancy(w)' => ~VacancyWaits(w) /\ tx'[w].posting = tx[w].posting
  PROVE  CurrentInv'
<1>1. \A u \in Workers \ {w} : Current(u)'
  <2> SUFFICES ASSUME NEW u \in Workers \ {w} PROVE Current(u)'
    OBVIOUS
  <2>1. Current(u) /\ tx'[u] = tx[u]
    BY DEF CurrentInv
  <2> QED
    BY <2>1 DEF Current, Importing, Computed, StatusRead, Exists, ForNew, ForKnown, Primaries
<1>2. VacancyLocks'
  BY DEF CurrentInv, VacancyLocks, HoldsVacancy, VacancyWaits
<1>3. LinksAreDirect'
  BY DEF CurrentInv, LinksAreDirect, Linked, Exists
<1> QED
  BY <1>1, <1>2, <1>3 DEF CurrentInv

\* What an import computes suits what it read.
LEMMA ComputeCurrent ==
  ASSUME TypeOK, TxShape, NEW w \in Workers, Current(w), tx[w].stage = "dedup",
         NEW status, NEW link,
         Compute(w, status, link),
         \/ /\ tx[w].read = None /\ status = "DUPLICATE" /\ link \in Primaries(tx[w].content)
         \/ /\ tx[w].read # None \/ Primaries(tx[w].content) = {}
            /\ status \in Verdicts /\ link = None
  PROVE  Current(w)'
<1> DEFINE final == IF shouldPreserveStatus(tx[w].read, status) THEN tx[w].read ELSE status
<1>1. /\ UNCHANGED vacancies
      /\ tx'[w].stage = "upsert" /\ tx'[w].posting = tx[w].posting
      /\ tx'[w].content = tx[w].content /\ tx'[w].read = tx[w].read
      /\ tx'[w].duplicateOf = link /\ tx'[w].status = final
  BY DEF Compute, TypeOK, Tx
<1>2. final = IF tx[w].read \in KeptStatuses THEN tx[w].read ELSE status
  BY DEF shouldPreserveStatus
<1> HIDE DEF final
<1>3. tx[w].read = None => final = status
  BY <1>2, ImportNoneAssumption DEF KeptStatuses, VacancyStatuses
<1>4. /\ tx[w].content \in Says[tx[w].posting]
      /\ tx[w].read = StatusRead(tx[w].posting)
  BY DEF Current, Importing
<1>5. tx[w].read = None => ForNew(tx[w])'
  BY <1>1, <1>3 DEF ForNew, Primaries, Exists
<1>6. tx[w].read # None => ForKnown(tx[w])'
  BY <1>1, <1>2 DEF ForKnown
<1> QED
  BY <1>1, <1>4, <1>5, <1>6 DEF Current, StatusRead, Exists

\* The row a request writes, as it becomes visible.
LEMMA CommitRow ==
  ASSUME IInv, NEW w \in Workers, Commit(w)
  PROVE  /\ tx[w].posting \in Postings /\ HoldsCompany(w) /\ HoldsVacancy(w) /\ Computed(w)
         /\ vacancies'[tx[w].posting] = WrittenRow(tx[w]) /\ WrittenRow(tx[w]) # None
         /\ \A p \in Postings \ {tx[w].posting} : vacancies'[p] = vacancies[p]
         /\ tx'[w] = Idle
         /\ \A u \in Workers \ {w} : tx'[u] = tx[u]
         /\ UNCHANGED unordered
<1>1. /\ tx[w] \in Tx /\ Computed(w) /\ HoldsCompany(w) /\ HoldsVacancy(w)
      /\ tx[w].posting \in Postings /\ tx[w].content \in Contents
      /\ tx[w].status \in VacancyStatuses
  BY DEF Commit, IInv, TypeOK, TxShape, Importing, Computed, HoldsCompany, HoldsVacancy
<1>2. WrittenRow(tx[w]) \in VacancyRow
  BY <1>1 DEF WrittenRow, VacancyRow, Tx
<1>3. WrittenRow(tx[w]) # None
  BY <1>2, ImportNoneAssumption
<1>4. tx'[w] = Idle /\ \A u \in Workers \ {w} : tx'[u] = tx[u]
  BY DEF Commit, IInv, TypeOK
<1> QED
  BY <1>1, <1>3, <1>4 DEF Commit, IInv, TypeOK

\* A PATCH that is still current writes a status, and nothing else.
LEMMA WritePatchRow ==
  ASSUME IInv, NEW w \in Workers, Current(w), WritePatch(w)
  PROVE  /\ tx[w].posting \in Postings /\ Exists(tx[w].posting)
         /\ tx[w].status \in PatchTargets
         /\ CanTransitionVacancyStatus(vacancies[tx[w].posting].status, tx[w].status)
         /\ vacancies' = [vacancies EXCEPT ![tx[w].posting].status = tx[w].status]
         /\ \A p \in Postings \ {tx[w].posting} : vacancies'[p] = vacancies[p]
         /\ \A p \in Postings : /\ Exists(p)' <=> Exists(p)
                                /\ vacancies'[p].content = vacancies[p].content
                                /\ vacancies'[p].duplicateOf = vacancies[p].duplicateOf
         /\ tx'[w] = Idle
         /\ \A u \in Workers \ {w} : tx'[u] = tx[u]
         /\ UNCHANGED unordered
<1> DEFINE p == tx[w].posting
           row == [vacancies[p] EXCEPT !.status = tx[w].status]
<1>1. /\ tx[w].stage = "patch" /\ p \in Postings /\ Exists(p)
      /\ vacancies[p] \in VacancyRow /\ tx[w].status \in VacancyStatuses
      /\ tx[w].status \in PatchTargets
      /\ CanTransitionVacancyStatus(vacancies[p].status, tx[w].status)
      /\ tx[w].duplicateOf = vacancies[p].duplicateOf
  BY DEF WritePatch, IInv, TypeOK, TxShape, Exists, Current
<1>2. /\ row = [vacancies[p] EXCEPT !.status = tx[w].status, !.duplicateOf = tx[w].duplicateOf]
      /\ row \in VacancyRow /\ row # None
      /\ row.content = vacancies[p].content /\ row.duplicateOf = vacancies[p].duplicateOf
  BY <1>1, ImportNoneAssumption DEF VacancyRow
<1>3. vacancies' = [vacancies EXCEPT ![p] = row]
  BY <1>1, <1>2 DEF WritePatch, IInv, TypeOK
<1>4. tx'[w] = Idle /\ \A u \in Workers \ {w} : tx'[u] = tx[u]
  BY DEF WritePatch, IInv, TypeOK
<1>5. vacancies' = [vacancies EXCEPT ![p].status = tx[w].status]
  BY <1>3
<1> HIDE DEF row
<1>6. /\ vacancies'[p] = row
      /\ \A q \in Postings \ {p} : vacancies'[q] = vacancies[q]
  BY <1>1, <1>3 DEF IInv, TypeOK
<1> QED
  BY <1>1, <1>2, <1>4, <1>5, <1>6 DEF WritePatch, history, Exists

\* Nobody else writes a row that a request has read, or is about to commit.
LEMMA RowsReadStay ==
  ASSUME IInv, CurrentInv, Undisturbed, NEW w \in Workers, Commit(w) \/ WritePatch(w),
         NEW u \in Workers \ {w}, tx[u].stage \in {"dedup", "upsert", "commit", "patch"}
  PROVE  vacancies'[tx[u].posting] = vacancies[tx[u].posting]
<1>1. tx[u].posting \in Postings
  BY DEF IInv, TxShape, Importing
<1>2. tx'[u] = tx[u] /\ \A p \in Postings \ {tx[w].posting} : vacancies'[p] = vacancies[p]
  BY CommitRow, WritePatchRow DEF CurrentInv
<1>3. HasRead(u) => vacancies'[tx[u].posting] = vacancies[tx[u].posting]
  BY <1>2 DEF Undisturbed
<1>4. CASE tx[u].stage = "commit"
  <2>1. tx[u].posting # tx[w].posting
    BY <1>4, CommitRow DEF CurrentInv, VacancyLocks, HoldsVacancy, WritePatch, VacancyWaits
  <2> QED
    BY <1>1, <1>2, <2>1
<1> QED
  BY <1>3, <1>4 DEF HasRead

\* No import commits a content that another is about to add as a new primary:
\* the company's lock is between them.
LEMMA NoPrimaryAppears ==
  ASSUME IInv, CurrentInv, NEW w \in Workers, Commit(w) \/ WritePatch(w),
         NEW u \in Workers \ {w}, Computed(u), Primaries(tx[u].content) = {}
  PROVE  Primaries(tx[u].content)' = {}
<1>1. tx'[u] = tx[u]
  BY CommitRow, WritePatchRow DEF CurrentInv
<1>2. CASE Commit(w)
  <2>1. tx[u].content # tx[w].content
    BY <1>2, CommitRow DEF IInv, Dedup, CurrentInv, HoldsCompany, Computed
  <2>2. WrittenRow(tx[w]).content = tx[w].content
    BY DEF WrittenRow
  <2> QED
    BY <1>1, <1>2, <2>1, <2>2, CommitRow DEF Primaries, Exists
<1>3. CASE WritePatch(w)
  <2>1. \A p \in Postings : /\ Exists(p)' <=> Exists(p)
                            /\ vacancies'[p].content = vacancies[p].content
                            /\ vacancies'[p].duplicateOf = vacancies[p].duplicateOf
    BY <1>3, WritePatchRow DEF CurrentInv
  <2> QED
    BY <1>1, <2>1 DEF Primaries
<1> QED
  BY <1>2, <1>3

\* What the others have seen survives a write.
LEMMA OthersStayCurrent ==
  ASSUME IInv, CurrentInv, Undisturbed, NEW w \in Workers, Commit(w) \/ WritePatch(w),
         NEW u \in Workers \ {w}
  PROVE  Current(u)'
<1>1. tx'[u] = tx[u] /\ Current(u)
  BY CommitRow, WritePatchRow DEF CurrentInv
<1>2. tx[u].stage \in {"dedup", "upsert", "commit", "patch"} =>
        /\ vacancies'[tx[u].posting] = vacancies[tx[u].posting]
        /\ StatusRead(tx[u].posting)' = StatusRead(tx[u].posting)
  BY <1>1, RowsReadStay DEF StatusRead, Exists
<1>3. ASSUME Computed(u), tx[u].read = None
      PROVE  ForNew(tx[u])'
  <2>1. CASE tx[u].duplicateOf \in Primaries(tx[u].content) /\ tx[u].status = "DUPLICATE"
    <3>1. HasLinked(u)
      BY <1>3, <2>1, ImportNoneAssumption DEF HasLinked, Computed, Primaries
    <3>2. tx'[u].duplicateOf \in Primaries(tx[u].content)'
      BY <1>1, <3>1 DEF Undisturbed
    <3> QED
      BY <1>1, <2>1, <3>2 DEF ForNew
  <2>2. CASE /\ tx[u].duplicateOf = None /\ Primaries(tx[u].content) = {}
             /\ tx[u].status \in Verdicts
    <3>1. Primaries(tx[u].content)' = {}
      BY <1>3, <2>2, NoPrimaryAppears
    <3> QED
      BY <1>1, <2>2, <3>1 DEF ForNew
  <2> QED
    BY <1>1, <1>3, <2>1, <2>2 DEF Current, ForNew
<1>4. ForKnown(tx[u])' <=> ForKnown(tx[u])
  BY <1>1 DEF ForKnown
<1> QED
  BY <1>1, <1>2, <1>3, <1>4 DEF Current, Importing, Computed

\* A write keeps links direct: only a posting without a row, to which nothing
\* is linked, gets a link, and it gets one to a primary.
LEMMA WritesKeepLinksDirect ==
  ASSUME IInv, CurrentInv, NEW w \in Workers, Commit(w) \/ WritePatch(w)
  PROVE  LinksAreDirect'
<1>1. CASE Commit(w)
  <2> DEFINE x == tx[w].posting
             link == tx[w].duplicateOf
  <2>1. WrittenRow(tx[w]).duplicateOf = link /\ Current(w)
    BY DEF WrittenRow, CurrentInv
  <2>2. /\ x \in Postings /\ vacancies'[x] # None /\ vacancies'[x].duplicateOf = link
        /\ \A p \in Postings \ {x} : vacancies'[p] = vacancies[p]
        /\ Computed(w)
    BY <1>1, <2>1, CommitRow
  <2>3. link = None \/ (~Exists(x) /\ link \in Primaries(tx[w].content))
    BY <2>1, <2>2, StatusReadType DEF Current, Computed, ForNew, ForKnown, IInv
  <2>4. link # None => link \in Postings \ {x} /\ Exists(link) /\ vacancies[link].duplicateOf = None
    BY <2>3 DEF Primaries
  <2> HIDE DEF x, link
  <2> SUFFICES ASSUME NEW p \in Postings, vacancies'[p] # None, vacancies'[p].duplicateOf # None,
                      NEW q, q = vacancies'[p].duplicateOf
               PROVE  vacancies'[q] # None /\ vacancies'[q].duplicateOf = None
    BY DEF LinksAreDirect, Linked, Exists
  <2>5. CASE p = x
    BY <2>2, <2>4, <2>5 DEF Exists
  <2>6. CASE p # x
    <3>1. vacancies[p] # None /\ vacancies[p].duplicateOf # None /\ q = vacancies[p].duplicateOf
      BY <2>2, <2>6
    <3>2. /\ q \in Postings
          /\ vacancies[q] # None /\ vacancies[q].duplicateOf = None
      BY <3>1 DEF IInv, TypeOK, VacancyRow, CurrentInv, LinksAreDirect, Linked, Exists
    <3>3. CASE q = x
      BY <2>2, <2>3, <3>2, <3>3 DEF Exists
    <3>4. CASE q # x
      BY <2>2, <3>2, <3>4
    <3> QED
      BY <3>3, <3>4
  <2> QED
    BY <2>5, <2>6
<1>2. CASE WritePatch(w)
  <2>1. \A p \in Postings : /\ Exists(p)' <=> Exists(p)
                            /\ vacancies'[p].duplicateOf = vacancies[p].duplicateOf
    BY <1>2, WritePatchRow DEF CurrentInv
  <2>2. \A p \in Postings : Linked(p) => vacancies[p].duplicateOf \in Postings
    BY DEF IInv, TypeOK, VacancyRow, Linked, Exists
  <2> QED
    BY <2>1, <2>2 DEF LinksAreDirect, Linked, CurrentInv
<1> QED
  BY <1>1, <1>2

\* An idle worker has seen nothing.
LEMMA IdleIsCurrent ==
  ASSUME NEW w \in Workers, tx[w] = Idle
  PROVE  Current(w) /\ ~HoldsVacancy(w)
  BY IdleTx DEF Current, Importing, Computed, HoldsVacancy

\* Every step leaves every request's view of the rows current.
LEMMA NextCurrentInv ==
  ASSUME IInv, CurrentInv, [Next /\ Undisturbed]_vars
  PROVE  CurrentInv'
<1>1. TypeOK /\ TxShape /\ \A w \in Workers : Current(w)
  BY DEF IInv, CurrentInv
<1>2. ASSUME NEW w \in Workers, End(w)
      PROVE  CurrentInv'
  <2>1. /\ UNCHANGED <<vacancies, unordered>>
        /\ tx'[w] = Idle /\ \A u \in Workers \ {w} : tx'[u] = tx[u]
    BY <1>1, <1>2 DEF End, TypeOK, history
  <2>2. Current(w)' /\ ~HoldsVacancy(w)'
    BY <2>1, IdleTx DEF Current, Importing, Computed, HoldsVacancy
  <2> QED
    BY <2>1, <2>2, QuietCurrent
<1>3. ASSUME NEW w \in Workers, NEW p \in Postings, NEW c \in Says[p],
             NEW company \in CompaniesOf(c), BeginImport(w, p, c, company)
      PROVE  CurrentInv'
  <2>1. /\ UNCHANGED <<vacancies, unordered>>
        /\ tx'[w].stage = "company" /\ tx'[w].posting = p /\ tx'[w].content = c
        /\ \A u \in Workers \ {w} : tx'[u] = tx[u]
    BY <1>1, <1>3 DEF BeginImport, TypeOK, Idle, history
  <2>2. Current(w)' /\ ~HoldsVacancy(w)'
    BY <2>1 DEF Current, Importing, Computed, HoldsVacancy
  <2> QED
    BY <2>1, <2>2, QuietCurrent
<1>4. ASSUME NEW w \in Workers, NEW p \in Postings, NEW s \in PatchTargets, BeginPatch(w, p, s)
      PROVE  CurrentInv'
  <2>1. /\ UNCHANGED <<vacancies, unordered>>
        /\ tx'[w].stage = "patch" /\ tx'[w].posting = p /\ tx'[w].status = s
        /\ tx'[w].duplicateOf = vacancies[p].duplicateOf
        /\ CanTransitionVacancyStatus(vacancies[p].status, s)
        /\ \A u \in Workers \ {w} : tx'[u] = tx[u]
    BY <1>1, <1>4 DEF BeginPatch, TypeOK, Idle, history
  <2>2. Current(w)' /\ ~HoldsVacancy(w)'
    BY <2>1 DEF Current, Importing, Computed, HoldsVacancy
  <2> QED
    BY <2>1, <2>2, QuietCurrent
<1>5. ASSUME NEW w \in Workers, GetOrCreateCompany(w)
      PROVE  CurrentInv' \/ unordered' # {}
  <2> SUFFICES ASSUME unordered' = {} PROVE CurrentInv'
    OBVIOUS
  <2>1. /\ UNCHANGED <<vacancies, unordered>>
        /\ tx[w].stage = "company" /\ tx'[w].stage = "find"
        /\ tx'[w].posting = tx[w].posting /\ tx'[w].content = tx[w].content
        /\ \A u \in Workers \ {w} : tx'[u] = tx[u]
    BY <1>1, <1>5 DEF GetOrCreateCompany, TypeOK, Tx, CurrentInv
  <2>2. Current(w)' /\ ~HoldsVacancy(w)'
    BY <1>1, <2>1 DEF Current, Importing, Computed, HoldsVacancy
  <2> QED
    BY <2>1, <2>2, QuietCurrent
<1>6. ASSUME NEW w \in Workers, FindVacancy(w)
      PROVE  CurrentInv'
  <2>1. /\ UNCHANGED <<vacancies, unordered>>
        /\ tx[w].stage = "find" /\ tx'[w].stage = "dedup"
        /\ tx'[w].posting = tx[w].posting /\ tx'[w].content = tx[w].content
        /\ tx'[w].read = StatusRead(tx[w].posting)
        /\ \A u \in Workers \ {w} : tx'[u] = tx[u]
    BY <1>1, <1>6 DEF FindVacancy, TypeOK, Tx, StatusRead, history
  <2>2. Current(w)' /\ ~HoldsVacancy(w)'
    BY <1>1, <2>1 DEF Current, Importing, Computed, HoldsVacancy, StatusRead, Exists
  <2> QED
    BY <2>1, <2>2, QuietCurrent
<1>7. ASSUME NEW w \in Workers, NEW status, NEW link, tx[w].stage = "dedup",
             Compute(w, status, link),
             \/ /\ tx[w].read = None /\ status = "DUPLICATE" /\ link \in Primaries(tx[w].content)
             \/ /\ tx[w].read # None \/ Primaries(tx[w].content) = {}
                /\ status \in Verdicts /\ link = None
      PROVE  CurrentInv'
  <2>1. /\ UNCHANGED <<vacancies, unordered>>
        /\ tx'[w].stage = "upsert"
        /\ \A u \in Workers \ {w} : tx'[u] = tx[u]
    BY <1>1, <1>7 DEF Compute, TypeOK, Tx, history
  <2>2. Current(w)'
    BY <1>1, <1>7, ComputeCurrent
  <2> QED
    BY <2>1, <2>2, QuietCurrent DEF HoldsVacancy
<1>8. ASSUME NEW w \in Workers, UpsertVacancy(w)
      PROVE  CurrentInv'
  <2>1. /\ UNCHANGED <<vacancies, unordered>>
        /\ tx[w].stage = "upsert" /\ ~VacancyWaits(w) /\ tx'[w].stage = "commit"
        /\ tx'[w].posting = tx[w].posting /\ tx'[w].content = tx[w].content
        /\ tx'[w].read = tx[w].read /\ tx'[w].status = tx[w].status
        /\ tx'[w].duplicateOf = tx[w].duplicateOf
        /\ \A u \in Workers \ {w} : tx'[u] = tx[u]
    BY <1>1, <1>8, AdvanceTx DEF UpsertVacancy, Stages, history
  <2>2. Current(w)'
    BY <1>1, <2>1
    DEF Current, Importing, Computed, StatusRead, Exists, ForNew, ForKnown, Primaries
  <2> QED
    BY <2>1, <2>2, QuietCurrent
<1>9. ASSUME NEW w \in Workers, Commit(w) \/ WritePatch(w), Undisturbed
      PROVE  CurrentInv'
  <2>1. /\ tx'[w] = Idle /\ UNCHANGED unordered
        /\ \A u \in Workers \ {w} : tx'[u] = tx[u]
    BY <1>1, <1>9, CommitRow, WritePatchRow
  <2>2. Current(w)' /\ ~HoldsVacancy(w)'
    BY <2>1, IdleTx DEF Current, Importing, Computed, HoldsVacancy
  <2>3. \A u \in Workers \ {w} : Current(u)'
    BY <1>9, OthersStayCurrent
  <2>4. VacancyLocks'
    BY <2>1, <2>2 DEF CurrentInv, VacancyLocks, HoldsVacancy
  <2>5. LinksAreDirect'
    BY <1>9, WritesKeepLinksDirect
  <2> QED
    BY <2>1, <2>2, <2>3, <2>4, <2>5 DEF CurrentInv
<1>10. ASSUME NEW w \in Workers, Proceed(w), Undisturbed
       PROVE  CurrentInv'
  <2>1. unordered' = {}
    BY <1>10 DEF Undisturbed, CurrentInv
  <2>2. ASSUME NEW p \in Postings, DetectDuplicate(w, p)
        PROVE  CurrentInv'
    BY <1>7, <2>2 DEF DetectDuplicate
  <2>3. ASSUME NEW v \in Verdicts, Classify(w, v)
        PROVE  CurrentInv'
    BY <1>7, <2>3 DEF Classify
  <2> QED
    BY <1>5, <1>6, <1>8, <1>9, <1>10, <2>1, <2>2, <2>3 DEF Proceed
<1>11. CASE UNCHANGED vars
  BY <1>1, <1>11 DEF vars, CurrentInv, VacancyLocks, HoldsVacancy, LinksAreDirect, Linked,
     Current, Importing, Computed, StatusRead, Exists, ForNew, ForKnown, Primaries
<1> QED
  BY <1>2, <1>3, <1>4, <1>10, <1>11 DEF Next, Request, Rollback

\* The empty database, with nobody at work.
LEMMA InitCurrentInv == Init => CurrentInv
  BY IdleIsCurrent DEF Init, CurrentInv, VacancyLocks, LinksAreDirect, Linked, Exists

\* Behaviours in which no read is disturbed are behaviours of the import.
LEMMA UndisturbedIsSpec == UndisturbedSpec => Spec
<1>1. [Next /\ Undisturbed]_vars => [Next]_vars
  OBVIOUS
<1> QED
  BY <1>1, PTL DEF UndisturbedSpec, Spec

\* While no read is disturbed, requests see the rows as they are.
LEMMA CurrentInvHolds == UndisturbedSpec => []CurrentInv
<1>1. IInv /\ CurrentInv /\ [Next /\ Undisturbed]_vars => CurrentInv'
  BY NextCurrentInv
<1> QED
  BY <1>1, InitCurrentInv, InvariantHolds, UndisturbedIsSpec, PTL DEF UndisturbedSpec

\* While no read is disturbed, a duplicate's link is one step from its primary,
\* however often postings are imported again with other contents.
THEOREM DuplicatesAreOneStepAway == UndisturbedSpec => []LinksAreDirect
<1>1. CurrentInv => LinksAreDirect
  BY DEF CurrentInv
<1> QED
  BY <1>1, CurrentInvHolds, PTL

\* While no read is disturbed, ARCHIVED is the end of a vacancy, for imports too:
\* only an import that read the row before the owner archived it brings it back
\* (app.go:360).
THEOREM ArchivedStays == UndisturbedSpec => ArchivedStaysArchived
<1>1. ASSUME IInv, CurrentInv, Next, NEW p \in Postings,
             Exists(p), vacancies[p].status = "ARCHIVED"
      PROVE  vacancies'[p].status = "ARCHIVED"
  <2>1. ASSUME NEW w \in Workers, Commit(w)
        PROVE  vacancies'[p].status = "ARCHIVED"
    <3>1. CASE tx[w].posting = p
      <4>1. tx[w].read = "ARCHIVED"
        BY <1>1, <2>1, <3>1, CommitRow DEF CurrentInv, Current, StatusRead, Commit
      <4>2. tx[w].status = "ARCHIVED"
        BY <1>1, <2>1, <4>1, CommitRow DEF IInv, Decided, KeptStatuses
      <4>3. WrittenRow(tx[w]).status = tx[w].status
        BY DEF WrittenRow
      <4> QED
        BY <1>1, <2>1, <3>1, <4>2, <4>3, CommitRow
    <3>2. CASE tx[w].posting # p
      BY <1>1, <2>1, <3>2, CommitRow
    <3> QED
      BY <3>1, <3>2
  <2>2. ASSUME NEW w \in Workers, WritePatch(w)
        PROVE  vacancies'[p].status = "ARCHIVED"
    <3>1. CASE tx[w].posting = p
      <4>1. /\ CanTransitionVacancyStatus("ARCHIVED", tx[w].status)
            /\ vacancies' = [vacancies EXCEPT ![p].status = tx[w].status]
        BY <1>1, <2>2, <3>1, WritePatchRow DEF CurrentInv
      <4>2. tx[w].status = "ARCHIVED"
        BY <4>1 DEF CanTransitionVacancyStatus, vacancyTransitions, VacancyStatuses
      <4> QED
        BY <1>1, <4>1, <4>2 DEF IInv, TypeOK, Exists, VacancyRow
    <3>2. CASE tx[w].posting # p
      BY <1>1, <2>2, <3>2, WritePatchRow DEF CurrentInv
    <3> QED
      BY <3>1, <3>2
  <2> QED
    BY <1>1, <2>1, <2>2, OnlyWritesMoveRows
<1>2. IInv /\ CurrentInv /\ [Next]_vars =>
        [\A p \in Postings :
           Exists(p) /\ vacancies[p].status = "ARCHIVED" => vacancies'[p].status = "ARCHIVED"]_vars
  BY <1>1
<1> QED
  BY <1>2, InvariantHolds, CurrentInvHolds, UndisturbedIsSpec, PTL DEF Spec, ArchivedStaysArchived

-----------------------------------------------------------------------------
(* The import implements its contract: an import and a PATCH go to it in   *)
(* one step, their write.                                                  *)

\* The contract's table of transitions is that of the program.
LEMMA SameTransitions ==
  \A from, to : Contract!CanTransitionVacancyStatus(from, to)
                  <=> CanTransitionVacancyStatus(from, to)
  BY DEF Contract!CanTransitionVacancyStatus, CanTransitionVacancyStatus,
         Contract!vacancyTransitions, vacancyTransitions,
         Contract!VacancyStatuses, VacancyStatuses

\* A COMMIT of what is current is a step of the contract.
LEMMA CommitIsContractStep ==
  ASSUME IInv, CurrentInv, NEW w \in Workers, Commit(w)
  PROVE  Contract!Next
<1> DEFINE p == tx[w].posting
           c == tx[w].content
           link == tx[w].duplicateOf
<1>1. /\ p \in Postings /\ c \in Says[p] /\ Computed(w)
      /\ vacancies' = [vacancies EXCEPT ![p] = [content |-> c, status |-> tx[w].status,
                                                duplicateOf |-> link]]
      /\ tx[w].read = StatusRead(p)
      /\ IF tx[w].read = None THEN ForNew(tx[w]) ELSE ForKnown(tx[w])
  BY CommitRow DEF Commit, WrittenRow, CurrentInv, Current, Importing, Computed
<1>2. /\ tx[w].read # None <=> Exists(p)
      /\ Exists(p) => tx[w].read = vacancies[p].status
  BY <1>1, StatusReadType DEF IInv
<1>3. \A q \in Postings : q \in Primaries(c) <=> Contract!Primary(q, c)
  BY DEF Primaries, Exists, Contract!Primary, Contract!Known
<1>4. CASE tx[w].read = None /\ link \in Primaries(c) /\ tx[w].status = "DUPLICATE"
  <2>1. link \in Postings
    BY <1>4 DEF Primaries
  <2>2. Contract!NewDuplicate(p, c, link)
    BY <1>1, <1>2, <1>3, <1>4, <2>1
    DEF Contract!NewDuplicate, Contract!Put, Contract!Known, Exists
  <2> QED
    BY <1>1, <2>1, <2>2 DEF Contract!Next
<1>5. CASE tx[w].read = None /\ link = None /\ Primaries(c) = {} /\ tx[w].status \in Verdicts
  <2>1. Contract!New(p, c, tx[w].status)
    BY <1>1, <1>2, <1>3, <1>5 DEF Contract!New, Contract!Put, Contract!Known, Exists
  <2> QED
    BY <1>1, <1>5, <2>1 DEF Contract!Next
<1>6. CASE tx[w].read # None
  <2>1. PICK v \in Verdicts :
          tx[w].status = IF tx[w].read \in KeptStatuses THEN tx[w].read ELSE v
    BY <1>1, <1>6 DEF ForKnown
  <2>2. link = None
    BY <1>1, <1>6 DEF ForKnown
  <2>3. Contract!Again(p, c, v)
    BY <1>1, <1>2, <1>6, <2>1, <2>2 DEF Contract!Again, Contract!Put, Contract!Known, Exists
  <2> QED
    BY <1>1, <2>3 DEF Contract!Next
<1> QED
  BY <1>1, <1>4, <1>5, <1>6 DEF ForNew

\* Every step is one of the contract, or invisible to it.
LEMMA StepsAreContractSteps ==
  ASSUME IInv, CurrentInv, [Next]_vars
  PROVE  [Contract!Next]_vacancies
<1>1. ASSUME NEW w \in Workers, WritePatch(w)
      PROVE  Contract!Next
  <2>1. /\ tx[w].posting \in Postings /\ tx[w].status \in PatchTargets
        /\ Exists(tx[w].posting)
        /\ CanTransitionVacancyStatus(vacancies[tx[w].posting].status, tx[w].status)
        /\ vacancies' = [vacancies EXCEPT ![tx[w].posting].status = tx[w].status]
    BY <1>1, WritePatchRow DEF CurrentInv
  <2>2. Contract!Decide(tx[w].posting, tx[w].status)
    BY <2>1, SameTransitions DEF Contract!Decide, Contract!Known, Exists
  <2> QED
    BY <2>1, <2>2 DEF Contract!Next
<1>2. CASE UNCHANGED vars
  BY <1>2 DEF vars
<1> QED
  BY <1>1, <1>2, CommitIsContractStep, OnlyWritesMoveRows

\* While no read is disturbed, transactions, locks and companies are invisible:
\* imports and PATCHes happen one after the other, each at once.
THEOREM ImplementsContract == UndisturbedSpec => ContractSpec
<1>1. Init => Contract!Init
  BY DEF Init, Contract!Init
<1>2. IInv /\ CurrentInv /\ [Next]_vars => [Contract!Next]_vacancies
  BY StepsAreContractSteps
<1> QED
  BY <1>1, <1>2, InvariantHolds, CurrentInvHolds, UndisturbedIsSpec, PTL
  DEF Spec, ContractSpec, Contract!Spec

-----------------------------------------------------------------------------
(* What the company's lock sees to: between imports no read is disturbed,  *)
(* when no posting changes its employer.                                   *)

\* Every row and every import in flight names its posting's employer, and
\* the locks of companies exclude each other.
ApartInv ==
  /\ PatchesApart
  /\ \A p \in Postings : Exists(p) => vacancies[p].content \in Says[p]
  /\ \A w \in Workers : Importing(w) => tx[w].content \in Says[tx[w].posting]
  /\ \A u, w \in Workers :
       u # w /\ HoldsCompany(u) /\ HoldsCompany(w) => tx[u].company # tx[w].company

\* With fixed employers, an import's company is its posting's.
LEMMA CompanyOfPosting ==
  ASSUME FixedEmployers, IInv, ApartInv, NEW w \in Workers, Importing(w)
  PROVE  /\ tx[w].posting \in Postings /\ Employer[tx[w].content] # None
         /\ \A c \in Says[tx[w].posting] : Employer[c] = tx[w].company
<1>1. /\ tx[w].posting \in Postings /\ tx[w].content \in Says[tx[w].posting]
      /\ tx[w].company \in CompaniesOf(tx[w].content)
  BY DEF IInv, TxShape, ApartInv
<1>2. \A c \in Says[tx[w].posting] : /\ Employer[tx[w].content] # None
                                     /\ Employer[c] = Employer[tx[w].content]
  BY <1>1 DEF FixedEmployers
<1> QED
  BY <1>1, <1>2 DEF CompaniesOf

\* Two imports past their company's lock share neither posting nor content, and
\* neither is about the primary the other found.
LEMMA ImportsApart ==
  ASSUME FixedEmployers, IInv, ApartInv, NEW u \in Workers, NEW w \in Workers, u # w,
         HoldsCompany(u), HoldsCompany(w)
  PROVE  /\ tx[u].posting # tx[w].posting
         /\ tx[u].posting \notin Primaries(tx[w].content)
<1>1. Importing(u) /\ Importing(w)
  BY DEF HoldsCompany, Importing
<1>2. tx[u].company # tx[w].company
  BY DEF ApartInv
<1>3. /\ tx[w].content \in Says[tx[w].posting]
      /\ tx[u].content \in Says[tx[u].posting]
  BY <1>1 DEF ApartInv
<1>4. Employer[tx[w].content] = tx[w].company
  BY <1>1, <1>3, CompanyOfPosting
<1>5. tx[u].posting # tx[w].posting
  BY <1>1, <1>2, <1>3, CompanyOfPosting
<1>6. ASSUME tx[u].posting \in Primaries(tx[w].content)
      PROVE  FALSE
  <2>1. tx[w].content \in Says[tx[u].posting]
    BY <1>6 DEF Primaries, ApartInv
  <2>2. Employer[tx[w].content] = tx[u].company
    BY <1>1, <2>1, CompanyOfPosting
  <2> QED
    BY <1>2, <1>4, <2>2
<1> QED
  BY <1>5, <1>6

\* A step of requests that are apart disturbs no read.
LEMMA ApartIsUndisturbed ==
  ASSUME FixedEmployers, IInv, CurrentInv, ApartInv, Next
  PROVE  Undisturbed
<1>1. UNCHANGED unordered
  <2>1. ASSUME NEW w \in Workers, GetOrCreateCompany(w)
        PROVE  UNCHANGED unordered
    <3>1. Importing(w)
      BY <2>1 DEF GetOrCreateCompany, Importing
    <3>2. Unordered(w) = {}
      BY <3>1, CompanyOfPosting DEF Unordered
    <3> QED
      BY <2>1, <3>2 DEF GetOrCreateCompany
  <2> QED
    BY <2>1, UnorderedStays
<1>2. ASSUME NEW w \in Workers, Commit(w), NEW u \in Workers \ {w}
      PROVE  /\ HasRead(u) => vacancies'[tx[u].posting] = vacancies[tx[u].posting]
             /\ HasLinked(u) => tx[u].duplicateOf \in Primaries(tx[u].content)'
  <2>1. /\ HoldsCompany(w) /\ tx'[u] = tx[u]
        /\ \A p \in Postings \ {tx[w].posting} : vacancies'[p] = vacancies[p]
    BY <1>2, CommitRow
  <2>2. HasRead(u) => tx[u].posting \in Postings \ {tx[w].posting}
    BY <2>1, ImportsApart
    DEF HasRead, HoldsCompany, ApartInv, PatchesApart, IInv, TxShape, Importing
  <2>3. ASSUME HasLinked(u)
        PROVE  tx[u].duplicateOf \in Primaries(tx[u].content)'
    <3>1. tx[u].duplicateOf \in Primaries(tx[u].content)
      BY <2>3 DEF HasLinked, CurrentInv, Current, Computed, ForNew, ForKnown
    <3>2. tx[u].duplicateOf # tx[w].posting
      BY <2>1, <2>3, <3>1, ImportsApart DEF HasLinked, HoldsCompany
    <3> QED
      BY <2>1, <3>1, <3>2 DEF Primaries, Exists
  <2> QED
    BY <2>1, <2>2, <2>3
<1>3. ASSUME NEW w \in Workers, WritePatch(w), NEW u \in Workers \ {w}
      PROVE  /\ HasRead(u) => vacancies'[tx[u].posting] = vacancies[tx[u].posting]
             /\ HasLinked(u) => tx[u].duplicateOf \in Primaries(tx[u].content)'
  <2>1. /\ tx'[u] = tx[u] /\ tx[w].stage = "patch"
        /\ \A p \in Postings \ {tx[w].posting} : vacancies'[p] = vacancies[p]
        /\ \A p \in Postings : /\ Exists(p)' <=> Exists(p)
                               /\ vacancies'[p].content = vacancies[p].content
                               /\ vacancies'[p].duplicateOf = vacancies[p].duplicateOf
    BY <1>3, WritePatchRow DEF CurrentInv, WritePatch
  <2>2. HasRead(u) => tx[u].posting \in Postings \ {tx[w].posting}
    BY <2>1 DEF HasRead, ApartInv, PatchesApart, IInv, TxShape, Importing
  <2>3. ASSUME HasLinked(u)
        PROVE  tx[u].duplicateOf \in Primaries(tx[u].content)'
    <3>1. tx[u].duplicateOf \in Primaries(tx[u].content)
      BY <2>3 DEF HasLinked, CurrentInv, Current, Computed, ForNew, ForKnown
    <3> QED
      BY <2>1, <3>1 DEF Primaries
  <2> QED
    BY <2>1, <2>2, <2>3
<1>4. ASSUME UNCHANGED vacancies, NEW u \in Workers, tx'[u] = tx[u]
      PROVE  /\ HasRead(u) => vacancies'[tx[u].posting] = vacancies[tx[u].posting]
             /\ HasLinked(u) => (tx[u].duplicateOf \in Primaries(tx[u].content))'
  BY <1>4 DEF HasLinked, CurrentInv, Current, Computed, ForNew, ForKnown, Primaries, Exists
<1>5. ASSUME NEW w \in Workers, Commit(w) \/ WritePatch(w), NEW u \in Workers, tx'[u] = tx[u]
      PROVE  u # w
  BY <1>5, IdleTx, CommitRow, WritePatchRow DEF Commit, WritePatch, CurrentInv
<1> QED
  BY <1>1, <1>2, <1>3, <1>4, <1>5, OnlyWritesMoveRows DEF Undisturbed

\* A step of one worker that writes no row keeps requests apart, when it is
\* about its posting and took its company's lock from nobody.
LEMMA QuietApart ==
  ASSUME ApartInv, PatchesApart', NEW w \in Workers, UNCHANGED vacancies,
         \A u \in Workers \ {w} : tx'[u] = tx[u],
         Importing(w)' => tx'[w].content \in Says[tx'[w].posting],
         HoldsCompany(w)' => /\ ~CompanyWaits(w) \/ HoldsCompany(w)
                             /\ tx'[w].company = tx[w].company
  PROVE  ApartInv'
<1>1. \A p \in Postings : Exists(p)' => vacancies'[p].content \in Says[p]
  BY DEF ApartInv, Exists
<1>2. \A u \in Workers : Importing(u)' => tx'[u].content \in Says[tx'[u].posting]
  BY DEF ApartInv, Importing
<1>3. \A u, v \in Workers :
        u # v /\ HoldsCompany(u)' /\ HoldsCompany(v)' => tx'[u].company # tx'[v].company
  BY DEF ApartInv, HoldsCompany, CompanyWaits
<1> QED
  BY <1>1, <1>2, <1>3 DEF ApartInv

\* Requests stay apart.
LEMMA NextApartInv ==
  ASSUME IInv, CurrentInv, ApartInv, [Next /\ PatchesApart']_vars
  PROVE  ApartInv'
<1>1. TypeOK /\ TxShape
  BY DEF IInv
<1>2. ASSUME NEW w \in Workers, End(w), PatchesApart'
      PROVE  ApartInv'
  <2>1. /\ UNCHANGED vacancies
        /\ tx'[w] = Idle /\ \A u \in Workers \ {w} : tx'[u] = tx[u]
    BY <1>1, <1>2 DEF End, TypeOK
  <2>2. ~Importing(w)' /\ ~HoldsCompany(w)'
    BY <2>1, IdleTx DEF Importing, HoldsCompany
  <2> QED
    BY <1>2, <2>1, <2>2, QuietApart
<1>3. ASSUME NEW w \in Workers, NEW p \in Postings, NEW c \in Says[p],
             NEW company \in CompaniesOf(c), BeginImport(w, p, c, company), PatchesApart'
      PROVE  ApartInv'
  <2>1. /\ UNCHANGED vacancies
        /\ tx'[w].stage = "company" /\ tx'[w].posting = p /\ tx'[w].content = c
        /\ \A u \in Workers \ {w} : tx'[u] = tx[u]
    BY <1>1, <1>3 DEF BeginImport, TypeOK, Idle
  <2>2. ~HoldsCompany(w)'
    BY <2>1 DEF HoldsCompany
  <2> QED
    BY <1>3, <2>1, <2>2, QuietApart
<1>4. ASSUME NEW w \in Workers, NEW p \in Postings, NEW s \in PatchTargets, BeginPatch(w, p, s),
             PatchesApart'
      PROVE  ApartInv'
  <2>1. /\ UNCHANGED vacancies
        /\ tx'[w].stage = "patch"
        /\ \A u \in Workers \ {w} : tx'[u] = tx[u]
    BY <1>1, <1>4 DEF BeginPatch, TypeOK, Idle
  <2>2. ~Importing(w)' /\ ~HoldsCompany(w)'
    BY <2>1 DEF Importing, HoldsCompany
  <2> QED
    BY <1>4, <2>1, <2>2, QuietApart
<1>5. ASSUME NEW w \in Workers, PatchesApart', UNCHANGED vacancies,
             \A u \in Workers \ {w} : tx'[u] = tx[u],
             tx'[w].posting = tx[w].posting, tx'[w].content = tx[w].content,
             tx'[w].company = tx[w].company, Importing(w),
             ~CompanyWaits(w) \/ HoldsCompany(w)
      PROVE  ApartInv'
  <2>1. tx'[w].content \in Says[tx'[w].posting]
    BY <1>5 DEF ApartInv
  <2> QED
    BY <1>5, <2>1, QuietApart
<1>6. ASSUME NEW w \in Workers, GetOrCreateCompany(w), PatchesApart'
      PROVE  ApartInv'
  <2>1. /\ UNCHANGED vacancies /\ Importing(w) /\ ~CompanyWaits(w)
        /\ tx'[w].posting = tx[w].posting /\ tx'[w].content = tx[w].content
        /\ tx'[w].company = tx[w].company
        /\ \A u \in Workers \ {w} : tx'[u] = tx[u]
    BY <1>1, <1>6 DEF GetOrCreateCompany, TypeOK, Tx, Importing
  <2> QED
    BY <1>5, <1>6, <2>1
<1>7. ASSUME NEW w \in Workers, FindVacancy(w), PatchesApart'
      PROVE  ApartInv'
  <2>1. /\ UNCHANGED vacancies /\ Importing(w) /\ HoldsCompany(w)
        /\ tx'[w].posting = tx[w].posting /\ tx'[w].content = tx[w].content
        /\ tx'[w].company = tx[w].company
        /\ \A u \in Workers \ {w} : tx'[u] = tx[u]
    BY <1>1, <1>7 DEF FindVacancy, TypeOK, Tx, Importing, HoldsCompany
  <2> QED
    BY <1>5, <1>7, <2>1
<1>8. ASSUME NEW w \in Workers, NEW s, NEW link, tx[w].stage = "dedup", Compute(w, s, link),
             PatchesApart'
      PROVE  ApartInv'
  <2>1. /\ UNCHANGED vacancies /\ Importing(w) /\ HoldsCompany(w)
        /\ tx'[w].posting = tx[w].posting /\ tx'[w].content = tx[w].content
        /\ tx'[w].company = tx[w].company
        /\ \A u \in Workers \ {w} : tx'[u] = tx[u]
    BY <1>1, <1>8 DEF Compute, TypeOK, Tx, Importing, HoldsCompany
  <2> QED
    BY <1>5, <1>8, <2>1
<1>9. ASSUME NEW w \in Workers, UpsertVacancy(w), PatchesApart'
      PROVE  ApartInv'
  <2>1. /\ UNCHANGED vacancies /\ Importing(w) /\ HoldsCompany(w)
        /\ tx'[w].posting = tx[w].posting /\ tx'[w].content = tx[w].content
        /\ tx'[w].company = tx[w].company
        /\ \A u \in Workers \ {w} : tx'[u] = tx[u]
    BY <1>1, <1>9, AdvanceTx DEF UpsertVacancy, Stages, Importing, HoldsCompany
  <2> QED
    BY <1>5, <1>9, <2>1
<1>10. ASSUME NEW w \in Workers, Commit(w) \/ WritePatch(w), PatchesApart'
       PROVE  ApartInv'
  <2>1. tx'[w] = Idle /\ \A u \in Workers \ {w} : tx'[u] = tx[u]
    BY <1>10, CommitRow, WritePatchRow DEF CurrentInv
  <2>2. ~Importing(w)' /\ ~HoldsCompany(w)'
    BY <2>1, IdleTx DEF Importing, HoldsCompany
  <2>3. /\ \A u \in Workers : Importing(u)' => tx'[u].content \in Says[tx'[u].posting]
        /\ \A u, v \in Workers :
             u # v /\ HoldsCompany(u)' /\ HoldsCompany(v)' => tx'[u].company # tx'[v].company
    BY <2>1, <2>2 DEF ApartInv, Importing, HoldsCompany
  <2>4. ASSUME NEW p \in Postings, Exists(p)'
        PROVE  vacancies'[p].content \in Says[p]
    <3>1. CASE Commit(w)
      <4>1. /\ WrittenRow(tx[w]).content = tx[w].content
            /\ tx[w].content \in Says[tx[w].posting]
        BY <3>1 DEF WrittenRow, ApartInv, Commit, Importing
      <4> QED
        BY <2>4, <3>1, <4>1, CommitRow DEF ApartInv, Exists
    <3>2. CASE WritePatch(w)
      BY <2>4, <3>2, WritePatchRow DEF ApartInv, CurrentInv
    <3> QED
      BY <1>10, <3>1, <3>2
  <2> QED
    BY <1>10, <2>3, <2>4 DEF ApartInv
<1>11. ASSUME NEW w \in Workers, Proceed(w), PatchesApart'
       PROVE  ApartInv'
  <2>1. ASSUME NEW p \in Postings, DetectDuplicate(w, p)
        PROVE  ApartInv'
    BY <1>8, <1>11, <2>1 DEF DetectDuplicate
  <2>2. ASSUME NEW v \in Verdicts, Classify(w, v)
        PROVE  ApartInv'
    BY <1>8, <1>11, <2>2 DEF Classify
  <2> QED
    BY <1>6, <1>7, <1>9, <1>10, <1>11, <2>1, <2>2 DEF Proceed
<1>12. CASE UNCHANGED vars
  BY <1>12 DEF vars, ApartInv, PatchesApart, Importing, HoldsCompany, Exists
<1> QED
  BY <1>2, <1>3, <1>4, <1>11, <1>12 DEF Next, Request, Rollback

\* Between imports the company's lock is enough: with employers that stay who
\* they are, a read can only be disturbed by a PATCH, or disturb one.
THEOREM ImportsKeepApart ==
  ASSUME FixedEmployers
  PROVE  PatchesApartSpec => UndisturbedSpec
<1>1. Init => ApartInv
  BY IdleTx DEF Init, ApartInv, PatchesApart, Importing, HoldsCompany, Exists
<1>2. IInv /\ CurrentInv /\ ApartInv /\ [Next /\ PatchesApart']_vars =>
        /\ [Next]_vars
        /\ [Next /\ Undisturbed]_vars
        /\ ApartInv' /\ CurrentInv'
  <2> SUFFICES ASSUME IInv, CurrentInv, ApartInv, [Next /\ PatchesApart']_vars
               PROVE  [Next /\ Undisturbed]_vars /\ ApartInv' /\ CurrentInv'
    OBVIOUS
  <2>1. [Next /\ Undisturbed]_vars
    BY ApartIsUndisturbed
  <2> QED
    BY <2>1, NextApartInv, NextCurrentInv
<1>3. [Next /\ PatchesApart']_vars => [Next]_vars
  OBVIOUS
<1> QED
  BY <1>1, <1>2, <1>3, InitIInv, NextIInv, InitCurrentInv, PTL DEF PatchesApartSpec, UndisturbedSpec
=============================================================================
