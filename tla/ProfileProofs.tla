--------------------------- MODULE ProfileProofs ---------------------------
(***************************************************************************)
(* Proofs about Profile, for any workers, profiles, resumes, vacancies and *)
(* requests.                                                               *)
(***************************************************************************)
EXTENDS Profile, FiniteSetTheorems, TLAPS

\* What a request is about to write.
Shape(rec) ==
  /\ rec.stage \in {"stamp", "save"} =>
       rec.target \in Ids /\ (rec.seen # None => rec.target = rec.seen)
  /\ rec.stage = "save" => rec.at > 0
  /\ rec.stage = "resume" =>
       /\ rec.resume \in Resumes /\ rec.row \in Row
       /\ rec.read # None =>
            rec.read \in Row /\ rec.patch \in Patch /\ rec.row = Patched(rec.read, rec.patch)
  /\ rec.stage # "resume" => rec.resume = None

TxShape == \A w \in Workers : Shape(tx[w])

Creates(w) == tx[w].stage = "resume" /\ tx[w].read = None

\* A new resume is nobody else's, and a resume that is patched stays with the
\* profile it was created for.
Owned ==
  \A w \in Workers : tx[w].stage = "resume" =>
    /\ Creates(w) =>
         /\ ~Exists(tx[w].resume)
         /\ \A u \in Workers \ {w} : tx[u].resume # tx[w].resume
    /\ ~Creates(w) =>
         Exists(tx[w].resume) /\ resumes[tx[w].resume].profile = tx[w].read.profile

IInv == TypeOK /\ TxShape /\ Owned

-----------------------------------------------------------------------------
(* Rows.                                                                   *)

LEMMA IdleTyped == Idle \in Tx /\ Shape(Idle) /\ Idle.stage = "idle" /\ Idle.resume = None
BY DEF Idle, Tx, Stages, Shape

\* A patch gives a row of the same profile; each field is the one of the patch,
\* or the one that was there.
LEMMA PatchedRow ==
  ASSUME NEW row \in Row, NEW patch \in Patch
  PROVE  /\ Patched(row, patch) \in Row
         /\ Patched(row, patch).profile = row.profile
         /\ \A f \in {"role", "skills", "active"} :
              patch[f] = None => Patched(row, patch)[f] = row[f]
<1> DEFINE role == IF patch.role = None THEN row.role ELSE patch.role
           skills == IF patch.skills = None THEN row.skills ELSE patch.skills
           active == IF patch.active = None THEN row.active ELSE patch.active
<1>1. Patched(row, patch) = [row EXCEPT !.role = role, !.skills = skills, !.active = active]
  BY DEF Patched
<1>2. role \in Roles /\ skills \in SUBSET Skills /\ active \in BOOLEAN
  BY DEF Row, Patch
<1>3. /\ patch.role = None => role = row.role
      /\ patch.skills = None => skills = row.skills
      /\ patch.active = None => active = row.active
  OBVIOUS
<1> HIDE DEF role, skills, active
<1>4. /\ [row EXCEPT !.role = role, !.skills = skills, !.active = active] \in Row
      /\ [row EXCEPT !.role = role, !.skills = skills, !.active = active].profile = row.profile
      /\ [row EXCEPT !.role = role, !.skills = skills, !.active = active].role = role
      /\ [row EXCEPT !.role = role, !.skills = skills, !.active = active].skills = skills
      /\ [row EXCEPT !.role = role, !.skills = skills, !.active = active].active = active
  BY <1>2 DEF Row
<1> QED
  BY <1>1, <1>3, <1>4

LEMMA PatchedShape ==
  ASSUME NEW row \in Row, NEW patch \in Patch, NEW r \in Resumes
  PROVE  LET rec == [Idle EXCEPT !.stage = "resume", !.resume = r, !.read = row,
                                 !.patch = patch, !.row = Patched(row, patch)]
         IN  /\ rec \in Tx /\ Shape(rec)
             /\ rec.stage = "resume" /\ rec.resume = r /\ rec.read = row
<1> DEFINE new == Patched(row, patch)
<1>1. new \in Row
  BY PatchedRow
<1> HIDE DEF new
<1> DEFINE rec == [Idle EXCEPT !.stage = "resume", !.resume = r, !.read = row,
                               !.patch = patch, !.row = new]
<1>2. /\ rec \in Tx /\ rec.stage = "resume" /\ rec.resume = r /\ rec.read = row
      /\ rec.patch = patch /\ rec.row = new
  BY <1>1 DEF Idle, Tx, Stages
<1> HIDE DEF rec
<1>3. Shape(rec)
  BY <1>1, <1>2 DEF Shape, new
<1> QED
  BY <1>2, <1>3 DEF rec, new

-----------------------------------------------------------------------------
(* The invariant.                                                          *)

\* A step of one request that writes no resume.
LEMMA Moves ==
  ASSUME IInv, NEW w \in Workers, NEW rec \in Tx, Shape(rec),
         tx' = [tx EXCEPT ![w] = rec], UNCHANGED resumes,
         updated' \in [Ids -> Nat], clock' \in Nat,
         rec.stage = "resume" =>
           /\ rec.read = None =>
                /\ ~Exists(rec.resume)
                /\ \A u \in Workers \ {w} : tx[u].resume # rec.resume
           /\ rec.read # None =>
                Exists(rec.resume) /\ resumes[rec.resume].profile = rec.read.profile
  PROVE  IInv'
<1>1. /\ tx' \in [Workers -> Tx] /\ tx'[w] = rec
      /\ \A u \in Workers \ {w} : tx'[u] = tx[u]
  BY DEF IInv, TypeOK
<1>2. TypeOK' /\ TxShape'
  BY <1>1 DEF IInv, TypeOK, TxShape
<1>3. ASSUME NEW u \in Workers, tx'[u].stage = "resume",
             Creates(u)', NEW x \in Workers \ {u}
      PROVE  tx'[x].resume # tx'[u].resume
  <2>1. CASE u = w
    BY <1>1, <1>3, <2>1 DEF Creates
  <2>2. CASE x = w
    <3>1. /\ tx'[u] = tx[u] /\ Creates(u) /\ ~Exists(tx[u].resume)
          /\ tx[u].resume \in Resumes
      BY <1>1, <1>3, <2>2 DEF Creates, IInv, Owned, TxShape, Shape
    <3> QED
      BY <1>1, <1>3, <2>2, <3>1, ProfileNoneAssumption DEF Shape
  <2>3. CASE u # w /\ x # w
    BY <1>1, <1>3, <2>3 DEF Creates, IInv, Owned
  <2> QED
    BY <2>1, <2>2, <2>3
<1>4. Owned'
  BY <1>1, <1>3 DEF Owned, Creates, Exists, IInv
<1> QED
  BY <1>2, <1>4 DEF IInv

LEMMA WriteResume ==
  ASSUME IInv, NEW w \in Workers, UpsertResume(w)
  PROVE  IInv'
<1> DEFINE r == tx[w].resume
           row == tx[w].row
<1>1. /\ tx[w].stage = "resume" /\ r \in Resumes /\ row \in Row /\ row # None
      /\ tx[w].read # None =>
           /\ tx[w].read \in Row /\ tx[w].patch \in Patch
           /\ row = Patched(tx[w].read, tx[w].patch)
  BY ProfileNoneAssumption DEF UpsertResume, IInv, TxShape, Shape
<1>2. tx[w].read # None => row.profile = tx[w].read.profile
  BY <1>1, PatchedRow
<1>3. /\ resumes' \in [Resumes -> {None} \cup Row] /\ resumes'[r] = row
      /\ \A q \in Resumes \ {r} : resumes'[q] = resumes[q]
      /\ tx' \in [Workers -> Tx] /\ tx'[w] = Idle
      /\ \A u \in Workers \ {w} : tx'[u] = tx[u]
      /\ UNCHANGED <<updated, clock>>
  BY <1>1, IdleTyped DEF UpsertResume, IInv, TypeOK
<1>4. /\ Creates(w) => ~Exists(r) /\ \A u \in Workers \ {w} : tx[u].resume # r
      /\ ~Creates(w) => Exists(r) /\ resumes[r].profile = tx[w].read.profile
  BY <1>1 DEF IInv, Owned
<1> HIDE DEF r, row
<1>5. TypeOK' /\ TxShape'
  BY <1>3, IdleTyped DEF IInv, TypeOK, TxShape
<1>6. Owned'
  <2> SUFFICES ASSUME NEW u \in Workers, tx'[u].stage = "resume"
               PROVE  /\ Creates(u)' =>
                           /\ ~Exists(tx[u].resume)'
                           /\ \A x \in Workers \ {u} : tx'[x].resume # tx'[u].resume
                      /\ ~Creates(u)' =>
                           /\ Exists(tx[u].resume)'
                           /\ resumes'[tx'[u].resume].profile = tx'[u].read.profile
    BY DEF Owned
  <2>1. /\ u # w /\ tx'[u] = tx[u] /\ tx[u].stage = "resume" /\ tx[u].resume \in Resumes
        /\ Creates(u)' <=> Creates(u)
    BY <1>3, IdleTyped DEF Creates, IInv, TxShape, Shape
  <2>2. CASE Creates(u)
    <3>1. /\ ~Exists(tx[u].resume)
          /\ \A x \in Workers \ {u} : tx[x].resume # tx[u].resume
      BY <2>1, <2>2 DEF IInv, Owned
    <3>2. tx[u].resume # r
      BY <2>1, <3>1 DEF r
    <3> QED
      BY <1>3, <2>1, <2>2, <3>1, <3>2, IdleTyped, ProfileNoneAssumption DEF Exists
  <2>3. CASE ~Creates(u)
    <3>1. Exists(tx[u].resume) /\ resumes[tx[u].resume].profile = tx[u].read.profile
      BY <2>1, <2>3 DEF IInv, Owned
    <3>2. CASE tx[u].resume = r
      <4>1. ~Creates(w)
        BY <1>4, <2>1, <3>2
      <4>2. tx[w].read # None
        BY <1>1, <4>1 DEF Creates
      <4>3. row.profile = tx[u].read.profile
        BY <1>2, <1>4, <3>1, <3>2, <4>1, <4>2
      <4> QED
        BY <1>1, <1>3, <2>1, <2>3, <3>2, <4>3 DEF Exists
    <3>3. CASE tx[u].resume # r
      BY <1>3, <2>1, <2>3, <3>1, <3>3 DEF Exists
    <3> QED
      BY <3>2, <3>3
  <2> QED
    BY <2>2, <2>3, <2>1
<1> QED
  BY <1>5, <1>6 DEF IInv

LEMMA RequestSafe ==
  ASSUME IInv, NEW w \in Workers, Request(w)
  PROVE  IInv'
<1>1. updated \in [Ids -> Nat] /\ clock \in Nat /\ tx[w] \in Tx
  BY DEF IInv, TypeOK
<1>2. ASSUME NEW i \in Ids, BeginSave(w, i) PROVE IInv'
  <2> DEFINE rec == [Idle EXCEPT !.stage = "stamp", !.seen = i, !.target = i]
  <2>1. rec \in Tx /\ Shape(rec) /\ rec.stage = "stamp"
    BY DEF Idle, Tx, Stages, Shape
  <2>2. Start(w, rec)
    BY <1>2 DEF BeginSave
  <2> HIDE DEF rec
  <2> QED
    BY <1>1, <2>1, <2>2, Moves DEF Start
<1>3. ASSUME NEW i \in Ids, BeginFirstSave(w, i) PROVE IInv'
  <2> DEFINE rec == [Idle EXCEPT !.stage = "stamp", !.target = i]
  <2>1. rec \in Tx /\ Shape(rec) /\ rec.stage = "stamp"
    BY DEF Idle, Tx, Stages, Shape
  <2>2. Start(w, rec)
    BY <1>3 DEF BeginFirstSave
  <2> HIDE DEF rec
  <2> QED
    BY <1>1, <2>1, <2>2, Moves DEF Start
<1>4. ASSUME NEW i \in Ids, NEW r \in Resumes, NEW fields \in Creations,
             CreateResume(w, i, r, fields)
      PROVE  IInv'
  <2> DEFINE row == [profile |-> i, role |-> fields.role,
                     skills |-> fields.skills, active |-> fields.active]
             rec == [Idle EXCEPT !.stage = "resume", !.resume = r, !.row = row]
  <2>1. row \in Row
    BY RequestsAssumption DEF Row, Fields
  <2>2. Start(w, rec) /\ Fresh(r)
    BY <1>4 DEF CreateResume
  <2> HIDE DEF row
  <2>3. rec \in Tx /\ Shape(rec) /\ rec.stage = "resume" /\ rec.read = None /\ rec.resume = r
    BY <2>1 DEF Idle, Tx, Stages, Shape
  <2> HIDE DEF rec
  <2> QED
    BY <1>1, <2>2, <2>3, Moves DEF Start, Fresh
<1>5. ASSUME NEW r \in Resumes, NEW patch \in Patches, UpdateResume(w, r, patch)
      PROVE  IInv'
  <2> DEFINE rec == [Idle EXCEPT !.stage = "resume", !.resume = r, !.read = resumes[r],
                                 !.patch = patch, !.row = Patched(resumes[r], patch)]
  <2>1. Start(w, rec) /\ Exists(r)
    BY <1>5 DEF UpdateResume
  <2>2. resumes[r] \in Row /\ resumes[r] # None /\ patch \in Patch
    BY <2>1, RequestsAssumption DEF Exists, IInv, TypeOK
  <2>3. /\ rec \in Tx /\ Shape(rec)
        /\ rec.stage = "resume" /\ rec.resume = r /\ rec.read = resumes[r]
    BY <2>2, PatchedShape
  <2> HIDE DEF rec
  <2> QED
    BY <1>1, <2>1, <2>2, <2>3, Moves DEF Start
<1> QED
  BY <1>2, <1>3, <1>4, <1>5 DEF Request

LEMMA InitInv == Init => IInv
<1> SUFFICES ASSUME Init PROVE IInv
  OBVIOUS
<1>1. TypeOK /\ TxShape
  BY IdleTyped DEF Init, TypeOK, TxShape
<1>2. Owned
  BY IdleTyped DEF Init, Owned
<1> QED
  BY <1>1, <1>2 DEF IInv

LEMMA NextInv == IInv /\ [Next]_vars => IInv'
<1> SUFFICES ASSUME IInv, [Next]_vars PROVE IInv'
  OBVIOUS
<1>1. ASSUME NEW w \in Workers, StampSave(w) PROVE IInv'
  <2> DEFINE rec == [tx[w] EXCEPT !.stage = "save", !.at = clock']
  <2>1. tx[w] \in Tx /\ tx[w].stage = "stamp" /\ Shape(tx[w]) /\ clock' \in Nat /\ clock' > 0
    BY <1>1 DEF StampSave, IInv, TypeOK, TxShape
  <2>2. tx' = [tx EXCEPT ![w] = rec] /\ UNCHANGED <<updated, resumes>>
    BY <1>1 DEF StampSave
  <2>3. rec \in Tx /\ Shape(rec) /\ rec.stage = "save"
    BY <2>1 DEF Tx, Stages, Shape
  <2>4. updated \in [Ids -> Nat]
    BY DEF IInv, TypeOK
  <2> HIDE DEF rec
  <2> QED
    BY <2>1, <2>2, <2>3, <2>4, Moves
<1>2. ASSUME NEW w \in Workers, UpsertCandidateProfile(w) PROVE IInv'
  <2>1. updated' \in [Ids -> Nat] /\ clock' \in Nat
    BY <1>2 DEF UpsertCandidateProfile, IInv, TypeOK, Tx
  <2>2. tx' = [tx EXCEPT ![w] = Idle] /\ UNCHANGED resumes
    BY <1>2 DEF UpsertCandidateProfile
  <2> QED
    BY <2>1, <2>2, IdleTyped, Moves
<1>3. ASSUME NEW w \in Workers, Abandon(w) PROVE IInv'
  <2>1. updated' \in [Ids -> Nat] /\ clock' \in Nat
    BY <1>3 DEF Abandon, IInv, TypeOK
  <2> QED
    BY <1>3, <2>1, IdleTyped, Moves DEF Abandon
<1>4. CASE UNCHANGED vars
  BY <1>4 DEF vars, IInv, TypeOK, TxShape, Owned, Creates, Exists
<1> QED
  BY <1>1, <1>2, <1>3, <1>4, RequestSafe, WriteResume DEF Next, Proceed

LEMMA InvariantHolds == Spec => []IInv
BY InitInv, NextInv, PTL DEF Spec

\* Rows keep their types through saves, creations and patches: a resume always
\* belongs to a profile.
THEOREM TypeCorrect == Spec => []TypeOK
<1>1. IInv => TypeOK
  BY DEF IInv
<1> QED
  BY <1>1, InvariantHolds, PTL

-----------------------------------------------------------------------------
(* What a step does to the owner's list.                                   *)

LEMMA Writers ==
  ASSUME [Next]_vars
  PROVE  \/ UNCHANGED <<updated, resumes>>
         \/ \E w \in Workers : UpsertCandidateProfile(w)
         \/ \E w \in Workers : UpsertResume(w)
BY DEF Next, Request, BeginSave, BeginFirstSave, CreateResume, UpdateResume, Start,
       Proceed, StampSave, Abandon, vars

\* What UpsertResume writes.
LEMMA ResumeWritten ==
  ASSUME IInv, NEW w \in Workers, UpsertResume(w), NEW r \in Resumes, Exists(r),
         resumes'[r] # resumes[r]
  PROVE  /\ tx[w].resume = r /\ tx'[w] = Idle /\ tx[w].patch \in Patch /\ tx[w].read \in Row
         /\ resumes'[r] = Patched(tx[w].read, tx[w].patch)
         /\ resumes'[r] \in Row /\ resumes'[r].profile = resumes[r].profile
<1>1. resumes' = [resumes EXCEPT ![tx[w].resume] = tx[w].row] /\ tx'[w] = Idle
  BY DEF UpsertResume, IInv, TypeOK
<1>2. tx[w].resume = r /\ resumes'[r] = tx[w].row /\ tx[w].stage = "resume"
  BY <1>1 DEF UpsertResume, IInv, TypeOK
<1>3. tx[w].read # None /\ resumes[r].profile = tx[w].read.profile
  BY <1>2 DEF IInv, Owned, Creates
<1>4. /\ tx[w].read \in Row /\ tx[w].patch \in Patch
      /\ tx[w].row = Patched(tx[w].read, tx[w].patch)
  BY <1>2, <1>3 DEF IInv, TxShape, Shape
<1> QED
  BY <1>1, <1>2, <1>3, <1>4, PatchedRow

StaysListed(r) ==
  Listed(r) /\ ~Listed(r)' =>
    \E w \in Workers : tx[w].stage = "save" /\ tx'[w] = Idle /\ Overlapped(w)

LEMMA ListKept ==
  ASSUME IInv, [Next]_vars, NEW r \in Resumes
  PROVE  StaysListed(r)
<1> SUFFICES ASSUME Listed(r), ~Listed(r)'
             PROVE  \E w \in Workers : tx[w].stage = "save" /\ tx'[w] = Idle /\ Overlapped(w)
  BY DEF StaysListed
<1>0. PICK owner \in Ids : owner = resumes[r].profile
  BY DEF Listed, Exists, IInv, TypeOK, Row
<1>1. Exists(r) /\ InForce(owner)
  BY <1>0 DEF Listed
<1>2. owner \in Ids /\ updated \in [Ids -> Nat]
  BY DEF IInv, TypeOK
<1>3. CASE UNCHANGED <<updated, resumes>>
  BY <1>3 DEF Listed, Exists, InForce, Saved
<1>4. ASSUME NEW w \in Workers, UpsertResume(w) PROVE FALSE
  <2>1. Exists(r)' /\ resumes'[r].profile = owner
    <3>1. CASE resumes'[r] = resumes[r]
      BY <1>0, <1>1, <3>1 DEF Exists
    <3>2. CASE resumes'[r] # resumes[r]
      BY <1>0, <1>1, <1>4, <3>2, ResumeWritten, ProfileNoneAssumption DEF Exists
    <3> QED
      BY <3>1, <3>2
  <2> QED
    BY <1>1, <1>4, <2>1 DEF Listed, InForce, Saved, UpsertResume
<1>5. ASSUME NEW w \in Workers, UpsertCandidateProfile(w)
      PROVE  tx[w].stage = "save" /\ tx'[w] = Idle /\ Overlapped(w)
  <2>1. /\ tx[w].stage = "save" /\ tx'[w] = Idle /\ UNCHANGED resumes
        /\ updated' = [updated EXCEPT ![tx[w].target] = tx[w].at]
    BY <1>5 DEF UpsertCandidateProfile, IInv, TypeOK
  <2>2. ~InForce(owner)'
    BY <1>0, <1>1, <2>1 DEF Listed, Exists
  <2>3. SUFFICES ASSUME tx[w].seen = owner, tx[w].at >= updated[owner] PROVE FALSE
    <3>1. tx[w].at \in Nat /\ updated[owner] \in Nat
      BY <1>2 DEF IInv, TypeOK, Tx
    <3>2. tx[w].seen # owner \/ tx[w].at < updated[owner] => Overlapped(w)
      BY <1>1, <1>2 DEF Overlapped
    <3> QED
      BY <2>1, <3>1, <3>2
  <2>4. tx[w].target = owner /\ tx[w].at > 0 /\ tx[w].at \in Nat
    <3>1. owner # None
      BY <1>2, ProfileNoneAssumption
    <3> QED
      BY <2>1, <2>3, <3>1 DEF IInv, TypeOK, TxShape, Shape, Tx
  <2>5. updated'[owner] = tx[w].at /\ \A j \in Ids : j # owner => updated'[j] = updated[j]
    BY <1>2, <2>1, <2>4
  <2>6. \A j \in Ids : updated[j] <= updated[owner]
    BY <1>1 DEF InForce
  <2>7. \A j \in Ids : updated'[j] <= updated'[owner]
    BY <1>2, <2>3, <2>4, <2>5, <2>6
  <2> QED
    BY <2>2, <2>4, <2>5, <2>7 DEF InForce, Saved
<1> QED
  BY <1>3, <1>4, <1>5, Writers DEF Listed

\* A resume leaves the owner's list only by a save that missed the profile in
\* force.
THEOREM ResumesAreKept == Spec => ResumesStayListed
<1>1. IInv /\ [Next]_vars => [\A r \in Resumes : StaysListed(r)]_vars
  BY ListKept
<1>2. [\A r \in Resumes : StaysListed(r)]_vars =>
        [\A r \in Resumes :
           Listed(r) /\ ~Listed(r)' =>
             \E w \in Workers : tx[w].stage = "save" /\ tx'[w] = Idle /\ Overlapped(w)]_vars
  BY DEF StaysListed
<1> QED
  BY <1>1, <1>2, InvariantHolds, PTL DEF Spec, ResumesStayListed

-----------------------------------------------------------------------------

FieldStays(r, f) ==
  Exists(r) /\ resumes'[r][f] # resumes[r][f] =>
    \E w \in Workers :
      /\ tx[w].resume = r /\ tx'[w] = Idle
      /\ tx[w].patch[f] # None \/ tx[w].read[f] # resumes[r][f]

LEMMA FieldKept ==
  ASSUME IInv, [Next]_vars, NEW r \in Resumes, NEW f \in {"role", "skills", "active"}
  PROVE  FieldStays(r, f)
<1> SUFFICES ASSUME Exists(r), resumes'[r][f] # resumes[r][f]
             PROVE  \E w \in Workers :
                      /\ tx[w].resume = r /\ tx'[w] = Idle
                      /\ tx[w].patch[f] # None \/ tx[w].read[f] # resumes[r][f]
  BY DEF FieldStays
<1>1. PICK w \in Workers : UpsertResume(w)
  BY Writers DEF UpsertCandidateProfile
<1>2. /\ tx[w].resume = r /\ tx'[w] = Idle /\ tx[w].patch \in Patch /\ tx[w].read \in Row
      /\ resumes'[r] = Patched(tx[w].read, tx[w].patch)
  BY <1>1, ResumeWritten
<1>3. tx[w].patch[f] = None => resumes'[r][f] = tx[w].read[f]
  BY <1>2, PatchedRow
<1> QED
  BY <1>2, <1>3

\* A field that no patch names is written back as it was read, so it changes
\* only when the resume was stale.
THEOREM FieldsAreKept == Spec => PatchedFieldsStay
<1>1. IInv /\ [Next]_vars =>
        [\A r \in Resumes, f \in {"role", "skills", "active"} : FieldStays(r, f)]_vars
  BY FieldKept
<1>2. [\A r \in Resumes, f \in {"role", "skills", "active"} : FieldStays(r, f)]_vars =>
        [\A r \in Resumes, f \in {"role", "skills", "active"} :
           Exists(r) /\ resumes'[r][f] # resumes[r][f] =>
             \E w \in Workers :
               /\ tx[w].resume = r /\ tx'[w] = Idle
               /\ tx[w].patch[f] # None \/ tx[w].read[f] # resumes[r][f]]_vars
  BY DEF FieldStays
<1> QED
  BY <1>1, <1>2, InvariantHolds, PTL DEF Spec, PatchedFieldsStay

-----------------------------------------------------------------------------
(* The choice.                                                             *)

\* The order of the sort, for any scores.
Before(score, r, q) ==
  \/ score[r] > score[q]
  \/ /\ score[r] = score[q]
     /\ \/ CreatedAt[r] < CreatedAt[q]
        \/ CreatedAt[r] = CreatedAt[q] /\ r < q

LEMMA BeforeOrders ==
  ASSUME NEW score \in [Resumes -> Nat],
         NEW r \in Resumes, NEW q \in Resumes, NEW s \in Resumes
  PROVE  /\ r # q => Before(score, r, q) \/ Before(score, q, r)
         /\ Before(score, r, q) /\ Before(score, q, s) => Before(score, r, s)
<1>1. /\ CreatedAt[r] \in Nat /\ CreatedAt[q] \in Nat /\ CreatedAt[s] \in Nat
      /\ score[r] \in Nat /\ score[q] \in Nat /\ score[s] \in Nat
      /\ r \in Nat /\ q \in Nat /\ s \in Nat
  BY ResumesAssumption
<1> QED
  BY <1>1 DEF Before

\* When one candidate is not better than all the others, but than all of them
\* except one, then that one is.
LEMMA NewcomerWins ==
  ASSUME NEW score \in [Resumes -> Nat], NEW r \in Resumes, NEW q \in Resumes \ {r},
         NEW C \in SUBSET Resumes, r \in C,
         \A s \in C \ {r, q} : Before(score, r, s),
         ~(\A s \in C \ {r} : Before(score, r, s))
  PROVE  q \in C /\ \A s \in C \ {q} : Before(score, q, s)
<1>1. q \in C /\ ~Before(score, r, q)
  OBVIOUS
<1>2. Before(score, q, r)
  BY <1>1, BeforeOrders
<1>3. ASSUME NEW s \in C \ {q, r} PROVE Before(score, q, s)
  BY <1>2, BeforeOrders
<1> QED
  BY <1>1, <1>2, <1>3

LEMMA ScoresCount ==
  ASSUME NEW v \in Vacancies, NEW rows
  PROVE  [x \in Resumes |-> Cardinality(rows[x].skills \cap v.skills)] \in [Resumes -> Nat]
<1> SUFFICES ASSUME NEW x \in Resumes
             PROVE  Cardinality(rows[x].skills \cap v.skills) \in Nat
  OBVIOUS
<1>1. v.skills \subseteq Skills
  BY RequestsAssumption DEF Vacancy
<1>2. IsFiniteSet(rows[x].skills \cap v.skills)
  BY <1>1, FS_Subset, SkillsAssumption
<1> QED
  BY <1>2, FS_CardinalityType

\* A change of one resume that is not the chosen one.
LEMMA OneRowChanges ==
  ASSUME NEW v \in Vacancies, NEW r \in Resumes, NEW q \in Resumes \ {r},
         UNCHANGED updated, \A s \in Resumes \ {q} : resumes'[s] = resumes[s],
         r \in Select(v), ~(r \in Select(v))'
  PROVE  (q \in Select(v))'
<1> DEFINE role == inferResumeTargetRole(v)
           G == "GENERAL_BACKEND"
           Old(o) == filterResumesByRole(o)
           New(o) == filterResumesByRole(o)'
           C == Candidates(v)
           D == Candidates(v)'
           old == [x \in Resumes |-> Cardinality(resumes[x].skills \cap v.skills)]
           new == [x \in Resumes |-> Cardinality(resumes'[x].skills \cap v.skills)]
<1>1. \A s \in Resumes \ {q} : (s \in New(role) <=> s \in Old(role))
  BY DEF filterResumesByRole, Listed, Exists, InForce, Saved
<1>2. \A s \in Resumes \ {q} : (s \in New(G) <=> s \in Old(G))
  BY DEF filterResumesByRole, Listed, Exists, InForce, Saved
<1>3. /\ C = IF Old(role) # {} THEN Old(role) ELSE Old(G)
      /\ D = IF New(role) # {} THEN New(role) ELSE New(G)
  BY DEF Candidates
<1>4. /\ Old(role) \subseteq Resumes /\ New(role) \subseteq Resumes
      /\ Old(G) \subseteq Resumes /\ New(G) \subseteq Resumes
  BY DEF filterResumesByRole
<1>5. /\ \A s, x \in Resumes : Better(s, x, v) <=> Before(old, s, x)
      /\ \A s, x \in Resumes : Better(s, x, v)' <=> Before(new, s, x)
  BY DEF Better, Before, overlapCount
<1>6. old \in [Resumes -> Nat] /\ new \in [Resumes -> Nat]
  BY ScoresCount
<1>7. \A x \in Resumes \ {q} : new[x] = old[x]
  OBVIOUS
<1>8. r \in C /\ \A s \in C \ {r} : Better(r, s, v)
  BY DEF Select
<1>9. \A x \in Resumes : (x \in Select(v))' <=>
        x \in D /\ \A s \in D \ {x} : Better(x, s, v)'
  BY <1>3, <1>4 DEF Select
<1> HIDE DEF role, Old, New, C, D, old, new
<1>10. CASE r \in D
  <2>1. \A s \in D \ {r, q} : s \in C \ {r}
    BY <1>1, <1>2, <1>3, <1>4, <1>8, <1>10
  <2>2. D \subseteq Resumes /\ C \subseteq Resumes
    BY <1>3, <1>4
  <2>3. \A s \in D \ {r, q} : Before(new, r, s)
    BY <1>5, <1>7, <1>8, <2>1, <2>2 DEF Before
  <2>4. ~(\A s \in D \ {r} : Before(new, r, s))
    BY <1>5, <1>9, <1>10, <2>2
  <2>5. q \in D /\ \A s \in D \ {q} : Before(new, q, s)
    BY <1>6, <1>10, <2>2, <2>3, <2>4, NewcomerWins
  <2> QED
    BY <1>5, <1>9, <2>2, <2>5
<1>11. CASE r \notin D
  <2>1. D = {q}
    BY <1>1, <1>2, <1>3, <1>4, <1>8, <1>11
  <2> QED
    BY <1>9, <2>1
<1> QED
  BY <1>10, <1>11

ChoiceFollows(v, r) ==
  r \in Select(v) /\ ~(r \in Select(v))' =>
    \/ resumes'[r] # resumes[r]
    \/ \E q \in Resumes : (q \in Select(v))' /\ resumes'[q] # resumes[q]
    \/ \E i \in Ids : InForce(i) # InForce(i)'

LEMMA ChoiceKept ==
  ASSUME IInv, [Next]_vars, NEW v \in Vacancies, NEW r \in Resumes
  PROVE  ChoiceFollows(v, r)
<1> SUFFICES ASSUME r \in Select(v), ~(r \in Select(v))', resumes'[r] = resumes[r],
                    \A i \in Ids : InForce(i) = InForce(i)'
             PROVE  \E q \in Resumes : (q \in Select(v))' /\ resumes'[q] # resumes[q]
  BY DEF ChoiceFollows
<1>1. CASE UNCHANGED <<updated, resumes>>
  BY <1>1 DEF Select, Candidates, filterResumesByRole, Better, overlapCount, Listed,
              Exists, InForce, Saved
<1>2. ASSUME NEW w \in Workers, UpsertCandidateProfile(w) PROVE FALSE
  <2>1. UNCHANGED resumes
    BY <1>2 DEF UpsertCandidateProfile
  <2>2. \A x \in Resumes : Listed(x) <=> Listed(x)'
    <3> SUFFICES ASSUME NEW x \in Resumes, Exists(x) PROVE Listed(x) <=> Listed(x)'
      BY <2>1 DEF Listed, Exists
    <3>1. PICK i \in Ids : i = resumes[x].profile
      BY DEF Exists, IInv, TypeOK, Row
    <3> QED
      BY <2>1, <3>1 DEF Listed, Exists
  <2>3. \A o : filterResumesByRole(o) = filterResumesByRole(o)'
    BY <2>1, <2>2 DEF filterResumesByRole
  <2>4. Candidates(v) = Candidates(v)'
    BY <2>3 DEF Candidates
  <2> QED
    BY <2>1, <2>4 DEF Select, Better, overlapCount
<1>3. ASSUME NEW w \in Workers, UpsertResume(w)
      PROVE  \E q \in Resumes : (q \in Select(v))' /\ resumes'[q] # resumes[q]
  <2>1. PICK q \in Resumes : q = tx[w].resume
    BY <1>3 DEF UpsertResume, IInv, TxShape, Shape
  <2>2. UNCHANGED updated /\ \A s \in Resumes \ {q} : resumes'[s] = resumes[s]
    BY <1>3, <2>1 DEF UpsertResume, IInv, TypeOK
  <2>3. CASE resumes'[q] = resumes[q]
    <3>1. resumes' = resumes
      BY <1>3, <2>1, <2>2, <2>3 DEF UpsertResume, IInv, TypeOK
    <3> QED
      BY <1>1, <2>2, <3>1
  <2>4. CASE resumes'[q] # resumes[q]
    BY <2>2, <2>4, OneRowChanges
  <2> QED
    BY <2>3, <2>4
<1> QED
  BY <1>1, <1>2, <1>3, Writers

\* The choice of a resume changes with the chosen resume, the one that replaces
\* it, or the profile in force; other resumes come and go without a trace.
THEOREM ChoiceIsKept == Spec => ChoiceFollowsChange
<1>1. IInv /\ [Next]_vars =>
        [\A v \in Vacancies, r \in Resumes : ChoiceFollows(v, r)]_vars
  BY ChoiceKept
<1>2. [\A v \in Vacancies, r \in Resumes : ChoiceFollows(v, r)]_vars =>
        [\A v \in Vacancies, r \in Resumes :
           r \in Select(v) /\ ~(r \in Select(v))' =>
             \/ resumes'[r] # resumes[r]
             \/ \E q \in Resumes : (q \in Select(v))' /\ resumes'[q] # resumes[q]
             \/ \E i \in Ids : InForce(i) # InForce(i)']_vars
  BY DEF ChoiceFollows
<1> QED
  BY <1>1, <1>2, InvariantHolds, PTL DEF Spec, ChoiceFollowsChange

-----------------------------------------------------------------------------
(* One owner.  The other modules know of one profile; this is when they    *)
(* are right.                                                              *)

Saving(w) == tx[w].stage \in {"stamp", "save"}

FoundNone(w) == Saving(w) /\ tx[w].seen = None

\* A save that found no profile was right: it is not the query that failed, and
\* no other save found none beside it.
FirstSaveAlone ==
  \A w \in Workers : FoundNone(w) => NoProfile /\ \A u \in Workers \ {w} : ~FoundNone(u)

OneOwnerSpec == Init /\ [][Next /\ FirstSaveAlone']_vars

OneProfile == \A i, j \in Ids : Saved(i) /\ Saved(j) => i = j

\* What a save found is there.
FoundIsThere == \A w \in Workers : Saving(w) /\ tx[w].seen # None => Saved(tx[w].seen)

OneInv == FirstSaveAlone /\ OneProfile /\ FoundIsThere

\* The rows of the profiles after one was written.
LEMMA OneSaved ==
  ASSUME IInv, OneInv, NEW w \in Workers, UpsertCandidateProfile(w)
  PROVE  /\ OneProfile'
         /\ \A i \in Ids : Saved(i) => Saved(i)'
<1> DEFINE target == tx[w].target
<1>1. /\ updated \in [Ids -> Nat] /\ target \in Ids
      /\ tx[w].at \in Nat /\ tx[w].at > 0 /\ Saving(w)
      /\ updated' = [updated EXCEPT ![target] = tx[w].at]
      /\ tx[w].seen # None => tx[w].seen = target
  BY DEF UpsertCandidateProfile, IInv, TypeOK, TxShape, Shape, Tx, Saving
<1>2. \A i \in Ids : Saved(i) => i = target
  BY <1>1 DEF OneInv, FirstSaveAlone, FoundNone, NoProfile, OneProfile, FoundIsThere
<1>3. updated'[target] > 0 /\ \A i \in Ids : i # target => updated'[i] = updated[i]
  BY <1>1
<1> HIDE DEF target
<1>4. OneProfile'
  BY <1>2, <1>3 DEF OneProfile, Saved
<1> QED
  BY <1>2, <1>3, <1>4 DEF Saved

\* Nobody's profile is written but by UpsertCandidateProfile.
LEMMA SavedStays ==
  ASSUME IInv, OneInv, [Next]_vars
  PROVE  OneProfile' /\ \A i \in Ids : Saved(i) => Saved(i)'
<1>1. CASE UNCHANGED updated
  BY <1>1 DEF OneInv, OneProfile, Saved
<1>2. CASE \E w \in Workers : UpsertCandidateProfile(w)
  BY <1>2, OneSaved
<1> QED
  BY <1>1, <1>2, Writers DEF UpsertResume

LEMMA NextOneInv ==
  ASSUME IInv, OneInv, [Next /\ FirstSaveAlone']_vars
  PROVE  OneInv'
<1>1. OneProfile' /\ \A i \in Ids : Saved(i) => Saved(i)'
  BY SavedStays
<1>2. ASSUME NEW w \in Workers, tx'[w] = tx[w] \/ ~Saving(w)'
      PROVE  (Saving(w) /\ tx[w].seen # None => Saved(tx[w].seen))'
  <2>1. Saving(w) /\ tx[w].seen # None => tx[w].seen \in Ids
    BY DEF IInv, TypeOK, Tx
  <2> QED
    BY <1>1, <1>2, <2>1 DEF OneInv, FoundIsThere, Saving, Saved
<1>3. CASE UNCHANGED vars
  <2>1. FirstSaveAlone'
    BY <1>3 DEF vars, OneInv, FirstSaveAlone, FoundNone, Saving, NoProfile, Saved
  <2> QED
    BY <1>1, <1>2, <1>3, <2>1 DEF vars, OneInv, FoundIsThere
<1>4. CASE Next /\ FirstSaveAlone'
  <2>1. PICK w \in Workers : Request(w) \/ Proceed(w) \/ Abandon(w)
    BY <1>4 DEF Next
  <2>2. tx \in [Workers -> Tx]
    BY DEF IInv, TypeOK
  <2>3. ASSUME NEW rec, tx' = [tx EXCEPT ![w] = rec],
               rec.stage \in {"stamp", "save"} /\ rec.seen # None => rec.seen \in Ids /\ Saved(rec.seen)
        PROVE  FoundIsThere'
    <3>1. /\ tx'[w] = rec
          /\ \A u \in Workers \ {w} : tx'[u] = tx[u]
      BY <2>2, <2>3
    <3>2. (Saving(w) /\ tx[w].seen # None => Saved(tx[w].seen))'
      BY <1>1, <2>3, <3>1 DEF Saving, Saved
    <3> QED
      BY <1>2, <3>1, <3>2 DEF FoundIsThere
  <2>4. ASSUME NEW i \in Ids, BeginSave(w, i) PROVE FoundIsThere'
    <3> DEFINE rec == [Idle EXCEPT !.stage = "stamp", !.seen = i, !.target = i]
    <3>1. rec.seen = i /\ Saved(i) /\ tx' = [tx EXCEPT ![w] = rec]
      BY <2>4 DEF BeginSave, InForce, Start, Idle
    <3> HIDE DEF rec
    <3> QED
      BY <2>3, <3>1
  <2>5. ASSUME NEW i \in Ids, BeginFirstSave(w, i) PROVE FoundIsThere'
    <3> DEFINE rec == [Idle EXCEPT !.stage = "stamp", !.target = i]
    <3>1. rec.seen = None /\ tx' = [tx EXCEPT ![w] = rec]
      BY <2>5 DEF BeginFirstSave, Start, Idle
    <3> HIDE DEF rec
    <3> QED
      BY <2>3, <3>1
  <2>6. ASSUME NEW rec, Start(w, rec), rec.stage = "resume" PROVE FoundIsThere'
    BY <2>3, <2>6 DEF Start
  <2>7. ASSUME NEW i \in Ids, NEW r \in Resumes, NEW fields \in Creations,
               CreateResume(w, i, r, fields)
        PROVE  FoundIsThere'
    <3> DEFINE rec == [Idle EXCEPT !.stage = "resume", !.resume = r,
                           !.row = [profile |-> i, role |-> fields.role,
                                    skills |-> fields.skills, active |-> fields.active]]
    <3>1. Start(w, rec) /\ rec.stage = "resume"
      BY <2>7 DEF CreateResume, Idle
    <3> HIDE DEF rec
    <3> QED
      BY <2>6, <3>1
  <2>8. ASSUME NEW r \in Resumes, NEW patch \in Patches, UpdateResume(w, r, patch)
        PROVE  FoundIsThere'
    <3> DEFINE rec == [Idle EXCEPT !.stage = "resume", !.resume = r, !.read = resumes[r],
                           !.patch = patch, !.row = Patched(resumes[r], patch)]
    <3>1. Start(w, rec) /\ rec.stage = "resume"
      BY <2>8 DEF UpdateResume, Idle
    <3> HIDE DEF rec
    <3> QED
      BY <2>6, <3>1
  <2>9. ASSUME StampSave(w) PROVE FoundIsThere'
    <3> DEFINE rec == [tx[w] EXCEPT !.stage = "save", !.at = clock']
    <3>1. rec.seen = tx[w].seen /\ tx' = [tx EXCEPT ![w] = rec] /\ Saving(w)
      BY <2>2, <2>9 DEF StampSave, Tx, Saving
    <3>2. tx[w].seen # None => tx[w].seen \in Ids /\ Saved(tx[w].seen)
      BY <2>2, <3>1 DEF Tx, OneInv, FoundIsThere
    <3> HIDE DEF rec
    <3> QED
      BY <2>3, <3>1, <3>2
  <2>10. ASSUME UpsertCandidateProfile(w) \/ UpsertResume(w) \/ Abandon(w) PROVE FoundIsThere'
    BY <2>3, <2>10, IdleTyped DEF UpsertCandidateProfile, UpsertResume, Abandon
  <2>11. FoundIsThere'
    BY <2>1, <2>4, <2>5, <2>7, <2>8, <2>9, <2>10 DEF Request, Proceed
  <2> QED
    BY <1>1, <1>4, <2>11 DEF OneInv
<1> QED
  BY <1>3, <1>4

LEMMA OneInvHolds == OneOwnerSpec => [](IInv /\ OneInv)
<1>1. OneOwnerSpec => Spec
  <2>1. [Next /\ FirstSaveAlone']_vars => [Next]_vars
    OBVIOUS
  <2> QED
    BY <2>1, PTL DEF OneOwnerSpec, Spec
<1>2. Init => OneInv
  BY IdleTyped DEF Init, OneInv, FirstSaveAlone, FoundNone, Saving, OneProfile, FoundIsThere, Saved
<1>3. IInv /\ OneInv /\ [Next /\ FirstSaveAlone']_vars => OneInv'
  BY NextOneInv
<1> QED
  BY <1>1, <1>2, <1>3, InvariantHolds, PTL DEF OneOwnerSpec

\* Saves, however many overlap and in whatever order their times are, never
\* leave two profiles, as long as the one that found none was right.
THEOREM OwnerHasOneProfile == OneOwnerSpec => []OneProfile
BY OneInvHolds, PTL DEF OneInv

\* A resume once listed then stays listed, patched or not.
ListedForGood == [][\A r \in Resumes : Listed(r) => Listed(r)']_vars

THEOREM ListedStays == OneOwnerSpec => ListedForGood
<1>1. ASSUME IInv, OneInv, [Next]_vars, NEW r \in Resumes, Listed(r)
      PROVE  Listed(r)'
  <2>1. PICK owner \in Ids : owner = resumes[r].profile
    BY <1>1 DEF Listed, Exists, IInv, TypeOK, Row
  <2>2. Exists(r) /\ Saved(owner)
    BY <1>1, <2>1 DEF Listed, InForce
  <2>3. Saved(owner)' /\ OneProfile'
    BY <1>1, <2>2, SavedStays
  <2>4. updated' \in [Ids -> Nat]
    BY <1>1, NextInv DEF IInv, TypeOK
  <2>5. InForce(owner)'
    BY <2>3, <2>4 DEF InForce, OneProfile, Saved
  <2>6. Exists(r)' /\ resumes'[r].profile = owner
    <3>1. CASE resumes'[r] = resumes[r]
      BY <2>1, <2>2, <3>1 DEF Exists
    <3>2. CASE resumes'[r] # resumes[r]
      <4>1. PICK w \in Workers : UpsertResume(w)
        BY <1>1, <3>2, Writers DEF UpsertCandidateProfile
      <4> QED
        BY <1>1, <2>1, <2>2, <3>2, <4>1, ResumeWritten, ProfileNoneAssumption DEF Exists
    <3> QED
      BY <3>1, <3>2
  <2> QED
    BY <2>5, <2>6 DEF Listed
<1>2. IInv /\ OneInv /\ [Next /\ FirstSaveAlone']_vars =>
        [\A r \in Resumes : Listed(r) => Listed(r)']_vars
  BY <1>1
<1> QED
  BY <1>2, OneInvHolds, PTL DEF OneOwnerSpec, ListedForGood
=============================================================================
