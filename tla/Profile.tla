------------------------------ MODULE Profile ------------------------------
(***************************************************************************)
(* The owner's profile and resumes: SaveProfile (internal/app/app.go),     *)
(* CreateResume and UpdateResume (internal/app/resumes.go), each a read    *)
(* and a later write with no transaction around them, and the choice of a  *)
(* resume for a vacancy (internal/core/resume.go), which PrepareApplication *)
(* makes from the rows it lists.                                           *)
(*                                                                         *)
(* The program is for one owner, but candidate_profiles may have several   *)
(* rows: the profile in force is the one updated last.  What a profile     *)
(* says is left out: the module is about which row it is, because resumes  *)
(* and applications belong to a row.  Of a resume's fields, name, language *)
(* and text are left out, which are patched like the role.                 *)
(***************************************************************************)
EXTENDS Naturals, FiniteSets

CONSTANTS
  Workers,    \* requests that can be in flight together
  Ids,        \* ids of profiles
  Resumes,    \* ids of resumes, in their order as strings
  CreatedAt,  \* when each of them is created, if it is
  Skills,
  Vacancies,
  Creations,  \* resumes that are posted
  Patches,    \* changes that are posted; None for a field left alone
  MaxClock,   \* bound: times of updates of a profile
  None

Roles == {"GO_BACKEND", "PYTHON_BACKEND", "SYSTEM_ANALYST", "GENERAL_BACKEND"}

Fields == [role: Roles, skills: SUBSET Skills, active: BOOLEAN]

Patch == [role: {None} \cup Roles, skills: {None} \cup SUBSET Skills,
          active: {None} \cup BOOLEAN]

Row == [profile: Ids, role: Roles, skills: SUBSET Skills, active: BOOLEAN]

AnalystWords == {"system analyst", "systems analyst", "sistemnyj analitik",
                 "business analyst", "business system analyst"}
PythonWords == {"python", "django", "flask", "fastapi", "pandas", "sqlalchemy"}
GoWords == {"go", "golang", "grpc", "microservice", "microservices"}

\* What a vacancy's texts, and the positive reasons of its match if it has one,
\* contain of these, inside of longer words too; and the skills it names.
Vacancy == [text: SUBSET (AnalystWords \cup PythonWords \cup GoWords),
            skills: SUBSET Skills]

ASSUME ResumesAssumption == Resumes \subseteq Nat /\ CreatedAt \in [Resumes -> Nat]
ASSUME RequestsAssumption ==
  Creations \subseteq Fields /\ Patches \subseteq Patch /\ Vacancies \subseteq Vacancy
ASSUME ProfileNoneAssumption ==
  /\ None \notin Ids /\ None \notin Resumes
  /\ None \notin Roles /\ None \notin BOOLEAN
  /\ \A s \in SUBSET Skills : s # None
  /\ \A row \in Row : row # None
ASSUME SkillsAssumption == IsFiniteSet(Skills)
ASSUME ClockAssumption == MaxClock \in Nat

VARIABLES
  updated,  \* when each profile was updated; 0 for a row that is not there
  resumes,  \* the row of each resume, or None
  clock,    \* the last time that was asked for
  tx        \* what each worker is doing

vars == <<updated, resumes, clock, tx>>

(***************************************************************************)
(* Stages, named after what comes next:                                    *)
(*   stamp   the time of a save, asked for before its statement is sent    *)
(*   save    UpsertCandidateProfile                                        *)
(*   resume  UpsertResume, of a new resume or a patched one                *)
(***************************************************************************)
Stages == {"idle", "stamp", "save", "resume"}

Tx == [stage: Stages,
       seen: {None} \cup Ids,        \* the profile a save found
       target: {None} \cup Ids,      \* the profile it writes
       at: Nat,                      \* its time
       resume: {None} \cup Resumes,
       read: {None} \cup Row,        \* the resume as a patch found it
       patch: {None} \cup Patch,
       row: {None} \cup Row]         \* the resume to write

Idle == [stage |-> "idle", seen |-> None, target |-> None, at |-> 0,
         resume |-> None, read |-> None, patch |-> None, row |-> None]

TypeOK ==
  /\ updated \in [Ids -> Nat]
  /\ resumes \in [Resumes -> {None} \cup Row]
  /\ clock \in Nat
  /\ tx \in [Workers -> Tx]

Init ==
  /\ updated = [i \in Ids |-> 0]
  /\ resumes = [r \in Resumes |-> None]
  /\ clock = 0
  /\ tx = [w \in Workers |-> Idle]

-----------------------------------------------------------------------------
(* Rows.                                                                   *)

Saved(i) == updated[i] > 0

\* GetCandidateProfile: ORDER BY updated_at DESC LIMIT 1.
InForce(i) == Saved(i) /\ \A j \in Ids : updated[j] <= updated[i]

NoProfile == \A i \in Ids : ~Saved(i)

Exists(r) == resumes[r] # None

\* ListResumes: the resumes of the profile in force.
Listed(r) == Exists(r) /\ InForce(resumes[r].profile)

-----------------------------------------------------------------------------
(* The choice of a resume.                                                 *)

inferResumeTargetRole(v) ==
  IF v.text \cap AnalystWords # {} THEN "SYSTEM_ANALYST"
  ELSE IF v.text \cap PythonWords # {} THEN "PYTHON_BACKEND"
  ELSE IF v.text \cap GoWords # {} THEN "GO_BACKEND"
  ELSE "GENERAL_BACKEND"

filterResumesByRole(role) ==
  {r \in Resumes : Listed(r) /\ resumes[r].active /\ resumes[r].role = role}

\* Fault: a role of which there is only an inactive resume has no fallback.
CandidatesOfKnownRole(v) ==
  LET role == inferResumeTargetRole(v) IN
    IF \E r \in Resumes : Listed(r) /\ resumes[r].role = role
    THEN filterResumesByRole(role)
    ELSE filterResumesByRole("GENERAL_BACKEND")

Candidates(v) ==
  LET role == inferResumeTargetRole(v) IN
    IF filterResumesByRole(role) # {}
    THEN filterResumesByRole(role)
    ELSE filterResumesByRole("GENERAL_BACKEND")

overlapCount(r, v) == Cardinality(resumes[r].skills \cap v.skills)

\* The order of the sort: more skills in common, then older, then by id.
Better(r, q, v) ==
  \/ overlapCount(r, v) > overlapCount(q, v)
  \/ /\ overlapCount(r, v) = overlapCount(q, v)
     /\ \/ CreatedAt[r] < CreatedAt[q]
        \/ CreatedAt[r] = CreatedAt[q] /\ r < q

\* Select without a manual id; none is chosen when there are no candidates.
Select(v) ==
  {r \in Candidates(v) : \A q \in Candidates(v) \ {r} : Better(r, q, v)}

-----------------------------------------------------------------------------
(* The requests.                                                           *)

Start(w, rec) ==
  /\ tx[w].stage = "idle"
  /\ tx' = [tx EXCEPT ![w] = rec]
  /\ UNCHANGED <<updated, resumes, clock>>

\* Fault: the id in the request counts, whatever profile there is.
BeginSaveOfRequest(w, i) ==
  \E j \in Ids :
    /\ InForce(j)
    /\ Start(w, [Idle EXCEPT !.stage = "stamp", !.seen = j, !.target = i])

\* SaveProfile writes the profile it finds.  The id in the request, given by
\* the client or drawn, counts when there is none.
BeginSave(w, i) ==
  /\ InForce(i)
  /\ Start(w, [Idle EXCEPT !.stage = "stamp", !.seen = i, !.target = i])

\* There is no profile yet, or the query fails, which is taken for the same.
BeginFirstSave(w, i) ==
  Start(w, [Idle EXCEPT !.stage = "stamp", !.target = i])

StampSave(w) ==
  /\ tx[w].stage = "stamp"
  /\ clock < MaxClock
  /\ clock' = clock + 1
  /\ tx' = [tx EXCEPT ![w].stage = "save", ![w].at = clock']
  /\ UNCHANGED <<updated, resumes>>

UpsertCandidateProfile(w) ==
  /\ tx[w].stage = "save"
  /\ updated' = [updated EXCEPT ![tx[w].target] = tx[w].at]
  /\ tx' = [tx EXCEPT ![w] = Idle]
  /\ UNCHANGED <<resumes, clock>>

\* The id of a new resume is drawn at random: nobody else has it.
Fresh(r) == ~Exists(r) /\ \A u \in Workers : tx[u].resume # r

\* Fault: a profile that is not there is an empty one.
CreateResumeOfNobody(w, i, r, fields) ==
  /\ InForce(i) \/ NoProfile
  /\ Fresh(r)
  /\ Start(w, [Idle EXCEPT !.stage = "resume", !.resume = r,
                           !.row = [profile |-> IF NoProfile THEN None ELSE i,
                                    role |-> fields.role, skills |-> fields.skills,
                                    active |-> fields.active]])

CreateResume(w, i, r, fields) ==
  /\ InForce(i) /\ Fresh(r)
  /\ Start(w, [Idle EXCEPT !.stage = "resume", !.resume = r,
                           !.row = [profile |-> i, role |-> fields.role,
                                    skills |-> fields.skills, active |-> fields.active]])

\* Fault: a patch that does not say whether the resume is active activates it,
\* as a new resume is.
PatchedAsNew(row, patch) ==
  [row EXCEPT !.role = IF patch.role = None THEN @ ELSE patch.role,
              !.skills = IF patch.skills = None THEN @ ELSE patch.skills,
              !.active = IF patch.active = None THEN TRUE ELSE patch.active]

Patched(row, patch) ==
  [row EXCEPT !.role = IF patch.role = None THEN @ ELSE patch.role,
              !.skills = IF patch.skills = None THEN @ ELSE patch.skills,
              !.active = IF patch.active = None THEN @ ELSE patch.active]

\* UpdateResume finds a resume by its id, whichever profile it belongs to.
UpdateResume(w, r, patch) ==
  /\ Exists(r)
  /\ Start(w, [Idle EXCEPT !.stage = "resume", !.resume = r, !.read = resumes[r],
                           !.patch = patch, !.row = Patched(resumes[r], patch)])

UpsertResume(w) ==
  /\ tx[w].stage = "resume"
  /\ resumes' = [resumes EXCEPT ![tx[w].resume] = tx[w].row]
  /\ tx' = [tx EXCEPT ![w] = Idle]
  /\ UNCHANGED <<updated, clock>>

\* A statement fails, the caller goes away or the process ends.
Abandon(w) ==
  /\ tx[w].stage # "idle"
  /\ tx' = [tx EXCEPT ![w] = Idle]
  /\ UNCHANGED <<updated, resumes, clock>>

Request(w) ==
  \/ \E i \in Ids : BeginSave(w, i) \/ BeginFirstSave(w, i)
  \/ \E i \in Ids, r \in Resumes, fields \in Creations : CreateResume(w, i, r, fields)
  \/ \E r \in Resumes, patch \in Patches : UpdateResume(w, r, patch)

Proceed(w) == StampSave(w) \/ UpsertCandidateProfile(w) \/ UpsertResume(w)

Next == \E w \in Workers : Request(w) \/ Proceed(w) \/ Abandon(w)

Spec == Init /\ [][Next]_vars

-----------------------------------------------------------------------------
(* What must hold.                                                         *)

\* A save that was not told of the profile in force, or that waited while
\* another asked for a later time and wrote it.
Overlapped(w) ==
  \E i \in Ids : InForce(i) /\ (tx[w].seen # i \/ tx[w].at < updated[i])

\* Resumes of the profile in force stay with it: what takes one off the owner's
\* list is a save whose query of the profile failed, or that another save
\* overlapped.  A save by itself never starts a second profile.
ResumesStayListed ==
  [][\A r \in Resumes :
       Listed(r) /\ ~Listed(r)' =>
         \E w \in Workers : tx[w].stage = "save" /\ tx'[w] = Idle /\ Overlapped(w)]_vars

\* A patch changes the fields it names.  Another field changes with it only when
\* that one was patched between its read and its write.
PatchedFieldsStay ==
  [][\A r \in Resumes, f \in {"role", "skills", "active"} :
       Exists(r) /\ resumes'[r][f] # resumes[r][f] =>
         \E w \in Workers :
           /\ tx[w].resume = r /\ tx'[w] = Idle
           /\ tx[w].patch[f] # None \/ tx[w].read[f] # resumes[r][f]]_vars

\* The resume chosen for a vacancy is another one only after a change of the
\* chosen resume, of the one that takes its place, or of the profile in force:
\* resumes that are not chosen come and go without a trace, those that the
\* fallback to GENERAL_BACKEND passes over included.
ChoiceFollowsChange ==
  [][\A v \in Vacancies, r \in Resumes :
       r \in Select(v) /\ ~(r \in Select(v))' =>
         \/ resumes'[r] # resumes[r]
         \/ \E q \in Resumes : (q \in Select(v))' /\ resumes'[q] # resumes[q]
         \/ \E i \in Ids : InForce(i) # InForce(i)']_vars
=============================================================================
