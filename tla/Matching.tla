------------------------------ MODULE Matching ------------------------------
(***************************************************************************)
(* internal/core/filters.go and scoring.go, as the import of a posting     *)
(* uses them (internal/app/app.go): the hard filters reject, seven scores  *)
(* make a total, and both decide what the owner is offered.  Filters and   *)
(* scores read the same profile and the same posting in their own ways.    *)
(*                                                                         *)
(* Texts are the words they contain; places, currencies, companies and     *)
(* kinds of employment are equal or not.  The reasons are left out, and so *)
(* are the requirements of languages and of work permits, which every      *)
(* importer leaves empty.                                                  *)
(***************************************************************************)
EXTENDS Integers, FiniteSets

CONSTANTS
  Words,           \* roles and stop words, and what texts contain of them
  Canonical,       \* skillAliases: NormalizeSkill of a word
  Skills,          \* normalised
  Places,          \* normalised locations
  Currencies,
  Employments,
  Companies,
  Profiles,        \* profiles the owner saves
  Postings,        \* versions of the posting that imports meet
  Weights,         \* SCORING_*_WEIGHT
  ApplyThreshold,  \* SCORING_APPLY_THRESHOLD
  ReviewThreshold  \* SCORING_REVIEW_THRESHOLD

Parts == {"role", "skills", "experience", "grade", "location", "salary", "domain"}

GradeNames == {"junior", "middle", "senior", "lead"}

Blank == ""
Unnamed == -1  \* an end of the salary that the posting does not name

ProfileType ==
  [roles: SUBSET Words, stopWords: SUBSET Words, excludedCompanies: SUBSET Companies,
   grades: SUBSET GradeNames, years: Int,
   primary: SUBSET Skills, secondary: SUBSET Skills, excludedSkills: SUBSET Skills,
   locations: SUBSET (Places \cup {Blank}), remoteAllowed: BOOLEAN, relocationAllowed: BOOLEAN,
   minimum: Int, currencies: SUBSET Currencies,
   employments: SUBSET Employments,
   others: BOOLEAN]                \* names languages or a work permit

PostingType ==
  [title: SUBSET Words, text: SUBSET Words,   \* text: title, description and company
   company: Companies, blacklisted: BOOLEAN, old: BOOLEAN,
   grade: GradeNames \cup {Blank}, skills: SUBSET Skills,
   location: Places \cup {Blank}, remote: BOOLEAN,
   from: Nat \cup {Unnamed}, to: Nat \cup {Unnamed}, currency: Currencies \cup {Blank},
   employment: Employments \cup {Blank}]

ASSUME CanonicalAssumption == Canonical \in [Words -> Words]
ASSUME SkillsAssumption == IsFiniteSet(Skills)
ASSUME ProfilesAssumption == Profiles \subseteq ProfileType
ASSUME PostingsAssumption == Postings \subseteq PostingType
\* What Validate checks: the sum and the order.
ASSUME WeightsAssumption ==
  /\ Weights \in [Parts -> Int]
  /\ Weights["role"] + Weights["skills"] + Weights["experience"] + Weights["grade"]
       + Weights["location"] + Weights["salary"] + Weights["domain"] = 100
ASSUME ThresholdsAssumption ==
  /\ ApplyThreshold \in Int /\ ReviewThreshold \in Int
  /\ ApplyThreshold >= ReviewThreshold

VARIABLES
  profile,   \* the owner's profile
  posting,   \* the posting as imported last
  match,     \* its row of vacancy_matches, with the status the import computed
  scoredFor  \* history: the profile that import read

vars == <<profile, posting, match, scoredFor>>

-----------------------------------------------------------------------------
(* Hard filters.                                                           *)

CompanyAllowed(p, v) == ~v.blacklisted /\ v.company \notin p.excludedCompanies

RoleAllowed(p, v) == p.roles = {} \/ p.roles \cap v.title # {}

RemoteAllowed(p, v) == v.remote => p.remoteAllowed

LocationAllowed(p, v) ==
  p.locations = {} \/ p.relocationAllowed \/ v.location \in p.locations \cup {Blank}

\* Fault: the lower end is compared.
SalaryAllowedFrom(p, v) == (p.minimum > 0 /\ v.from # Unnamed) => v.from >= p.minimum

\* Whatever the currency.
SalaryAllowed(p, v) == (p.minimum > 0 /\ v.to # Unnamed) => v.to >= p.minimum

ApplyHardFilters(p, v) ==
  /\ CompanyAllowed(p, v)
  /\ RoleAllowed(p, v)
  /\ RemoteAllowed(p, v)
  /\ LocationAllowed(p, v)
  /\ SalaryAllowed(p, v)
  /\ p.stopWords \cap v.text = {}
  /\ ~v.old

-----------------------------------------------------------------------------
(* Scores.                                                                 *)

\* math.Round of n / d, halves away from zero, for d > 0.
Round(n, d) ==
  IF n >= 0 THEN (2 * n + d) \div (2 * d) ELSE -((d - 2 * n) \div (2 * d))

scoreRole(p, v) ==
  IF p.roles = {} \/ {Canonical[w] : w \in p.roles} \cap v.title # {} THEN 100 ELSE 0

\* A primary skill weighs two, a secondary one, a skill that is both three.
SkillWeight(p, S) ==
  2 * Cardinality((p.primary \ p.excludedSkills) \cap S)
    + Cardinality((p.secondary \ p.excludedSkills) \cap S)

\* Fault: excluded skills are left out of the total only.
scoreSkillsUnwanted(p, v) ==
  LET total == SkillWeight(p, Skills)
      matched == 2 * Cardinality(p.primary \cap v.skills) + Cardinality(p.secondary \cap v.skills)
  IN  IF total = 0 THEN 100 ELSE Round(100 * matched, total)

\* Fault: the share of the posting's skills, not of the profile's.
scoreSkillsOfPosting(p, v) ==
  IF v.skills = {} \/ SkillWeight(p, Skills) = 0 THEN 100
  ELSE Round(100 * Cardinality((p.primary \cup p.secondary) \cap v.skills), Cardinality(v.skills))

\* The share of the profile's skills that the posting asks for.
scoreSkills(p, v) ==
  LET total == SkillWeight(p, Skills)
  IN  IF total = 0 THEN 100 ELSE Round(100 * SkillWeight(p, v.skills), total)

experienceRank(years) ==
  IF years <= 1 THEN 1 ELSE IF years <= 4 THEN 2 ELSE IF years <= 7 THEN 3 ELSE 4

gradeRank(grade) ==
  IF grade \in GradeNames THEN [junior |-> 1, middle |-> 2, senior |-> 3, lead |-> 4][grade] ELSE 0

scoreExperience(p, v) ==
  LET required == gradeRank(v.grade)
      candidate == experienceRank(p.years)
  IN  IF required = 0 THEN 70
      ELSE IF candidate >= required THEN 100
      ELSE IF candidate + 1 = required THEN 60 ELSE 0

scoreGrade(p, v) == IF p.grades = {} \/ v.grade \in p.grades THEN 100 ELSE 30

\* A blank place in the profile is contained in every place.
scoreLocation(p, v) ==
  IF v.remote /\ p.remoteAllowed THEN 100
  ELSE IF p.locations = {} THEN IF v.remote THEN 0 ELSE 80
  ELSE IF v.location # Blank /\ p.locations \cap {v.location, Blank} # {} THEN 100
  ELSE IF p.relocationAllowed THEN 60 ELSE 0

ForeignCurrency(p, v) ==
  v.currency # Blank /\ p.currencies # {} /\ v.currency \notin p.currencies

scoreSalary(p, v) ==
  IF p.minimum <= 0 THEN 100
  ELSE IF v.from = Unnamed /\ v.to = Unnamed THEN 50
  ELSE IF ForeignCurrency(p, v) THEN 20
  ELSE IF v.from # Unnamed /\ v.from >= p.minimum THEN 100
  ELSE IF v.to # Unnamed /\ v.to < p.minimum THEN 0
  ELSE IF v.from # Unnamed /\ v.to # Unnamed THEN 70 ELSE 40

scoreDomain(p, v) ==
  IF p.employments = {} /\ ~p.others THEN 100
  ELSE IF v.blacklisted THEN 0
  ELSE IF p.employments = {} \/ v.employment \in p.employments THEN 100 ELSE 70

Scores(p, v) ==
  [role |-> scoreRole(p, v), skills |-> scoreSkills(p, v),
   experience |-> scoreExperience(p, v), grade |-> scoreGrade(p, v),
   location |-> scoreLocation(p, v), salary |-> scoreSalary(p, v),
   domain |-> scoreDomain(p, v)]

weightedAverage(s) ==
  Round(s.role * Weights["role"] + s.skills * Weights["skills"]
          + s.experience * Weights["experience"] + s.grade * Weights["grade"]
          + s.location * Weights["location"] + s.salary * Weights["salary"]
          + s.domain * Weights["domain"], 100)

\* Fault: the comparison with the lower threshold is left out.
RecommendationApplyOnly(passed, total) == IF passed /\ total >= ApplyThreshold THEN "APPLY" ELSE "SKIP"

Recommendation(passed, total) ==
  IF ~passed THEN "SKIP"
  ELSE IF total >= ApplyThreshold THEN "APPLY"
  ELSE IF total >= ReviewThreshold THEN "REVIEW" ELSE "SKIP"

\* The status of a posting that is no duplicate and had none worth keeping.
Status(passed, recommendation) ==
  IF ~passed THEN "FILTERED_OUT"
  ELSE IF recommendation \in {"APPLY", "REVIEW"} THEN "RECOMMENDED" ELSE "NORMALIZED"

ScoreVacancy(p, v) ==
  LET passed == ApplyHardFilters(p, v)
      scores == Scores(p, v)
      total == weightedAverage(scores)
  IN  [passed |-> passed, scores |-> scores, total |-> total,
       status |-> Status(passed, Recommendation(passed, total))]

-----------------------------------------------------------------------------

Init ==
  /\ profile \in Profiles
  /\ posting \in Postings
  /\ match = ScoreVacancy(profile, posting)
  /\ scoredFor = profile

\* No match is computed anew.  Bound: one save between two imports.
SaveProfile(p) ==
  /\ scoredFor = profile
  /\ profile' = p
  /\ UNCHANGED <<posting, match, scoredFor>>

\* A search meets the posting again, changed or not.
Import(v) ==
  /\ posting' = v
  /\ match' = ScoreVacancy(profile, v)
  /\ scoredFor' = profile
  /\ UNCHANGED profile

Next ==
  \/ \E p \in Profiles : SaveProfile(p)
  \/ \E v \in Postings : Import(v)

Spec == Init /\ [][Next]_vars

\* ListRecommendedVacancies.
Listed ==
  /\ match.passed
  /\ match.total >= ReviewThreshold
  /\ match.status = "RECOMMENDED"

-----------------------------------------------------------------------------
(* What must hold.                                                         *)

Score == 0 .. 100

\* Validate does not ask for it.
NonNegativeWeights == \A part \in Parts : Weights[part] >= 0

TypeOK ==
  /\ profile \in ProfileType
  /\ posting \in PostingType
  /\ scoredFor \in ProfileType
  /\ match \in [passed: BOOLEAN,
                scores: [role: Score, skills: Score, experience: Score, grade: Score,
                         location: Score, salary: Score, domain: Score],
                total: Int,
                status: {"FILTERED_OUT", "RECOMMENDED", "NORMALIZED"}]
  /\ NonNegativeWeights => match.total \in Score

\* Filters and scores are written twice over the same criteria.  What passes
\* the filters has no score that says the opposite: the role fits (unless the
\* profile names it by an alias, which the filter takes as it is and the score
\* replaces), the place fits (or the posting names none), the salary is not
\* below the minimum and the company is not blacklisted.
FiltersAgreeWithScores ==
  match.passed =>
    /\ (\A w \in scoredFor.roles : Canonical[w] = w) => match.scores.role = 100
    /\ posting.location # Blank => match.scores.location >= 60
    /\ match.scores.salary > 0
    /\ match.scores.domain >= 70

\* The owner is offered exactly what passes the filters with the score for a
\* review: the status an import computes and the condition of the listing,
\* which is written in SQL over other columns, select the same postings.
OfferedIsListed ==
  /\ (match.status = "RECOMMENDED") <=> (match.passed /\ match.total >= ReviewThreshold)
  /\ (match.status = "RECOMMENDED") <=> Listed

\* What a restriction allows, another one allows too; an empty one allows all.
Wider(S, T) == T = {} \/ (S # {} /\ S \subseteq T)

\* q asks for no more than p.  To name no place at all is not easier: it scores
\* 80 where a place that fits scores 100.
Easier(p, q) ==
  /\ \A f \in {"primary", "secondary", "excludedSkills", "others"} : q[f] = p[f]
  /\ Wider(p.roles, q.roles) /\ Wider(p.grades, q.grades)
  /\ Wider(p.currencies, q.currencies) /\ Wider(p.employments, q.employments)
  /\ p.locations \subseteq q.locations /\ (p.locations = {} => q.locations = {})
  /\ q.stopWords \subseteq p.stopWords /\ q.excludedCompanies \subseteq p.excludedCompanies
  /\ p.remoteAllowed => q.remoteAllowed
  /\ p.relocationAllowed => q.relocationAllowed
  /\ q.minimum <= p.minimum
  /\ p.years <= q.years

\* w offers no less than v.  To name a salary at all is not better: an upper
\* end over the minimum scores 40 where no salary scores 50.
Better(v, w) ==
  /\ \A f \in {"company", "grade", "location", "remote", "currency", "employment"} : w[f] = v[f]
  /\ v.title \subseteq w.title /\ w.text \subseteq v.text /\ v.skills \subseteq w.skills
  /\ w.blacklisted => v.blacklisted
  /\ w.old => v.old
  /\ v.from <= w.from /\ (v.from = Unnamed => w.from = Unnamed)
  /\ v.to <= w.to /\ (v.to = Unnamed => w.to = Unnamed)

\* A posting that passed is not lost, and scores no less (if no weight is
\* negative), when it becomes better or the owner asks for less: no filter or
\* score works against another.
BetterFitIsKept ==
  [][/\ match.passed
     /\ Easier(scoredFor, scoredFor')
     /\ Better(posting, posting')
     => /\ match'.passed
        /\ NonNegativeWeights => match'.total >= match.total]_vars
=============================================================================
