--------------------------- MODULE MatchingProofs ---------------------------
(***************************************************************************)
(* Proofs about Matching, for all skills, words and places, all profiles,  *)
(* all postings and all weights that Validate accepts.                     *)
(***************************************************************************)
EXTENDS Matching, FiniteSetTheorems, TLAPS

\* What the quotient is.
LEMMA Quotient ==
  ASSUME NEW a \in Nat, NEW b \in Nat \ {0}
  PROVE  /\ a \div b \in Nat
         /\ b * (a \div b) <= a
         /\ a < b * ((a \div b) + 1)
  OBVIOUS

LEMMA Products ==
  ASSUME NEW a \in Int, NEW b \in Int, NEW c \in Nat, a <= b
  PROVE  c * a <= c * b
  OBVIOUS

LEMMA RoundIsMonotone ==
  ASSUME NEW n \in Nat, NEW m \in Nat, NEW d \in Nat \ {0}, n <= m
  PROVE  /\ Round(n, d) \in Nat /\ Round(m, d) \in Nat
         /\ Round(n, d) <= Round(m, d)
<1> DEFINE q == (2 * n + d) \div (2 * d)
<1> DEFINE r == (2 * m + d) \div (2 * d)
<1>0. Round(n, d) = q /\ Round(m, d) = r
  BY DEF Round
<1>1. 2 * n + d \in Nat /\ 2 * m + d \in Nat /\ 2 * d \in Nat \ {0} /\ 2 * n + d <= 2 * m + d
  OBVIOUS
<1>2. /\ q \in Nat /\ (2 * d) * q <= 2 * n + d
      /\ r \in Nat /\ 2 * m + d < (2 * d) * (r + 1)
  BY <1>1, Quotient
<1>3. (2 * d) * q \in Nat /\ (2 * d) * (r + 1) \in Nat
  BY <1>2
<1>4. (2 * d) * q < (2 * d) * (r + 1)
  BY <1>1, <1>2, <1>3
<1> HIDE DEF q, r
<1>5. ~(r + 1 <= q)
  BY <1>1, <1>2, <1>3, <1>4, Products
<1>6. q <= r
  BY <1>2, <1>5
<1> QED
  BY <1>0, <1>2, <1>6

\* Whatever is rounded becomes an integer.
LEMMA RoundIsInteger ==
  ASSUME NEW n \in Int, NEW d \in Nat \ {0}
  PROVE  Round(n, d) \in Int
<1>1. 2 * d \in Nat \ {0}
  OBVIOUS
<1>2. CASE n >= 0
  <2>1. 2 * n + d \in Nat
    BY <1>2
  <2>2. (2 * n + d) \div (2 * d) \in Nat
    BY <1>1, <2>1, Quotient
  <2> QED
    BY <1>2, <2>2 DEF Round
<1>3. CASE ~(n >= 0)
  <2>1. d - 2 * n \in Nat
    BY <1>3
  <2>2. (d - 2 * n) \div (2 * d) \in Nat
    BY <1>1, <2>1, Quotient
  <2> QED
    BY <1>3, <2>2 DEF Round
<1> QED
  BY <1>2, <1>3

LEMMA RoundIsBounded ==
  ASSUME NEW n \in Nat, NEW d \in Nat \ {0}, n <= 100 * d
  PROVE  Round(n, d) \in Score
<1>1. 100 * d \in Nat /\ Round(n, d) \in Nat /\ Round(n, d) <= Round(100 * d, d)
  BY RoundIsMonotone
<1>2. Round(100 * d, d) = 100
  <2> DEFINE q == (2 * (100 * d) + d) \div (2 * d)
  <2>1. 2 * (100 * d) + d = 201 * d /\ 201 * d \in Nat /\ 2 * d \in Nat \ {0}
    OBVIOUS
  <2>2. q \in Nat /\ (2 * d) * q <= 201 * d /\ 201 * d < (2 * d) * (q + 1)
    BY <2>1, Quotient
  <2> HIDE DEF q
  <2>3. ~(101 <= q)
    <3>1. ASSUME 101 <= q PROVE (2 * d) * 101 <= (2 * d) * q
      BY <2>1, <2>2, <3>1, Products
    <3> QED
      BY <2>1, <2>2, <3>1
  <2>4. ~(q <= 99)
    <3>1. ASSUME q <= 99 PROVE (2 * d) * (q + 1) <= (2 * d) * 100
      BY <2>1, <2>2, <3>1, Products
    <3> QED
      BY <2>1, <2>2, <3>1
  <2>5. q = 100
    BY <2>2, <2>3, <2>4
  <2> QED
    BY <2>5 DEF Round, q
<1> QED
  BY <1>1, <1>2 DEF Score

-----------------------------------------------------------------------------

\* A skill the profile wants weighs the more, the more of them there are.
LEMMA SkillWeights ==
  ASSUME NEW p \in ProfileType, NEW S \in SUBSET Skills, NEW T \in SUBSET Skills, S \subseteq T
  PROVE  /\ SkillWeight(p, S) \in Nat /\ SkillWeight(p, T) \in Nat
         /\ SkillWeight(p, S) <= SkillWeight(p, T)
<1>1. ASSUME NEW A \in SUBSET Skills
      PROVE  /\ Cardinality(A \cap S) \in Nat /\ Cardinality(A \cap T) \in Nat
             /\ Cardinality(A \cap S) <= Cardinality(A \cap T)
  <2>1. IsFiniteSet(A \cap T) /\ IsFiniteSet(A \cap S) /\ A \cap S \subseteq A \cap T
    BY SkillsAssumption, FS_Subset
  <2> QED
    BY <2>1, FS_Subset, FS_CardinalityType
<1> DEFINE A == p.primary \ p.excludedSkills
           B == p.secondary \ p.excludedSkills
<1>2. A \in SUBSET Skills /\ B \in SUBSET Skills
  BY DEF ProfileType
<1>3. \A U : SkillWeight(p, U) = 2 * Cardinality(A \cap U) + Cardinality(B \cap U)
  BY DEF SkillWeight
<1> HIDE DEF A, B
<1>4. /\ Cardinality(A \cap S) \in Nat /\ Cardinality(A \cap T) \in Nat
      /\ Cardinality(A \cap S) <= Cardinality(A \cap T)
      /\ Cardinality(B \cap S) \in Nat /\ Cardinality(B \cap T) \in Nat
      /\ Cardinality(B \cap S) <= Cardinality(B \cap T)
  BY <1>1, <1>2
<1>5. /\ SkillWeight(p, S) = 2 * Cardinality(A \cap S) + Cardinality(B \cap S)
      /\ SkillWeight(p, T) = 2 * Cardinality(A \cap T) + Cardinality(B \cap T)
  BY <1>3
<1> QED
  BY <1>4, <1>5

LEMMA SkillsScore ==
  ASSUME NEW p \in ProfileType, NEW v \in PostingType, NEW w \in PostingType,
         v.skills \subseteq w.skills
  PROVE  /\ scoreSkills(p, v) \in Score
         /\ scoreSkills(p, v) <= scoreSkills(p, w)
<1> DEFINE total == SkillWeight(p, Skills)
           a == SkillWeight(p, v.skills)
           b == SkillWeight(p, w.skills)
<1>1. /\ total \in Nat /\ a \in Nat /\ b \in Nat
      /\ a <= b /\ b <= total /\ a <= total
  BY SkillWeights DEF PostingType
<1>2. /\ scoreSkills(p, v) = IF total = 0 THEN 100 ELSE Round(100 * a, total)
      /\ scoreSkills(p, w) = IF total = 0 THEN 100 ELSE Round(100 * b, total)
  BY DEF scoreSkills
<1> HIDE DEF total, a, b
<1>3. CASE total = 0
  BY <1>2, <1>3 DEF Score
<1>4. CASE total # 0
  <2>1. /\ 100 * a \in Nat /\ 100 * b \in Nat /\ 100 * a <= 100 * b
        /\ 100 * a <= 100 * total /\ total \in Nat \ {0}
    BY <1>1, <1>4
  <2> QED
    BY <1>2, <1>4, <2>1, RoundIsMonotone, RoundIsBounded
<1> QED
  BY <1>3, <1>4

LEMMA OtherScores ==
  ASSUME NEW p \in ProfileType, NEW v \in PostingType
  PROVE  /\ scoreRole(p, v) \in {0, 100}
         /\ scoreExperience(p, v) \in {0, 60, 70, 100}
         /\ scoreGrade(p, v) \in {30, 100}
         /\ scoreLocation(p, v) \in {0, 60, 80, 100}
         /\ scoreSalary(p, v) \in {0, 20, 40, 50, 70, 100}
         /\ scoreDomain(p, v) \in {0, 70, 100}
BY DEF scoreRole, scoreExperience, scoreGrade, scoreLocation, scoreSalary, scoreDomain

ScoresType ==
  [role: Score, skills: Score, experience: Score, grade: Score,
   location: Score, salary: Score, domain: Score]

LEMMA ScoresTyped ==
  ASSUME NEW p \in ProfileType, NEW v \in PostingType
  PROVE  Scores(p, v) \in ScoresType
<1>1. scoreSkills(p, v) \in Score
  BY SkillsScore
<1> QED
  BY <1>1, OtherScores DEF Scores, ScoresType, Score

Sum(s) ==
  s.role * Weights["role"] + s.skills * Weights["skills"]
    + s.experience * Weights["experience"] + s.grade * Weights["grade"]
    + s.location * Weights["location"] + s.salary * Weights["salary"]
    + s.domain * Weights["domain"]

LEMMA WeightedPart ==
  ASSUME NonNegativeWeights,
         NEW part \in Parts, NEW a \in Score, NEW b \in Score, a <= b
  PROVE  /\ Weights[part] \in Nat
         /\ a * Weights[part] \in Nat /\ b * Weights[part] \in Nat
         /\ a * Weights[part] <= b * Weights[part]
         /\ b * Weights[part] <= 100 * Weights[part]
<1>1. Weights[part] \in Nat
  BY WeightsAssumption DEF NonNegativeWeights
<1>2. Weights[part] * a <= Weights[part] * b /\ Weights[part] * b <= Weights[part] * 100
  BY <1>1, Products DEF Score
<1> QED
  BY <1>1, <1>2 DEF Score

\* The total is an integer, whatever the weights.
LEMMA TotalIsInteger ==
  ASSUME NEW s \in ScoresType
  PROVE  weightedAverage(s) \in Int
<1>1. ASSUME NEW part \in Parts PROVE s[part] * Weights[part] \in Int
  <2>1. s[part] \in Int /\ Weights[part] \in Int
    BY WeightsAssumption DEF Parts, ScoresType, Score
  <2> QED
    BY <2>1
<1>2. Sum(s) \in Int
  <2> DEFINE a(part) == s[part] * Weights[part]
  <2>1. Sum(s) = a("role") + a("skills") + a("experience") + a("grade")
                   + a("location") + a("salary") + a("domain")
    BY DEF Sum
  <2>2. \A part \in Parts : a(part) \in Int
    BY <1>1
  <2> HIDE DEF a
  <2> QED
    BY <2>1, <2>2 DEF Parts
<1> QED
  BY <1>2, RoundIsInteger DEF weightedAverage, Sum

\* No part works against another: the total grows with each.
LEMMA TotalIsMonotone ==
  ASSUME NonNegativeWeights,
         NEW s \in ScoresType, NEW t \in ScoresType, \A part \in Parts : s[part] <= t[part]
  PROVE  /\ weightedAverage(s) \in Score /\ weightedAverage(t) \in Score
         /\ weightedAverage(s) <= weightedAverage(t)
<1> DEFINE a(part) == s[part] * Weights[part]
           b(part) == t[part] * Weights[part]
<1>1. ASSUME NEW part \in Parts
      PROVE  /\ a(part) \in Nat /\ b(part) \in Nat /\ Weights[part] \in Nat
             /\ a(part) <= b(part) /\ b(part) <= 100 * Weights[part]
  <2>1. s[part] \in Score /\ t[part] \in Score
    BY DEF Parts, ScoresType
  <2> QED
    BY <2>1, WeightedPart
<1>2. /\ Sum(s) = a("role") + a("skills") + a("experience") + a("grade")
                   + a("location") + a("salary") + a("domain")
      /\ Sum(t) = b("role") + b("skills") + b("experience") + b("grade")
                   + b("location") + b("salary") + b("domain")
  BY DEF Sum
<1> HIDE DEF a, b
<1>3. Sum(s) \in Nat /\ Sum(t) \in Nat /\ Sum(s) <= Sum(t) /\ Sum(t) <= 100 * 100
  BY <1>1, <1>2, WeightsAssumption DEF Parts
<1> QED
  BY <1>3, RoundIsMonotone, RoundIsBounded DEF weightedAverage, Sum

-----------------------------------------------------------------------------

\* What the properties rest on: the match is the one of the profile it was
\* computed from.
Computed ==
  /\ profile \in Profiles
  /\ scoredFor \in Profiles
  /\ posting \in Postings
  /\ match = ScoreVacancy(scoredFor, posting)

\* Nothing but an import writes a match, and it writes this one.
LEMMA InvariantHolds == Spec => []Computed
<1>1. Init => Computed
  BY DEF Init, Computed
<1>2. Computed /\ [Next]_vars => Computed'
  BY DEF Computed, Next, SaveProfile, Import, vars
<1> QED
  BY <1>1, <1>2, PTL DEF Spec

\* Every score is one of 0 .. 100, and so is the total if no weight is negative,
\* whatever the profile and the posting (scoring.go).
THEOREM TypeCorrect == Spec => []TypeOK
<1>1. ASSUME Computed PROVE TypeOK
  <2>1. profile \in ProfileType /\ scoredFor \in ProfileType /\ posting \in PostingType
    BY <1>1, ProfilesAssumption, PostingsAssumption DEF Computed
  <2> DEFINE s == Scores(scoredFor, posting)
             passed == ApplyHardFilters(scoredFor, posting)
             total == weightedAverage(s)
  <2>2. s \in ScoresType
    BY <2>1, ScoresTyped
  <2>3. \A part \in Parts : s[part] <= s[part]
    BY <2>2 DEF ScoresType, Parts, Score
  <2> HIDE DEF s
  <2>4. /\ total \in Int
        /\ NonNegativeWeights => total \in Score
    BY <2>2, <2>3, TotalIsMonotone, TotalIsInteger
  <2>5. passed \in BOOLEAN
    BY DEF ApplyHardFilters
  <2>6. Status(passed, Recommendation(passed, total)) \in {"FILTERED_OUT", "RECOMMENDED", "NORMALIZED"}
    BY DEF Status
  <2>7. match = [passed |-> passed, scores |-> s, total |-> total,
                 status |-> Status(passed, Recommendation(passed, total))]
    BY <1>1 DEF Computed, ScoreVacancy, s
  <2> HIDE DEF passed, total
  <2> QED
    BY <2>1, <2>2, <2>4, <2>5, <2>6, <2>7 DEF TypeOK, ScoresType
<1> QED
  BY <1>1, InvariantHolds, PTL

\* The filters and the scores, written twice over the same criteria, do not
\* contradict each other.
LEMMA FiltersAgree ==
  ASSUME NEW p \in ProfileType, NEW v \in PostingType, ApplyHardFilters(p, v)
  PROVE  /\ (\A w \in p.roles : Canonical[w] = w) => scoreRole(p, v) = 100
         /\ v.location # Blank => scoreLocation(p, v) >= 60
         /\ scoreSalary(p, v) > 0
         /\ scoreDomain(p, v) >= 70
<1>1. (\A w \in p.roles : Canonical[w] = w) => scoreRole(p, v) = 100
  BY DEF ApplyHardFilters, RoleAllowed, scoreRole
<1>2. v.location # Blank => scoreLocation(p, v) >= 60
  BY DEF ApplyHardFilters, LocationAllowed, RemoteAllowed, scoreLocation
<1>3. scoreSalary(p, v) > 0
  BY DEF ApplyHardFilters, SalaryAllowed, scoreSalary, ProfileType, PostingType
<1>4. scoreDomain(p, v) >= 70
  BY DEF ApplyHardFilters, CompanyAllowed, scoreDomain
<1> QED
  BY <1>1, <1>2, <1>3, <1>4

\* filters.go and scoring.go agree on every posting that is imported.
THEOREM FiltersAndScoresAgree == Spec => []FiltersAgreeWithScores
<1>1. ASSUME Computed PROVE FiltersAgreeWithScores
  <2>1. scoredFor \in ProfileType /\ posting \in PostingType
    BY <1>1, ProfilesAssumption, PostingsAssumption DEF Computed
  <2>2. /\ match.passed = ApplyHardFilters(scoredFor, posting)
        /\ match.scores.role = scoreRole(scoredFor, posting)
        /\ match.scores.location = scoreLocation(scoredFor, posting)
        /\ match.scores.salary = scoreSalary(scoredFor, posting)
        /\ match.scores.domain = scoreDomain(scoredFor, posting)
    BY <1>1 DEF Computed, ScoreVacancy, Scores
  <2> QED
    BY <2>1, <2>2, FiltersAgree DEF FiltersAgreeWithScores
<1> QED
  BY <1>1, InvariantHolds, PTL

\* app.go and the listing's SQL select the same postings, for any weights and
\* thresholds that Validate accepts.
THEOREM OffersAreListed == Spec => []OfferedIsListed
<1>1. ASSUME Computed, TypeOK PROVE OfferedIsListed
  <2> DEFINE passed == ApplyHardFilters(scoredFor, posting)
             total == weightedAverage(Scores(scoredFor, posting))
  <2>1. /\ match.passed = passed /\ match.total = total
        /\ match.status = Status(passed, Recommendation(passed, total))
    BY <1>1 DEF Computed, ScoreVacancy
  <2>2. match.total \in Int
    BY <1>1 DEF TypeOK, Score
  <2> HIDE DEF passed, total
  <2>3. (match.status = "RECOMMENDED") <=> (match.passed /\ match.total >= ReviewThreshold)
    BY <2>1, <2>2, ThresholdsAssumption DEF Status, Recommendation
  <2> QED
    BY <2>3 DEF OfferedIsListed, Listed
<1> QED
  BY <1>1, InvariantHolds, TypeCorrect, PTL

\* What passes still passes, and no part scores less, when the posting becomes
\* better and the owner asks for less.
LEMMA BetterFit ==
  ASSUME NEW p \in ProfileType, NEW q \in ProfileType, Easier(p, q),
         NEW v \in PostingType, NEW w \in PostingType, Better(v, w),
         ApplyHardFilters(p, v)
  PROVE  /\ ApplyHardFilters(q, w)
         /\ NonNegativeWeights => weightedAverage(Scores(p, v)) <= weightedAverage(Scores(q, w))
<1>1. ApplyHardFilters(q, w)
  <2>1. CompanyAllowed(q, w)
    BY DEF ApplyHardFilters, CompanyAllowed, Easier, Better
  <2>2. RoleAllowed(q, w)
    BY DEF ApplyHardFilters, RoleAllowed, Easier, Better, Wider
  <2>3. RemoteAllowed(q, w) /\ LocationAllowed(q, w)
    BY DEF ApplyHardFilters, RemoteAllowed, LocationAllowed, Easier, Better, ProfileType, PostingType
  <2>4. SalaryAllowed(q, w)
    BY DEF ApplyHardFilters, SalaryAllowed, Easier, Better, ProfileType, PostingType, Unnamed
  <2>5. q.stopWords \cap w.text = {} /\ ~w.old
    BY DEF ApplyHardFilters, Easier, Better, ProfileType, PostingType
  <2> QED
    BY <2>1, <2>2, <2>3, <2>4, <2>5 DEF ApplyHardFilters
<1>2. scoreRole(p, v) <= scoreRole(q, w)
  BY DEF scoreRole, Easier, Better, Wider
<1>3. scoreSkills(p, v) <= scoreSkills(q, w)
  <2>1. /\ q.primary = p.primary /\ q.secondary = p.secondary
        /\ q.excludedSkills = p.excludedSkills /\ v.skills \subseteq w.skills
    BY DEF Easier, Better
  <2>2. \A S : SkillWeight(q, S) = SkillWeight(p, S)
    BY <2>1 DEF SkillWeight
  <2>3. scoreSkills(q, w) = scoreSkills(p, w)
    BY <2>2 DEF scoreSkills
  <2> QED
    BY <2>1, <2>3, SkillsScore
<1>4. scoreExperience(p, v) <= scoreExperience(q, w)
  <2>1. w.grade = v.grade /\ p.years <= q.years /\ p.years \in Int /\ q.years \in Int
    BY DEF Easier, Better, ProfileType
  <2>2. /\ experienceRank(p.years) \in 1 .. 4 /\ experienceRank(q.years) \in 1 .. 4
        /\ experienceRank(p.years) <= experienceRank(q.years)
    BY <2>1 DEF experienceRank
  <2>3. gradeRank(v.grade) \in 0 .. 4
    BY DEF gradeRank, PostingType, GradeNames
  <2> QED
    BY <2>1, <2>2, <2>3 DEF scoreExperience
<1>5. scoreGrade(p, v) <= scoreGrade(q, w)
  BY DEF scoreGrade, Easier, Better, Wider
<1>6. scoreLocation(p, v) <= scoreLocation(q, w)
  BY DEF scoreLocation, ApplyHardFilters, RemoteAllowed, Easier, Better, ProfileType, PostingType
<1>7. scoreSalary(p, v) <= scoreSalary(q, w)
  <2>1. /\ p.minimum \in Int /\ q.minimum \in Int /\ q.minimum <= p.minimum
        /\ v.from \in Int /\ w.from \in Int /\ v.to \in Int /\ w.to \in Int
        /\ v.from <= w.from /\ (v.from = Unnamed <=> w.from = Unnamed)
        /\ v.to <= w.to /\ (v.to = Unnamed <=> w.to = Unnamed)
    BY DEF Easier, Better, ProfileType, PostingType, Unnamed
  <2>2. ForeignCurrency(q, w) => ForeignCurrency(p, v)
    BY DEF ForeignCurrency, Easier, Better, Wider
  <2>3. p.minimum > 0 /\ v.to # Unnamed => v.to >= p.minimum
    BY DEF ApplyHardFilters, SalaryAllowed
  <2> QED
    BY <2>1, <2>2, <2>3 DEF scoreSalary
<1>8. scoreDomain(p, v) <= scoreDomain(q, w)
  BY <1>1 DEF scoreDomain, ApplyHardFilters, CompanyAllowed, Easier, Better, Wider
<1>9. \A part \in Parts : Scores(p, v)[part] <= Scores(q, w)[part]
  BY <1>2, <1>3, <1>4, <1>5, <1>6, <1>7, <1>8 DEF Scores, Parts
<1> QED
  BY <1>1, <1>9, ScoresTyped, TotalIsMonotone

\* No filter works against another, for all weights, and no score does, for all
\* weights that are not negative.
THEOREM BetterFitKept == Spec => BetterFitIsKept
<1>1. ASSUME Computed, Computed', match.passed, Easier(scoredFor, scoredFor'),
             Better(posting, posting')
      PROVE  /\ match'.passed
             /\ NonNegativeWeights => match'.total >= match.total
  <2>1. /\ scoredFor \in ProfileType /\ scoredFor' \in ProfileType
        /\ posting \in PostingType /\ posting' \in PostingType
    BY <1>1, ProfilesAssumption, PostingsAssumption DEF Computed
  <2>2. /\ match.passed = ApplyHardFilters(scoredFor, posting)
        /\ match.total = weightedAverage(Scores(scoredFor, posting))
    BY <1>1 DEF Computed, ScoreVacancy
  <2>3. match' = ScoreVacancy(scoredFor', posting')
    BY <1>1 DEF Computed
  <2>4. /\ match'.passed = ApplyHardFilters(scoredFor', posting')
        /\ match'.total = weightedAverage(Scores(scoredFor', posting'))
    BY <2>3 DEF ScoreVacancy
  <2> QED
    BY <1>1, <2>1, <2>2, <2>4, BetterFit
<1>2. Computed /\ Computed' /\ [Next]_vars
        => [/\ match.passed
            /\ Easier(scoredFor, scoredFor')
            /\ Better(posting, posting')
            => /\ match'.passed
               /\ NonNegativeWeights => match'.total >= match.total]_vars
  BY <1>1
<1> QED
  BY <1>2, InvariantHolds, PTL DEF Spec, BetterFitIsKept
=============================================================================
