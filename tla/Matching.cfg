SPECIFICATION Spec
CONSTANTS
  Words = {"js", "javascript", "intern"}
  Canonical <- SomeCanonical
  Skills = {"go", "sql", "k8s"}
  Places = {"moscow", "kazan"}
  Currencies = {"RUR", "USD"}
  Employments = {"full", "part"}
  Companies = {"acme"}
  Profiles <- SomeProfiles
  Postings <- SomePostings
  Weights <- DefaultWeights
  ApplyThreshold = 80
  ReviewThreshold = 55
INVARIANTS TypeOK FiltersAgreeWithScores OfferedIsListed
PROPERTIES BetterFitIsKept
