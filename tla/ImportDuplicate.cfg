SPECIFICATION Spec
CONSTANTS
  Workers = {w1}
  Postings = {p1, p2}
  Contents = {c1}
  Companies = {c1}
  Employer <- OwnEmployer
  Says <- OneMayOmit
  Hosts = {}
  Verdicts <- OnlyRecommended
  PatchTargets <- OnlyArchive
  None = None
PROPERTY ReimportIsIdempotent
