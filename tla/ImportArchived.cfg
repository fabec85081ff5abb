SPECIFICATION Spec
CONSTANTS
  Workers = {w1, w2}
  Postings = {p1}
  Contents = {c1}
  Companies = {c1}
  Employer <- OwnEmployer
  Says <- OneMayOmit
  Hosts = {}
  Verdicts <- OnlyRecommended
  PatchTargets <- OnlyArchive
  None = None
PROPERTY ArchivedStaysArchived
