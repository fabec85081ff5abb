SPECIFICATION FairSpec
CONSTANTS
  Workers = {w1, w2}
  Postings = {p1, p2}
  Contents = {c1, c2}
  Companies = {c1, h1, h2}
  Employer <- OwnEmployer
  Says <- OneMayOmit
  Hosts = {h1, h2}
  Verdicts <- OnlyRecommended
  PatchTargets <- OnlyArchive
  None = None
INVARIANTS TypeOK LinksLeadToPrimaries OnePrimaryPerContent LinkedIsNotOffered
PROPERTIES DecisionsOutlastImports ImportsFinish
