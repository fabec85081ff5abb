SPECIFICATION FairSpec
CONSTANTS
  Requests = {r1, r2, r3}
  Connections = {k1, k2}
  Companies = {c1, c2}
  MaxRows = 1
  None = None
INVARIANTS TypeOK ConnectionsAccounted StallsNeedNestedRequests
PROPERTIES FinishesUnlessStalled
