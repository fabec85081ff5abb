SPECIFICATION FairSpec
CONSTANTS
  Vacancies = {v1}
  Applications = {a1, a2}
  InitialStatuses = {"RECOMMENDED"}
  PatchTargets = {"ARCHIVED"}
  None = None
  MaxPending = 2
  MaxCrashes = 1
PROPERTIES DroppedWereHandled RedeliveryIsHarmless EveryTapIsHandled
