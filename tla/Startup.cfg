SPECIFICATION FairSpec
CONSTANTS
  Processes = {p1, p2}
  Versions = {1, 2}
  SeedOrder <- CoreSources
  MaxStarts = 4
  MaxFaults = 1
INVARIANTS TypeOK MigratedOnce SourcesDoubleByOverlapOnly
PROPERTY MigrationCompletes
CHECK_DEADLOCK FALSE
