SPECIFICATION FairSpec
CONSTANTS
  Callers = {c1, c2}
  MinDelay = 1
  RetryAfters <- SomeRetryAfters
  MaxPages = 2
  MaxItems = 1
  MaxRuns = 2
INVARIANT SummaryAddsUp
PROPERTIES CallerKeepsDistance UsesClient SuccessIsForgottenByOverlapOnly RunsEnd
