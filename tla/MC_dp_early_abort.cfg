\* a request aborted before it was scheduled
SPECIFICATION FairSpec
CONSTANTS
  NumEngines = 2
  Reqs = {1, 2}
  SyncEvery = 2
  Steps <- MCSteps
  EarlyAborts = TRUE
  EmptySteps = FALSE
PROPERTY EveryRequestEnds
CHECK_DEADLOCK FALSE
