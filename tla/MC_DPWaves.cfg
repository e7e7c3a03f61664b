\* requests and late aborts in any order
SPECIFICATION FairSpec
CONSTANTS
  NumEngines = 2
  Reqs = {1, 2, 3}
  SyncEvery = 2
  Steps <- MCSteps
  EarlyAborts = FALSE
  EmptySteps = FALSE
INVARIANT CollectivesMatch
INVARIANT PauseIsKnown
PROPERTY EveryRequestEnds
PROPERTY EnginesComeToRest
CHECK_DEADLOCK FALSE
