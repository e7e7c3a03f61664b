\* workers die at any time once the engine is up
SPECIFICATION FairSpec
CONSTANTS
  WorldSize = 2
  UtilitiesRaise = FALSE
  EarlyDeaths = FALSE
  MaxCalls = 3
INVARIANT AnswersOwnCall
PROPERTY CallsEnd
PROPERTY FailureStopsEngine
CHECK_DEADLOCK FALSE
