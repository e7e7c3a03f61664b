\* utility calls that time out or fail in a worker
SPECIFICATION FairSpec
CONSTANTS
  WorldSize = 2
  UtilitiesRaise = TRUE
  EarlyDeaths = FALSE
  MaxCalls = 3
INVARIANT AnswersOwnCall
CHECK_DEADLOCK FALSE
