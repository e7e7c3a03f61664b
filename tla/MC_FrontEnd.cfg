SPECIFICATION FairSpec
CONSTANTS
  Reqs = {1}
  Params <- MCFanOut
  MaxTokens = 2
  MaxPending = 2
  None = None
  Dead = Dead
  Suspends = FALSE
INVARIANT StreamFaithful
INVARIANT EndsComplete
INVARIANT NoOrphans
PROPERTY GenerateEnds
CHECK_DEADLOCK FALSE
