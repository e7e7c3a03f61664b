\* two requests, each of which may need the whole pool
SPECIFICATION FairSpec
CHECK_DEADLOCK FALSE
CONSTANTS
  NumGpuBlocks = 4
  EnableCaching = TRUE
  Reqs <- MCReqs2
  BlockSize = 2
  MaxModelLen = 5
  SlidingWindow = 0
  UseEagle = FALSE
  ExtraKeys <- MCNone
  PromptLogprobs = {}
  Prompt <- MCPromptShort
  MaxTokens <- MCMaxTokensLong
  Lora <- MCNone
  FsmReqs = {}
  StopTokens = {}
  MaxNumRunningReqs = 2
  MaxNumScheduledTokens = 4
  LongPrefill = 0
  MaxLoras = 0
  NumLookahead = 0
  Vocab = {1}
  SpecMethod = "none"
  NumSpecTokens = 0
  DraftToken = 1
  MaxBatches = 1
  MMPositions <- MCNoImages
  EncoderCacheSize = 0
  MaxNumEncoderInputTokens = 0
  DisableChunkedMMInput = FALSE
PROPERTY EveryRequestEnds
