\* what the settings do not say otherwise
SPECIFICATION VariantsSpec
CONSTANTS
  NumGpuBlocks = 5
  EnableCaching = TRUE
  Reqs <- MCReqs3
  BlockSize = 2
  MaxModelLen = 7
  SlidingWindow = 0
  UseEagle = FALSE
  ExtraKeys <- MCNone
  PromptLogprobs = {}
  Prompt <- MCPrompt
  MaxTokens <- MCMaxTokens
  Lora <- MCNone
  FsmReqs = {}
  StopTokens = {2}
  MaxNumRunningReqs = 3
  MaxNumScheduledTokens = 4
  LongPrefill = 0
  MaxLoras = 0
  NumLookahead = 0
  Vocab = {1, 2}
  SpecMethod = "none"
  NumSpecTokens = 0
  DraftToken = 1
  MaxBatches = 1
  MMPositions <- MCNoImages
  EncoderCacheSize = 0
  MaxNumEncoderInputTokens = 0
  DisableChunkedMMInput = FALSE
INVARIANT VariantsPoolConsistent
INVARIANT StagesQueuesMatchStatus
INVARIANT VariantsReadOwnPrefix
INVARIANT VariantsOutputContinues
INVARIANT ChunksReturnNothing
INVARIANT ImagesInStep
PROPERTY AsideKeepsOrder
PROPERTY DraftingCountGrows
