\* a request with accepted drafts leaves the batch for a step
SPECIFICATION Spec
CHECK_DEADLOCK FALSE
CONSTANTS
  NumGpuBlocks = 9
  EnableCaching = TRUE
  Reqs <- MCReqs2
  BlockSize = 2
  MaxModelLen = 8
  SlidingWindow = 0
  UseEagle = FALSE
  ExtraKeys <- MCNone
  PromptLogprobs = {}
  Prompt <- MCPromptShort
  MaxTokens <- MCMaxTokensLong
  Lora <- MCNone
  FsmReqs = {}
  StopTokens = {2}
  MaxNumRunningReqs = 2
  MaxNumScheduledTokens = 3
  LongPrefill = 0
  MaxLoras = 0
  NumLookahead = 0
  Vocab = {1, 3}
  SpecMethod = "ngram"
  NumSpecTokens = 2
  DraftToken = 1
  MaxBatches = 1
  MMPositions <- MCNoImages
  EncoderCacheSize = 0
  MaxNumEncoderInputTokens = 0
  DisableChunkedMMInput = FALSE
INVARIANT ReadsOwnPrefix
