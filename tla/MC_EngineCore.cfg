\* three requests, chunked prefill, preemption; no pipeline
SPECIFICATION Spec
CONSTANTS
  NumGpuBlocks = 5
  EnableCaching = TRUE
  Reqs <- MCReqs3
  BlockSize = 2
  MaxModelLen = 7
  SlidingWindow = 0
  UseEagle = FALSE
  ExtraKeys <- MCNone
  PromptLogprobs = {}
  Prompt <- MCPrompt
  MaxTokens <- MCMaxTokens
  Lora <- MCNone
  FsmReqs = {}
  StopTokens = {2}
  MaxNumRunningReqs = 3
  MaxNumScheduledTokens = 6
  LongPrefill = 0
  MaxLoras = 0
  NumLookahead = 0
  Vocab = {1, 2}
  SpecMethod = "none"
  NumSpecTokens = 0
  DraftToken = 1
  MaxBatches = 1
  MMPositions <- MCNoImages
  EncoderCacheSize = 0
  MaxNumEncoderInputTokens = 0
  DisableChunkedMMInput = FALSE
INVARIANT NoAssertionFailure
INVARIANT PoolConsistent
INVARIANT QueuesMatchStatus
INVARIANT ReadsOwnPrefix
INVARIANT CommonPrefixShared
INVARIANT FinishedReachWorker
INVARIANT NoReqDataLeak
PROPERTY NoOvertaking
