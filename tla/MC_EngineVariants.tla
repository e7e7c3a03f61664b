-------------------------- MODULE MC_EngineVariants --------------------------
\* The engine in eight settings, each an instance with constants of its own; a
\* behaviour stays in the setting it starts in.
EXTENDS MC_Requests, Integers, Sequences, Functions

CONSTANTS NumGpuBlocks, EnableCaching, Reqs, BlockSize, MaxModelLen,
          SlidingWindow, UseEagle, ExtraKeys, PromptLogprobs, Prompt, MaxTokens,
          Lora, FsmReqs, StopTokens, MaxNumRunningReqs, MaxNumScheduledTokens,
          LongPrefill, MaxLoras, NumLookahead, Vocab, SpecMethod, NumSpecTokens,
          DraftToken, MaxBatches, MMPositions, EncoderCacheSize,
          MaxNumEncoderInputTokens, DisableChunkedMMInput

VARIABLES kv, encoder, req, waiting, running, finishedIds, reqData, grammarReady, step,
          dead, runner, batches, setting

vars == <<kv, encoder, req, waiting, running, finishedIds, reqData,
          grammarReady, step, dead, runner, batches>>

\* Two batches in flight, each with room for any prompt, and two requests that
\* preempt each other
Stages == INSTANCE EngineCore WITH
  MaxBatches <- 2, MaxNumScheduledTokens <- 12, MaxModelLen <- 6,
  NumGpuBlocks <- 4, Reqs <- MCReqs2

\* The same with prompts that take two batches, which may both be in flight
SmallStages == INSTANCE EngineCore WITH
  MaxBatches <- 2, MaxModelLen <- 6, NumGpuBlocks <- 4, Reqs <- MCReqs2

\* Two batches in flight, prefix caching off, prefills in chunks of two tokens,
\* at most two requests at a time and blocks for both: nobody is preempted
Chunks == INSTANCE EngineCore WITH
  MaxBatches <- 2, EnableCaching <- FALSE, LongPrefill <- 2, MaxModelLen <- 6,
  NumGpuBlocks <- 7, Reqs <- MCReqs2

\* Sliding window attention over four tokens, prompts of five
Window == INSTANCE EngineCore WITH
  SlidingWindow <- 4, MaxModelLen <- 8, NumGpuBlocks <- 6, Reqs <- MCReqs2,
  Prompt <- MCPromptLong

\* One LoRA slot and two adapters, two requests with grammars, one that asks
\* for prompt_logprobs
PutAside == INSTANCE EngineCore WITH
  MaxLoras <- 1, Lora <- MCTwoLoras, ExtraKeys <- MCTwoLoras, FsmReqs <- {2, 3},
  PromptLogprobs <- {3}, MaxNumRunningReqs <- 2, MaxModelLen <- 6

\* n-gram drafts of up to two tokens, for all of which the budget has room;
\* max_model_len cuts the last ones of the longer request, so that a draft is
\* not scheduled that kv_cache_manager.py:280 counts
Drafting == INSTANCE EngineCore WITH
  SpecMethod <- "ngram", NumSpecTokens <- 2, Vocab <- {1, 3}, StopTokens <- {},
  MaxNumScheduledTokens <- 16, NumGpuBlocks <- 9, MaxModelLen <- 5,
  Reqs <- MCReqs2, Prompt <- MCPromptDrafts

\* Two requests with two images each and an encoder cache that does not hold
\* all of them, in a pool in which they preempt each other
Images == INSTANCE EngineCore WITH
  Prompt <- MCPromptImages, MMPositions <- MCImages, Reqs <- MCReqs2,
  EncoderCacheSize <- 5, MaxNumEncoderInputTokens <- 4, MaxModelLen <- 8,
  MaxNumScheduledTokens <- 4, LongPrefill <- 2

\* The same with images that are computed in one batch or not at all
WholeImages == INSTANCE EngineCore WITH
  Prompt <- MCPromptImages, MMPositions <- MCImages, Reqs <- MCReqs2,
  EncoderCacheSize <- 3, MaxNumEncoderInputTokens <- 4, MaxModelLen <- 8,
  MaxNumScheduledTokens <- 3, LongPrefill <- 2, DisableChunkedMMInput <- TRUE

VariantsInit == \/ setting = "stages" /\ Stages!Init
                \/ setting = "small stages" /\ SmallStages!Init
                \/ setting = "chunks" /\ Chunks!Init
                \/ setting = "window" /\ Window!Init
                \/ setting = "put aside" /\ PutAside!Init
                \/ setting = "drafting" /\ Drafting!Init
                \/ setting = "images" /\ Images!Init
                \/ setting = "whole images" /\ WholeImages!Init

\* A step of the setting s
Within(s) == setting = s /\ UNCHANGED setting

VariantsNext == \/ Within("stages") /\ Stages!Next
                \/ Within("small stages") /\ SmallStages!Next
                \/ Within("chunks") /\ Chunks!Next
                \/ Within("window") /\ Window!Next
                \/ Within("put aside") /\ PutAside!Next
                \/ Within("drafting") /\ Drafting!Next
                \/ Within("images") /\ Images!Next
                \/ Within("whole images") /\ WholeImages!Next

VariantsSpec == VariantsInit /\ [][VariantsNext]_<<setting, vars>>

-----------------------------------------------------------------------------
\* Blocks freed from behind a sliding window, shared or, without prefix
\* caching, only handed out and returned: free queue, reference counts and
\* cache agree with the requests' block lists (BlockPool, KVCacheManager).
VariantsPoolConsistent ==
  /\ setting = "stages" => Stages!PoolConsistent
  /\ setting = "small stages" => SmallStages!PoolConsistent
  /\ setting = "chunks" => Chunks!PoolConsistent
  /\ setting = "window" => Window!PoolConsistent
  /\ setting = "put aside" => PutAside!PoolConsistent
  /\ setting = "drafting" => Drafting!PoolConsistent
  /\ setting = "images" => Images!PoolConsistent
  /\ setting = "whole images" => WholeImages!PoolConsistent

\* A scheduled token attends to its own request's tokens and no others: blocks
\* that equal prompts of different LoRA adapters must not share, blocks that
\* a window must not lose, drafts that were rejected.
VariantsReadOwnPrefix ==
  /\ setting = "stages" => Stages!ReadsOwnPrefix
  /\ setting = "small stages" => SmallStages!ReadsOwnPrefix
  /\ setting = "chunks" => Chunks!ReadsOwnPrefix
  /\ setting = "window" => Window!ReadsOwnPrefix
  /\ setting = "put aside" => PutAside!ReadsOwnPrefix
  /\ setting = "drafting" => Drafting!ReadsOwnPrefix
  /\ setting = "images" => Images!ReadsOwnPrefix
  /\ setting = "whole images" => WholeImages!ReadsOwnPrefix

\* Requests preempted, aborted or finished while a batch with them is in
\* flight leave the queues as their statuses say (update_from_output,
\* finish_requests).
StagesQueuesMatchStatus ==
  /\ setting = "stages" => Stages!QueuesMatchStatus
  /\ setting = "small stages" => SmallStages!QueuesMatchStatus

\* A sampled token continues its request: after the last chunk of a prefill,
\* after a preemption while it was in flight, and after any number of
\* accepted drafts (update_from_output).
VariantsOutputContinues ==
  /\ setting = "stages" => Stages!OutputContinues
  /\ setting = "chunks" => Chunks!OutputContinues
  /\ setting = "drafting" => Drafting!OutputContinues

\* update_from_output expects no token of a request whose prefill is not yet
\* complete, and the model runner returns none.
ChunksReturnNothing == setting = "chunks" => Chunks!PrefillReturnsNothing

\* Whatever is cut, preempted with an image half computed, resumed, hit in the
\* prefix cache or aborted: the worker has the encoder outputs that a batch
\* needs, the scheduler's account of them is true, and requests that keep
\* images while they wait do not bring schedule() to a standstill
\* (_try_schedule_encoder_inputs, update_from_output(), _update_states()).
ImagesInStep ==
  /\ setting = "images" =>
       Images!WorkerHasImages /\ Images!EncoderAccountTrue /\ Images!ScheduleFindsWork
  /\ setting = "whole images" =>
       /\ WholeImages!WorkerHasImages
       /\ WholeImages!EncoderAccountTrue
       /\ WholeImages!ScheduleFindsWork

\* Requests put aside for a grammar or a LoRA slot, and the others in the
\* queue, never change their order (schedule()).
AsideKeepsOrder ==
  [][setting = "put aside" =>
       \A r, s \in Reqs : (PutAside!Ahead(r, s) /\ {r, s} \subseteq Range(PutAside!Line)')
                            => PutAside!Ahead(r, s)']_vars

\* Whatever becomes of a request's drafts, accepted, rejected or counted but cut
\* by max_model_len: while it runs num_cached_block only grows, so no block is
\* put in the cache twice, and no assertion fails (allocate_slots(),
\* cache_full_blocks()).
DraftingCountGrows ==
  [][setting = "drafting" =>
       /\ \A r \in MCReqs2 : (req[r].status = "running" /\ req'[r].status = "running")
                               => kv'.ncached[r] >= kv.ncached[r]
       /\ ~ dead']_vars
=============================================================================
