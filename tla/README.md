# Formal models of the vLLM + StreamingLLM repository

This directory holds TLA+ models of the serving core of this repository, the
TLC configurations that check them on small instances, and proofs of some of
their properties for all instances. Paths below are relative to the
repository; `V1` stands for `vllm/vllm/v1`.

- [The system](#the-system)
- [Modules](#modules)
- [From code to model](#from-code-to-model)
- [Runs](#runs)
- [Bounds](#bounds)
- [Fairness](#fairness)
- [Disagreements found](#disagreements-found)
- [Proofs](#proofs)
- [Not modelled](#not-modelled)
- [Plan](#plan)

## The system

The repository is a fork of vLLM (`vllm/`) into which StreamingLLM's KV cache
(`streaming-llm/`) has been ported. Scripts and reports in the root directory
call the two.

| Component | State | Operations | Interacts with |
|---|---|---|---|
| free block queue (`V1/core/kv_cache_utils.py`) | links of each block, head, tail, counter | popleft, remove, append, get_all_free_blocks | called by the block pool |
| block pool (`V1/core/block_pool.py`) | reference counts, block hashes, hash → blocks cache, free queue, null block | get_new_blocks, touch, free_blocks, cache_full_blocks, get_cached_block, reset_prefix_cache | called by the KV cache manager |
| KV cache manager (`V1/core/kv_cache_manager.py`, `specialized_manager.py`) | blocks, hashes and number of cached blocks of each request | get_computed_blocks, allocate_slots, free, free_block_hashes, get_num_common_prefix_blocks | called by the scheduler |
| scheduler (`V1/core/sched/scheduler.py`) | requests, waiting queue, running list, finished ids, pool of data objects | add_request, finish_requests, schedule, update_from_output, reset_prefix_cache | called by the engine core; its output goes to the workers |
| engine core (`V1/engine/core.py`) | queue of batches in flight, input and output queues | step, step_with_batch_queue, busy loop | client, scheduler, executor |
| model runner (`V1/worker/gpu_model_runner.py`, `gpu_input_batch.py`) | cached request states, rows of the persistent batch, KV cache | execute_model | mirrors the scheduler by messages that carry differences |
| encoder cache manager (`V1/core/encoder_cache_manager.py`) | cached encoder inputs, free slots, ids the workers are to be told of | can_allocate, allocate, free_encoder_input, free, get_freed_ids | called by the scheduler; the worker's encoder cache follows it |
| front end (`V1/engine/async_llm.py`, `output_processor.py`, `parallel_sampling.py`) | states of requests, parents of requests with several completions, a one-place collector with an event for each caller | generate, abort, output handler, propagate_error | engine core by sockets |
| multiprocess executor (`V1/executor/multiproc_executor.py`) | broadcast and response queues, failure flags, callback | collective_rpc, worker loop, monitor, shutdown | engine core, worker processes |
| data-parallel engines (`V1/engine/core.py`, `core_client.py`) | current_wave and engines_running of each engine and of the client, step counter | add, abort, start of a wave, dummy batch, all-reduce | peers by collectives, client by sockets |
| shared-memory queue (`vllm/vllm/distributed/device_communicators/shm_broadcast.py`) | ring of blocks with flags, sockets for big objects and for remote readers | wait_until_ready, enqueue, dequeue | executor, workers |
| streaming KV cache (`vllm/vllm/attention/backends/streaming_kv_cache.py`, `streaming-llm/`) | cached keys and values | call, evict_for_space | chat and evaluation loops |
| streaming adapters (`vllm/vllm/model_executor/models/streaming_adapters/`) | none | positions by which queries and keys are rotated | attention of LLaMA and Qwen3 |

What is hard here: schedule() is a long loop that changes the list it walks
over when it preempts; blocks are shared by reference counts and stay in the
free queue and in the prefix cache at the same time; hashes are put in the
cache before the keys and values they stand for are computed; scheduler and
worker hold two copies of each request that are kept equal by differences;
with pipeline parallelism a request may be preempted, aborted or finished
while a batch with it is in flight; drafts may be truncated, accepted or
rejected; and grammars and LoRA slots hold requests back out of order.
Around the engine, processes and tasks meet with little to hold them together:
the writer and the readers of a ring share bytes without a lock, workers die
while the engine waits for them, engines that count their steps each for itself
must meet in the same collective, requests cross the decision to pause, and
callers are cancelled while the outputs of their completions arrive.
PROJECT.json lists these hazards at the lines where they bite, each with the
properties that are about it.

## Modules

| Module | What it is |
|---|---|
| `BlockQueue` | abstract specification: a queue of free blocks from which any member may be taken |
| `FreeKVCacheBlockQueue` | the linked list that implements it |
| `BlockSeqs` | helpers on sequences of blocks or requests |
| `BlockPool` | the block pool, as operators on a record |
| `KVCacheManager` | the KV cache manager with both specialized managers, as operators on a record |
| `EncoderCacheManager` | the space for the encoder's outputs, as operators on a record |
| `Scheduler` | the scheduler: its variables and one action per turn of its loops |
| `ModelRunner` | the worker: its state and what executing a batch does to it, as operators on a record |
| `EngineCore` | composes scheduler and worker into step() and step_with_batch_queue(), with the properties |
| `MC_Requests` | prompts, lengths and adapters of the engine's instances |
| `MC_EngineCore` | the engine with these requests, for most runs |
| `MC_EngineVariants` | the engine in eight settings at once: an INSTANCE of `EngineCore` for each, and a behaviour stays in one of them |
| `StreamingKVCache`, `MC_StreamingKVCache` | the streaming cache and the loops that drive it |
| `BroadcastChannel` | abstract specification: every reader gets every object once and in order |
| `ShmRingBuffer`, `MC_ShmRingBuffer` | the shared-memory queue that implements it |
| `MultiprocExecutor`, `MC_MultiprocExecutor` | collective_rpc, the workers and the monitor that watches them |
| `DPWaves`, `MC_DPWaves` | the data-parallel engines and their client |
| `FrontEnd`, `MC_FrontEnd` | generate(), the output handler, the output processor and its collectors |
| `*_proofs` | theorems and lemmas |

The operators of `BlockPool` and `KVCacheManager` are functions from a record
to a record because in the code they run inside one call of the scheduler,
without interleaving: `allocate_slots()` returns either None or blocks after
having changed the manager, and `AllocateSlots` returns a record with the new
manager, the block list and whether an assertion failed. The free queue of
`BlockPool` is a sequence; that the linked list does what the sequence does is
the refinement checked in `free_queue` and proved in
`FreeKVCacheBlockQueue_proofs`.

The other compositions go through what a component promises. `MultiprocExecutor`
takes its queues to be the FIFO queues that `ShmRingBuffer` implements
(`RefinesBroadcast`). `DPWaves` reduces the scheduler to which unfinished
requests a step advances, and `FrontEnd` the engine core to which of its
requests get a token: what `EngineCore` does step by step.

## From code to model

**Scheduler.** The engine is one thread. A call of schedule() or
update_from_output() is atomic for everyone else, but each is a loop of many
decisions. The model does one turn of a loop per action, with the locals of the call
in `step` (program counter, index, token budget, output under construction,
requests skipped). While a call is in progress all other operations wait.

| Action | Code |
|---|---|
| `BeginSchedule` | schedule() up to the loop over running requests |
| `SkipRunning`, `ScheduleRunning`, `Preempt` | the turns of that loop: nothing to schedule, allocation succeeds, allocation fails and the last running request is preempted (perhaps the current one) |
| `EndRunningLoop` | LoRA accounting, the choice whether waiting requests are looked at |
| `SkipWaiting`, `AdmitWaiting`, `AdmissionFull`, `AdmissionAwaitsEncoder` | the turns of the second loop: put aside for a grammar or an adapter, admitted, no blocks, no room for the image the first token is in |
| `EndSchedule` | put back what was set aside, build the output, advance num_computed_tokens, clear finished_req_ids |
| `UpdateSkip`, `UpdateRequest`, `EndUpdate` | update_from_output(): not in the batch, tokens appended and drafts verified, end |
| `AddRequest`, `FinishRequests`, `GrammarCompiled`, `ResetPrefixCacheCall` | calls of the client between steps |

A failed Python assertion in the scheduler, manager or pool ends the engine
process: the variable `dead` becomes true and nothing happens any more.

**Block hashes.** The hash of a block is modelled as what it stands for: extra
keys and all tokens up to the end of the block. Collisions of Python's hash are
left out.

**Images.** An image (any multi-modal input) is a range of the prompt's tokens;
it is encoded as a whole, and its output is kept until all its tokens are in the
KV cache. `EncoderPlan` is `_try_schedule_encoder_inputs`: the images a stretch
of tokens needs, up to the first for which there is no budget or no space (or
which must not be cut), and the tokens that remain before it. The images planned
get their space in the same action that schedules the request (`WithImages`);
update_from_output() releases the images that are processed, _free_request() all
of a request's, and preemption none. The ids released go to the worker with the
next output (`freed`, `FreedTold`), and the worker's `images` follow by
`ImagesKept` and `Encoded`. Equal images have equal tokens, which stands
for the hash of the image that the code puts into the hash of a block.

**Worker.** The runner's record holds the cached states, the rows of the
persistent batch and, for each slot of each block, the tokens whose
key and value are there (with the request's extra keys, which distinguish
adapters). A token fed at position `p` writes the slot given by the row's
own block table, and attends to the slots before it. `ReadsOwn` says that each
of them holds just the prefix of the request's tokens that should be there.
A slot is only overwritten by a later write, never cleared. A batch's tokens
are chosen when the engine waits for it, in any way the sampler could choose
them out of `Vocab`; with drafts, any accepted number of them followed by one
sampled token. The forward pass itself is external.

**Engine.** With `MaxBatches = 1` a step is schedule, execute, update. With
more, batches are submitted while the queue has room and something is
scheduled; else the oldest one is waited for. Pipeline stages handle batches
in order of submission, so the worker's state is advanced at submission. The
client's calls may come between any two steps.

**Streaming cache.** A token is its position in the text and the cache a
sequence of positions. `StartTurn`, `ReadPrompt`, `Generate` and `EndTurn` are
the chat of `run_streaming_llama.py`, which makes room for prompt and answer
beforehand; `EvalToken` is the loop of `eval_long_ppl.py`, which trims after
each token. Both drive the port; that the original class cuts in the same
place is the property `PortAgrees`. `QueryPositions` and `KeyPositions` are the
rotary positions of the LLaMA adapter, with its clamp.

**Shared-memory queue.** A block of the ring has the flag `written`, one flag
per local reader, the overflow byte and its data, and every access to one of
them is an action: a writer that fills a block passes through `Enqueue`,
`WriterClaims`, `WriteHeader`, `WritePayload`, one `ClearFlag` per reader and
`Commit`, a reader through `ReadReadFlag`, `ReadWritten`, `ReadHeader`,
`ReadPayload` and `MarkRead`. A block whose data is partly written is `Torn`, and
a reader may take out just that. Stores become visible in program order, as on
x86. Only the sum of the readers' flags in acquire_write is one
step: nobody but the writer clears these flags or sets `written`, so flags that
are read one after another add up to what they all are at the end, or
the loop starts over. Big objects go through `socket`, which is fed by
`WriterPublishes` *after* `Commit`; remote readers have only the socket. Until a
reader has subscribed it gets nothing, hence the handshake of
wait_until_ready (`Subscribe`, `WriterReadyLocal`, `WriterReadyRemote`,
`ReaderReady`). A write that times out leaves the queue as it was.

**Executor.** `engine` is the thread of the engine core inside
collective_rpc: `BeginCall`, `CheckFailed`, `SendCall`, then `NextWorker` and
`Dequeue` for each rank it waits for, with `DequeueFails` for a timeout or the
cancel event. A call with `rank0Only` is execute_model of step(), which has a
timeout and whose exceptions end the engine; the others are utility calls, whose exceptions
are returned to the client. `Die` kills a worker at any time. `MonitorSees`,
`MonitorShutsDown`, `MonitorTerminates` and `MonitorCallsBack` are the lines of
the monitor thread, between which the engine's thread may do anything;
`responsesGone` and `rpcGone` are the queues that shutdown() sets to None, which
a caller in the middle of its loop runs into.

**Data-parallel engines.** `pc` is where an engine's busy loop is: `wait` (the
blocking part of _process_input_queue), `drain` (the rest of it), `forward`,
`update`, `sync` (_has_global_unfinished_reqs up to the all-reduce),
`allreduce`, `decide`. `Forward` and `AllReduce` are collectives: they happen
when all engines have come to them. `BeginStep` is a step with unfinished
requests, `BeginIdle` one without, which flushes finished requests and
then runs a dummy batch or waits. The client's actions are
add_request_async, abort_requests_async and process_engine_outputs. A message in
either direction is in a FIFO per engine, and the client takes the outputs of
the engines in any order among engines.

**Front end.** All tasks share an event loop, so an action runs from one await
to the next. generate() is `Generate`, `AddChild` (once per completion),
`GenerateGets` (get_nowait, or the start of get), `GenerateWakes` and
`CallerResumes`, with `Cancel` and `Close` for a caller that gives up at an await
or at a yield. The output handler is `HandlerGets`, `HandlerProcesses` (a slice of
one output), `HandlerAborts` and `HandlerFails`. `output` and `ready` are the
collector's slot and its event, and `Put` is put(), with the merge of deltas and
the rule that an error replaces an output. `stop` in `HandlerProcesses`
is the detokenizer meeting a stop string, which ends the request here before
the engine knows. `SocketSeesDead` is the task that reads the socket: it
sets engine_dead before the handler comes to the message. A completion is
the sequence of its tokens.

## Runs

Passing runs:

| Run | Instance | What it shows |
|---|---|---|
| `free_queue` | 5 blocks | the links form a path through exactly the queue's members, the counter is right, detached blocks carry no links, and the list implements `BlockQueue` |
| `engine` | 3 requests sharing one or two blocks, 4 usable blocks, budget of 6 tokens, step() | no assertion fails; free queue, counts, cache and block lists agree; queues match statuses; each token attends to its own request's prefix; common prefix blocks are common; finished ids reach the worker; no data object leaks; nobody is overtaken |
| `variants` | eight settings, below | the same of the pool and the KV, and what is particular to each setting |
| `liveness` | 2 requests that may each need the whole pool | every request ends, however often the two preempt each other |
| `streaming_cache` | 2 sinks, 6 recent, 24 tokens | sinks and recent tokens without a gap, room for each turn, nothing evicted without need, the port cuts where the original does, and each query is rotated to the place of its own key |
| `ring_buffer` | 2 local readers, 1 remote, 2 blocks, 3 objects | no block is written while it is read; every reader dequeues what was enqueued, once and in order; and whatever was sent arrives |
| `executor` | 2 workers, 3 calls, deaths at any time after start-up | the answers are those to the call; every call ends; a death ends the engine, busy or idle |
| `dp_waves` | 2 engines, 3 requests, an all-reduce every 2 steps | no engine waits in one collective while its peer waits in another; when messages have arrived engines and client agree whether and in which wave they pause; every request ends; the engines come to rest |
| `front_end` | 1 request with 1 or 2 completions, of each output kind | no token lost, repeated or mixed up by a slow reader; streams end complete; nothing is computed for nobody; every generate() ends |

The settings of `variants`, and the properties that are particular to them:

| Setting | Constants | Properties |
|---|---|---|
| stages | 2 batches in flight, whole prompts, preemption and aborts of requests in flight | `StagesQueuesMatchStatus`, `VariantsOutputContinues` |
| small stages | 2 batches in flight, prompts that take two batches (one request in both) | `StagesQueuesMatchStatus` |
| chunks | 2 batches in flight, no prefix caching, chunks of 2 tokens, no preemption | `ChunksReturnNothing`, `VariantsOutputContinues` |
| window | sliding window of 4 tokens | blocks behind the window are freed, hits inside it suffice |
| put aside | 3 requests, 2 with grammars, 2 adapters and 1 slot, one asks for prompt logprobs | `AsideKeepsOrder`; equal prompts of different adapters share nothing |
| drafting | n-gram drafts of two tokens and a budget with room for all of them; `max_model_len` cuts the last ones of the longer request, so a draft that `allocate_slots` counts is not scheduled and a full block is left out of the count | `DraftingCountGrows`, `VariantsOutputContinues` |
| images | 2 requests with 2 images each, an encoder cache for five of their eight tokens, chunks of two tokens, requests that preempt each other | `ImagesInStep` |
| whole images | the same with disable_chunked_mm_input and an encoder cache for three tokens | `ImagesInStep` |

In `engine`, `variants` and `free_queue` deadlock is checked. The engine can
take a step in every state unless an assertion has failed, so this also
shows that no call of schedule() or update_from_output() gets stuck half-way, and
that no assertion fails in any of the settings.

Runs that must end in a violation, one per disagreement: `draft_tokens_lost`,
`rpc_stale_answer`, `dp_early_abort` ([Disagreements found](#disagreements-found)).

Each property of a passing run has a mutant in PROJECT.json: a definition in
the same module that differs from the modelled one by a plausible slip
(`VictimFirst`, `TouchInPlace`, `FlagsClearedShort`, `RepliesAll`,
`AnswersOldWaveNever`, `ParentFinishedByOne`, ...) and with which TLC finds the
property violated.

Deadlock checking is off where the system may stop: in the runs in which an
assertion fails, in the streaming runs, where the text ends, in `liveness`,
where `EveryRequestEnds` says more, and in the four runs of processes around
the engine, where writer, callers and clients have a bounded number of things to say. What
must not get stuck there is said by liveness properties.

## Bounds

- *Requests:* two or three, each added once (request ids are unique). Two are
  enough for sharing, preemption and being overtaken; the third makes
  it possible that the last request is preempted while two others run, and
  that two requests are put aside in one call.
- *Blocks* of two tokens: the smallest size with a partial block. Prompts of 1
  to 5 tokens share none, one or two blocks; one is exactly two blocks long, so that
  a prompt can be cached to its last token.
- *Pools:* three usable blocks (requests of three blocks each preempt each other),
  four, or enough for all. With the budget of `engine`, requests
  are preempted while others go on running, resumed, and hit their own old blocks.
- `MaxModelLen` of 4 to 8 tokens and `MaxTokens` of two to five make requests end
  by length, by their own limit and by stop token.
- `MaxBatches` 1 or 2. With three batches in flight `OutputContinues` is
  violated: a request is preempted and resumed while its first batch is still
  in flight, and takes that batch's token for the later one's
  (`scheduler.py:645-652`). No comment of the code promises otherwise,
  so no run states it.
- *Images* of two tokens, which chunks and blocks cut in the middle; one prompt has two
  adjacent ones, and the first is the same in both prompts, so that a prefix hit can end
  inside an image. With these sizes an image half computed is preempted
  and resumed, with its output still there or not; an admission and a running request
  wait for the encoder cache; and two images of a request are planned in one call.
- *Streaming:* `MaxSeen` (24 tokens) is three times the cache.
- *Ring:* three objects over two blocks, so that a block is written again while a
  slow reader is still at it; two local readers, so that one may be a
  block behind the other; a remote one, which never sees the ring. Any
  object may be big.
- *Executor:* two workers, one that always answers and one that answers
  only calls to all; three calls, so that an answer left by the first
  could be taken by the second or, past an execute_model, by the third.
- *Engines:* two, of which one can be without requests; three requests, one
  of which takes two steps, so that a wave ends, a request crosses the decision to
  pause, and there is a next wave; `SyncEvery` 2 in place of 24, so that the
  engines agree at some steps and not at others.
- *Front end:* `MaxTokens` 2, so that outputs are merged in the slot;
  `MaxPending` 2 batches of outputs on the way, so that the death of the engine is
  behind one that is not yet processed. A second request next to the
  first (6.5 million states) was checked by hand and adds nothing: requests share only
  the handler.
- The bounds that are not parameters of the code are `MaxSeen`, `MaxObjects`,
  `MaxCalls` and `MaxPending`.

`OutputContinues` and `PrefillReturnsNothing` are checked where no resumed request is
prefilled in parts: they fail there ([Disagreements found](#disagreements-found), `LongPrefill = 1`).

There is no symmetry reduction: requests differ in their prompts, and blocks are
taken in the free queue's order.

## Fairness

`FairSpec` adds weak fairness of `EngineStep`: the busy loop
(`EngineCoreProc.run_busy_loop`) calls the step function as long as the
scheduler has requests, and no step blocks for ever (executing a batch returns).
There is no fairness for the client: requests need not come, be aborted, and
the cache need not be reset. The client may not starve the loop either: input
is drained without blocking, then a step is taken; in the model the finite
number of requests bounds the client's additions and aborts, and a reset
of an unused cache changes nothing the next time.

`EveryRequestEnds` holds in `liveness`, where each request alone fits
in the pool. It fails with one block less, where by the memory check it should fit
([Disagreements found](#disagreements-found)).
In grammars and adapters, fairness of the compiler would be needed as well; the
liveness run has neither.

*Ring.* Writer and readers are processes that run: weak fairness of each. Whether
a write times out is left open. A reader that stops for good would fill the
ring, which is how the code means it.

*Executor.* The engine's thread and the monitor run. A worker finishes its call as long
as all workers live: the forward pass is collective, so with a dead peer it may hang,
and the fairness of a worker has `~SomeDead` in it. Nobody has to die or call.

*Engines.* Each engine's loop and the client's output task run, and a collective
completes once all engines are in it. Nobody has to send or abort a
request.

*Front end.* The event loop runs every task that can run, the caller asks for
the next output at some time, and the engine core takes its messages and
makes tokens until it dies. Cancellation, closing and death are not fair.

## Disagreements found

Three are runs that TLC refutes, with the line of the repository that says
otherwise quoted in PROJECT.json "findings":

1. `draft_tokens_lost`: accepted drafts do not reach the worker's cached state, which matters as soon as the request leaves the batch for a step (`gpu_model_runner.py:415`).
2. `rpc_stale_answer`: collective_rpc raises at the first failed or late answer and leaves the others in the response queues. A utility call's exception does not end the engine, so a later call takes them for its own (`multiproc_executor.py:184`).
3. `dp_early_abort`: a request that is aborted in the same pass over the input queue in which it arrived leaves its engine asleep, while the client has started the wave on all others; they wait for it in their dummy batch, and the requests they get later do not end (`core.py:672`, whose comment says "All engines are idle.").

More come out of the same modules when the constants of a run are changed as said:

| Change | Violated | What happens |
|---|---|---|
| `engine` with `MaxBatches = 2` | `FinishedReachWorker` | an empty batch is never executed with a batch queue, and the finished ids in it never reach the worker (`core.py:232`) |
| the same | `NoReqDataLeak` | the output of a batch in flight puts the data object of an aborted request back (`scheduler.py:744`) once the next schedule() has emptied finished_req_ids |
| `engine` with `MaxBatches = 2`, `MaxNumScheduledTokens = 3` | `ReadsOwnPrefix` | a request is preempted in a batch that is empty and so never executed (`core.py:232`), and resumed in the next. Its row is still in the persistent batch, so the worker appends the new block ids to the old ones, and the row reads and writes wrong blocks (`gpu_model_runner.py:438`; the comment at 321-325 has preempted requests removed) |
| the images of `variants` (`MCPromptImages`, `MCImages`, `MCReqs2`, `EncoderCacheSize = 5`, `MaxNumEncoderInputTokens = 4`, `MaxModelLen = 8`, `MaxNumScheduledTokens = 4`, `LongPrefill = 2`) with `MaxBatches = 2` | `EncoderAccountTrue` | the ids of released images that an empty batch carries never reach the worker, which keeps their outputs until the request ends |
| the same with `MaxBatches = 1`, `EncoderCacheSize = 3`, `NumGpuBlocks = 6`, `LongPrefill = 0` | `ScheduleFindsWork` | a preempted request keeps the space of an image it has not finished (`scheduler.py:225`); when its cached blocks are gone it needs an earlier image too, for which no space is left: the engine schedules nothing any more |
| the same | `EncoderCacheFits` | each image planned in a call is held against the whole free space (`scheduler.py:603`), so two together overdraw the cache, against the docstring's "The encoder cache has space to store it." (`scheduler.py:559`) |
| `engine` with `LongPrefill = 1` | `PrefillReturnsNothing` | the worker does not know the last sampled token of a preempted request and samples from a partial prefill (`gpu_model_runner.py:1155`) |
| `engine` with `LongPrefill = 1`, `NumGpuBlocks = 4`, `Prompt` `<<1, 1, 1>>`, `<<1>>`, `<<1>>`, `MaxTokens` `<<3, 5, 4>>`, `Vocab = {1}`, `StopTokens = {}` | `ReadsOwnPrefix` | the same cause, followed further: a prompt shorter than a block has no hash at its first admission, and a request preempted with a full block of tokens gets it at its second. It resumes with a part of its tokens, at whose end the worker samples a token that nobody expects, and is preempted again and resumed with a hit that reaches beyond what the worker knows of it, so the worker's token list has a gap |
| `engine` with `MaxBatches = 2`, `MCReqs2`, `MaxNumScheduledTokens = 4`, `MaxLoras = 1`, `Lora` and `ExtraKeys` `MCTwoLoras`, `NumGpuBlocks = 9`, `MaxModelLen = 8`, `MCPromptLong` | `NoAssertionFailure` | running requests that are not scheduled are not counted for max_loras; a later batch has too many adapters and asserts (`scheduler.py:287`) |
| `draft_tokens_lost` with `Vocab = {1}` | `NoAssertionFailure` | drafts cut by the budget make the number of cached blocks go back, then an assertion of the pool fails (`kv_cache_manager.py:280`) |
| `engine` with `SpecMethod = "eagle"`, `UseEagle`, `NumSpecTokens = NumLookahead = 2`, `MaxNumScheduledTokens = 12`, `NumGpuBlocks = 9` | `NoAssertionFailure` | the lookahead slots of a request near max_model_len ask for more blocks than it may have, and `assert num_new_blocks > 0` fails (`kv_cache_manager.py:263`) |
| the same with `MCReqs2`, `NumSpecTokens = NumLookahead = 1`, `SlidingWindow = 3`, `MaxModelLen = 8`, `MCPromptLong` | `NoAssertionFailure` | the hit from which the last block was dropped ends with a null block, and caching after it fails (`block_pool.py:116`) |
| `liveness` with `NumGpuBlocks = 3`, `MaxModelLen = 6`, `MCReqs1` | `EveryRequestEnds` | the null block makes a pool that was accepted as large enough too small by one block (`block_pool.py:57`) |
| `streaming_cache` with `RecentSize = 4` | `SpaceReserved` | more tokens come than the recent window holds, and the cache is larger than its size (`streaming_kv_cache.py:137`) |
| `executor` with `EarlyDeaths = TRUE` | `FailureStopsEngine` | a worker dies between the test of is_failed and the assignment of the callback, and nobody tells the engine (`multiproc_executor.py:137`) |
| `dp_waves` with `EmptySteps = TRUE` | `CollectivesMatch` | a step that schedules nothing makes no forward pass but is counted, so this engine is in the all-reduce while the others are in a forward pass; the comment at `core.py:611-612` says that the step makes one |
| `front_end` with `Suspends = TRUE` | `EndsComplete` | where sending to the engine suspends the task, the first completion may finish before the second is created, and the stream ends with one (`parallel_sampling.py:109`) |

Observed by reading, without a property: when all requests are aborted with
batches in flight, the busy loop waits for new input and the batches stay unserved; the null block
counts as evictable in the admission test with sliding windows; the option
`enable_streaming` never reaches the attention selector
(`attention/selector.py:89`), so the streaming backend is not chosen by it;
`qwen3_streaming.py:75-82` rotates query and key by the same clamped position
when they are written, although its docstring (line 55) says that key positions are
actual cache positions, so beyond the cache size all keys share a place; the LLaMA adapter's
clamp puts a query one below its own key in the loop of eval_long_ppl.py once the
cache is full, which the original does not; the same adapter looks for
attention layers with `q_proj`, and vLLM's have `qkv_proj`; a reader whose recv times out after it has
marked an overflow block (`shm_broadcast.py:486`) takes that object in
place of the next; a caller that drops generate() between two outputs raises
GeneratorExit, which no clause catches (`async_llm.py:311`), so its request runs
to its end.

## Proofs

All proofs hold for every value of the constants that the modules' ASSUMEs
admit. They use SMT, Zenon and PTL only.

**`EngineCore_proofs`: `QueuesMatchStatusAlways`.** For any set of requests,
any pool, any budgets, any number of batches in flight and any speculation:
no request is in two places or twice in one, between calls the queues are
those of the statuses, and requests outside the running list hold no blocks and
have no count of cached blocks. The property is not inductive, because inside
a call requests are in local lists (put aside by schedule(), or already
passed by update_from_output()), and in the middle of update_from_output()
`self.running` still names requests that are gone. The inductive invariant
`QueueInv` has five parts: `Shapes` (the little typing that is needed),
`NoRepetition` (also for the local lists), `StatusesMatch` (live requests are
the ones running or kept so far, requests in line the ones waiting or put
aside), `BlocksHeldByLive`, and `UpdateKeeps` (update_from_output() only drops
requests). There is one lemma per action, and `KVCacheManager_proofs` supplies
what the manager's operators leave alone: allocation for one request never
touches another's blocks, `Free` removes exactly its own, a lookup only stores
hashes.

**`EngineCore_proofs`: `NoReqDataLeakAlways`, `FinishedReachWorkerAlways`.** Assuming
`MaxBatches = 1`, for any requests, pool and budgets (the table above shows that both
fail with a batch queue). `GoneInv` adds to the two properties what makes them
inductive (`BatchOfLive`): a request does not go while its batch is put together, and one
that goes while its batch is evaluated is in `finished_req_ids` until the next
batch; so put-back data objects and the requests that the worker learns of belong to
requests that are there. That a scheduled request is there comes from `QueueInv`.

**`EngineCore_proofs`: `PoolConsistentAlways`, `CommonPrefixSharedAlways`.** Assuming full
attention (`SlidingWindow = 0`), for any requests, pool, budgets, batches in flight,
adapters, images and drafts. The invariant `KVInv` adds two parts to `QueueInv`. `Numbers`: what a
request, a scheduled request and a batch count are integers; in a batch queue a count of
computed tokens may go below zero for a while, so this asks no more. `ManagerInv`, about
the manager alone: the pool is sound (`PoolInv`: the free queue has the blocks without
references, each once, and the prefix cache has a block under its hash and
under no other), a reference count is the number of requests that hold the block
(`RefCountsExact`), no request holds the null block, and blocks have places:

- `Chain`: the i-th hash of a request is that of i * BlockSize tokens, so hashes at two places differ;
- `Placed`: a block is at the same place in the lists of all requests that hold it, and if it is cached its hash is one of that place.

`PoolConsistent` does not say this and is not inductive without it: a hit looks
up the hashes of one request one after the other and touches the blocks it finds. That these are
different blocks, so that no reference is counted twice and no block comes twice into
one list, follows from their places alone. `KVCacheManager_proofs` has one lemma for each
operation of the manager (`get_computed_blocks`, `allocate_slots`, `free`,
`reset_prefix_cache`) and of the pool under it; in
`EngineCore_proofs` the scheduler's actions only call them. `CommonPrefixShared` follows: a block
with as many references as running requests is held by all of them, and by `Placed` at
one place.

A sliding window is excluded because it replaces blocks by the null block, so
a list holds one block several times and a hit skips blocks whose hash is not cached: the same
argument needs `Placed` for all blocks but this one. There `PoolConsistent` is
model-checked (`VariantsPoolConsistent`).

**`EngineCore_proofs`: `NoAssertionFailureAlways`.** No assertion of schedule(),
allocate_slots() or cache_full_blocks() fails, for any requests, pool, block size, budgets,
images and batches in flight, with or without prefix caching. `AssertInv` says, on top of `KVInv`, what the assertions rest on:

- `Fits`: a request has at most `MaxModelLen` tokens, no more hashes than full blocks of tokens, and no more computed tokens than tokens; one that is not running starts anew;
- `WithinLimits`: the budget is not overdrawn, no more requests run than may, and no request is scheduled twice in a call;
- `FullBlocksCached`: as many blocks of a running request are cached as its computed tokens fill (`AdvancedTo` counts the tokens of the step being put together), so the blocks to be cached next are those that are not;
- `NoDraftsInFlight`.

The hypotheses `Plain` are there because the table above has a failing assertion
for drafts, for lookahead slots, for a LoRA limit, and for a window (with drafts).
A window without drafts stays with TLC for the reason above.

**`EngineCore_proofs`: `ReadsOwnPrefixAlways`.** A scheduled token attends only to KV entries of its own
request's tokens, whatever was shared, evicted, preempted and resumed before: the correctness of the
whole cache, from the hashes over the block lists to the contents of the blocks. For any requests, pool,
block size, budgets, images, grammars and vocabulary, with or without prefix caching and chunked
prefills. The hypotheses `Plain` are those of the assertions; every batch is waited for
(`MaxBatches = 1`), and with prefix caching a prompt fills a block at least. For both the table
above shows that the property fails without it.

The property speaks of one moment, the batch about to be run, and of the worker, which hears of the scheduler's
decisions through the batch only. `ReadInv`, on top of `KVInv` and `AssertInv`, says at every point of a step
how far the two may be apart:

- `KVOwn`, the manager: the hashes of a request and of the blocks it holds are those of its own tokens (`OwnHashes`); a block held by two requests is cached, and one of them at least has it computed (`SharedComputed`), so two requests never write one slot in a batch; there is a block for every position (`EnoughBlocks`); and a request that was ever admitted has a hash (`HashesKnown`, which is what the length of the prompts is needed for);
- `Mirror`, the worker's copy: an entry of the batch says what the scheduler has (`OutTrue`); the tokens the worker knows of a request are a prefix of its tokens that covers the computed ones and, together with the batch, those of all hashed blocks (`Known`); its block lists and rows are the manager's up to this batch (`BlocksMirrored`); a preempted request keeps its row for one batch at most, in which none is resumed (`RowsOfRunning`, the reason why the code's in-place resumption is harmless here); who is to be dropped is gone (`FinishedOver`);
- `DataTrue`, the contents: a slot of a cached block has the entry its hash stands for, a slot of a running request's computed position the entry of that position (`CachedData`, `OwnData`), or the batch being put together is going to write it (`Pending`). A block gets its hash when it is allocated, before anything is in it, so this disjunct is what makes the invariant inductive.

When the batch is run, `ForwardPassFacts` says what it leaves, by induction over the layers that the model of the pass has:
if the rows are true (`RowsTrue`) and no slot has two writers (`OneWriter`), every scheduled position is
written with the entry of its own prefix, and the slots nobody schedules stay. A request that is
scheduled behind a shared block whose computation is in the same batch reads an entry that is written in it, which is
why the order of the layers matters. `DataNowFacts` puts this together with `Mirror`: what was pending is now there. TLC
checked `ReadInv` as an invariant of the `engine` run before the proof was attempted.

**`EngineCore_proofs`: `NoOvertakingAlways`, `LineKeepsOrderAlways`.** First come, first served:
no step of any kind changes the order of two requests in `running \o waiting`, for any pool, budgets, drafts and batches in flight, when no
request needs a grammar and there is no LoRA limit (otherwise requests that are put aside are
overtaken on purpose). Besides `QueueInv` this needs `KeptInOrder`: inside update_from_output() the requests
kept so far are in the order of the list they replace. `MoveKeepsQueue` has a case for each step that
moves a request; preemption takes the last one of the running list and admission the first one of the waiting
queue, so neither changes the two together (`LastApart`). With grammars and LoRA limits, for all constants, `LineKeepsOrderAlways` says
the same of the requests put aside and waiting: the general form of what `variants` checks as `AsideKeepsOrder`.

**`FreeKVCacheBlockQueue_proofs`.** For any number of blocks
a block outside the list has no links into it, so it can be linked in again without
damage (`DetachedAlways`). The invariant `LinkInv` says which blocks may be without a predecessor
or successor: those at the ends, and those outside. `TypeOKAlways` adds that
`num_free_blocks`, which allocation is decided by, is the number of free blocks.

Links alone do not exclude a cycle beside the list, so `ListConsistentAlways` and
`RefinesBlockQueueAlways` need the order of the list: `Spells(s)` says that
the links are those of the sequence `s` of all free blocks, each once. `UnlinkSpells`
and `LinkLastSpells` say what removal and appending do to `s` (it loses one
place, `Skip`, or gains one), and `WalkSpells`, an induction over the set of places where the
walk and `s` agree, that the recursive function the refinement mapping uses
computes just this `s`. The queue operations then are the abstract ones on `s`.

**`ShmRingBuffer_proofs`: `NoOverwriteWhileReadAlways`.** For any number of readers,
blocks and objects, big or small. The property holds because of two flags:
`FlagInv` says that a block being written is marked as not written, that a block being
read is written and not marked as read by this reader, and that what a reader has seen
of its own flag is still so, because only the reader itself sets it
and the writer clears it before it writes the block. `WritableMeansRead`: as many flags as
readers are the flags of all readers.

**`ShmRingBuffer_proofs`: `RefinesBroadcastAlways`.** For any number of local and
remote readers, blocks and objects: every step of the ring and its sockets is a
step of the channel or none. The flags say when a block may be touched, not
what is in it, so `RingInv` adds to `FlagInv` where every object is. `Place` gives the block of the k-th object by
counting back from the writer's index. `Counts` and `BlockInHand` say
how far the writer is; `BlocksHold`, that a block in the ring holds its object (or
says that the socket has it) and is marked by just the readers that have taken it;
`ReadersInRing`, that a reader is at the block of its next object, at most a ring behind the writer
(one block less while the writer writes: this is why the writer waits for all flags);
`SocketsInOrder`, that a subscription has still to deliver, in order, b"READY"
and then those objects the reader has not taken that went over the socket: all of a remote reader, the
big ones of a local reader; `ReadersInOrder`, that what a reader has
got are the first objects. The hard case is a reader that has marked an overflow
block and not yet received the object: the block may be written again while the object
is on the socket only.

**`DPWaves_proofs`: `CollectivesMatchAlways`.** For any number of engines and
requests and any `SyncEvery`, assuming `~EmptySteps` (the table above
shows that this is needed). `Count(e)` is the counter of `e` once its current
step is counted; `LockStep` says that all engines have the same count, that engines in
the all-reduce have just started over, that an engine in the all-reduce is with others that
are before it in the same step, and that an engine which has counted a step its peer has not
was not to reduce in it. Forward moves all engines at once, the other steps move one.

**`DPWaves_proofs`: `PauseIsKnownAlways`.** For any number of engines and requests,
assuming `~EarlyAborts` (`dp_early_abort` shows that this is needed: there a wave starts
that nobody ends). The property speaks of states in which all messages have
arrived, so `WavesInv` must say for every message on the way what it
will do. `WavesAgree`: engines differ in their wave by at most a pause that some have seen, no message is of a
later wave than its sender's, and what the client will know of the wave once engine 0's message has arrived
is the engines' wave. `Requests`: a request is in one place (a queue to an engine, unfinished there, or done), is added once and aborted only
after its first output. `RunsOn`: an engine with a request that was in a step runs by itself, with
or without the client. `Decided`: what an engine tells the all-reduce is so, and engines pause
only without requests. `WaveKnown`: if an engine is in the wave the client takes the engines for
running or a message that tells it so is coming, and if that is so some engine is in the wave or
about to be.

**`MultiprocExecutor_proofs`: `AnswersOwnCallAlways`.** For any number of workers and
calls and any deaths, assuming `~UtilitiesRaise` (`rpc_stale_answer` shows that this is needed). A worker owes an answer in one of
three places: a call it has not read, a call it executes, an answer
not yet taken. `Mail` says that before a call is sent no worker owes anything (`Quiet`), and that
during a call each owes at most one answer, to this call (`OwesOwn`), and none once the engine has
passed its rank. It does not hold of an engine that failed, which calls no more.

**`StreamingKVCache_proofs`.** `TypeOKAlways`, `SinksAndRecentAlways`,
`EvalKeepsAllAlways`, `PortAgreesAlways`, and under the assumption that prompt and
answer fit in the recent window (needed: with `RecentSize = 4` the run `streaming_cache` violates it, [Disagreements found](#disagreements-found))
`SpaceReservedAlways` and `EvictsOnlyForSpaceAlways`, all from one invariant that
describes the cache by its length alone. `QueriesAtTheirKeysAlways` needs that prompt and
answer fit in the recent window together (`MaxPrompt + MaxGenLen <= RecentSize`): the query of a
token is clamped to the last place of the cache, and its key is there only if
the turn never fills the cache beyond its size.

**`FrontEnd_proofs`: `StreamFaithfulAlways`, `EndsCompleteAlways`, `NoOrphansAlways`.** For
any requests, numbers of completions, output kinds and lengths; `None` and the marker of a
dead engine are assumed to differ from outputs. A caller's tokens may
be with the caller, in the slot of its collector or in the aggregator of its parent,
so `FrontInv` speaks of what the caller has once it empties the slot (`Has`): `Faithful` says
that this is what was made (`Joined` describes the merge, which is associative, so it
does not matter when the caller comes), `Aggregated` the same of the aggregator, whose
completions all have ended. `Lists` ties `childRequests` of a parent to
`request_states`, `Fresh` says that a child which generate() has not added yet has left no trace, and `LeavesItsLast` that a
child which ended by itself has left its last completion. `Mail` says that a child is
sent to the engine once, that nothing is sent about it before, and that no output says a
child has finished which the engine still has: therefore an output never
comes for the wrong child. `WorkIsWanted` is the second part of `NoOrphans`. All this holds with and without
`Suspends`. What a stream's last output promises (`Ending`: no child is left, and the caller has every completion)
needs `~Suspends`, as the table above shows: otherwise a first completion can finish before the second is
known. There `Ending` is inductive relative to `FrontInv`, because a parent cannot lose its last child while
generate() is still adding them.

**`KVCacheManager_proofs`.** What the operators that the engine is built
from do: removing members of a sequence keeps the order and the others (`WithoutLast`,
`FewerElements` bound the length of the running list by it), and the lemmas named above.

Only model-checked:

- everything under fairness (liveness is beyond the prover);
- what the hypotheses above leave out and the table does not refute: sliding windows; drafts that the budget never cuts, for the assertions and `ReadsOwnPrefix`; `ReadsOwnPrefix` with batches in flight and with a LoRA limit (all in `variants`);
- `OutputContinues` and `PrefillReturnsNothing` of the stages and chunks, and the encoder cache against the worker's images (`ImagesInStep`): no theorem states them.

## Not modelled

Attention kernels, models, sampling, tokenizers, API server: numerical or I/O
code. The V0 engine: V1 is the serving core of this version. KV connectors:
off by default. The encoder of
multimodal inputs (its cache is modelled). The
Qwen3 adapter: one stateless clamp. One-time wiring (config, loader,
selector; start-up of workers and its READY pipes; creation of queues over a process group): no state that evolves. Statistics and
logging: no property. The order of rows in the persistent batch (condense,
swaps for the attention backend): a row is found by its request's id in the
model. Request ids used twice: the front end makes them unique.
Detokenization and log probabilities of the output processor: data. In the
ring, a timeout of recv after an overflow block was marked, because the only
timed dequeue is that of the response queues, where it ends the engine.

## Plan

Done, in this order: the free queue and its refinement; pool, manager,
scheduler, runner and engine; their runs; the streaming cache and the positions of
the LLaMA adapter; the shared-memory queue; the
executor; data-parallel waves; the front end; the encoder cache; the proofs above.

Next, modelling:

1. KV connector hooks of the scheduler, if they become a default.
2. A run for request ids used again and one for stale batches with three stages, if a promise of the code for them is found.

Next, proofs:

1. `ReadsOwnPrefix` with drafts that the budget never cuts, which changes `Known` (the worker's row has the drafts) and `OutTrue`, and for pipelines in which no batch with a preemption is empty.
2. `PoolConsistent` with a sliding window: `Placed` for all blocks but the null block.

