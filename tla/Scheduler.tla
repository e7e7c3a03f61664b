------------------------------ MODULE Scheduler ------------------------------
(***************************************************************************)
(* vllm/v1/core/sched/scheduler.py: continuous batching over the paged KV  *)
(* cache.                                                                  *)
(*                                                                         *)
(* The engine is one thread, so nothing interleaves with a call of         *)
(* schedule() or update_from_output(); but both are loops, and one turn of *)
(* a loop is one action here.  "step" is the local state of the call in    *)
(* progress (its pc is "idle" between calls), and add_request,             *)
(* finish_requests and reset_prefix_cache wait for it to return.  A failed *)
(* assertion kills the engine: "dead".                                     *)
(*                                                                         *)
(* An image in a prompt is a run of tokens that stand for its contents     *)
(* (the code hashes them with the blocks they are in).                     *)
(*                                                                         *)
(* Left out: the KV connector, statistics and logprobs.                    *)
(***************************************************************************)
EXTENDS KVCacheManager, EncoderCacheManager

CONSTANTS
  Prompt,                \* request -> its prompt_token_ids
  MaxTokens,             \* request -> sampling_params.max_tokens
  Lora,                  \* request -> lora_int_id, 0 for none
  FsmReqs,               \* the requests with use_structured_output
  StopTokens,            \* eos_token_id and stop_token_ids
  MaxNumRunningReqs,     \* max_num_seqs
  MaxNumScheduledTokens, \* max_num_batched_tokens
  LongPrefill,           \* long_prefill_token_threshold, 0: off
  MaxLoras,              \* lora_config.max_loras, 0: no lora_config
  NumLookahead,          \* num_lookahead_tokens
  MaxNumEncoderInputTokens, \* what the encoder may compute in a step
  DisableChunkedMMInput  \* disable_chunked_mm_input

ASSUME SchedulerAssumption ==
  /\ \A r \in Reqs : /\ Prompt[r] \in Seq(Nat)
                     /\ Len(Prompt[r]) \in 1 .. MaxModelLen
                     /\ MaxTokens[r] \in Nat \ {0}
                     /\ Lora[r] \in Nat
                     /\ MMPositions[r] \in Seq([offset : Nat, length : Nat \ {0}])
                     /\ \A i \in DOMAIN MMPositions[r] :
                          /\ ImageEnd(r, i) <= Len(Prompt[r])
                          /\ NumEncoderTokens(r, i) <= EncoderCacheSize
                          /\ NumEncoderTokens(r, i) <= MaxNumEncoderInputTokens
                          /\ DisableChunkedMMInput =>
                               NumEncoderTokens(r, i) <= MaxNumScheduledTokens
                          /\ i > 1 => ImageEnd(r, i - 1) <= Offset(r, i)
  /\ FsmReqs \subseteq Reqs
  /\ MaxNumRunningReqs \in Nat \ {0}
  /\ MaxNumScheduledTokens \in Nat \ {0}
  /\ LongPrefill \in Nat /\ MaxLoras \in Nat /\ NumLookahead \in Nat
  /\ EncoderCacheSize \in Nat /\ MaxNumEncoderInputTokens \in Nat
  /\ DisableChunkedMMInput \in BOOLEAN

VARIABLES
  kv,            \* kv_cache_manager
  encoder,       \* encoder_cache_manager
  req,           \* self.requests; "unborn" before add_request, "finished" or
                 \* "aborted" once deleted from the dict
  waiting,       \* self.waiting
  running,       \* self.running
  finishedIds,   \* self.finished_req_ids
  reqData,       \* _cached_reqs_data: how many objects each request's deque holds
  grammarReady,  \* requests whose structured_output_request.grammar is set
  step,          \* locals of the call in progress
  dead           \* an assertion failed

schedVars == <<kv, encoder, req, waiting, running, finishedIds, reqData,
               grammarReady, step, dead>>

Gone(status) == [status |-> status, tokens |-> << >>, computed |-> 0, spec |-> << >>]

NoStep == [pc |-> "idle", i |-> 0, budget |-> 0, out |-> [r \in {} |-> 0],
           preempted |-> FALSE, skipped |-> << >>, keep |-> << >>]

SchedInit ==
  /\ kv = InitManager
  /\ encoder = InitEncoderCache
  /\ req = [r \in Reqs |-> Gone("unborn")]
  /\ waiting = << >>
  /\ running = << >>
  /\ finishedIds = {}
  /\ reqData = [r \in Reqs |-> 0]
  /\ grammarReady = {}
  /\ step = NoStep
  /\ dead = FALSE

Idle == step.pc = "idle" /\ ~ dead

NumOutputTokens(r) == Len(req[r].tokens) - Len(Prompt[r])

HasUnfinished == waiting # << >> \/ running # << >>

-----------------------------------------------------------------------------
\* Calls from outside, between two engine steps

\* add_request
AddRequest(r) ==
  /\ Idle
  /\ req[r].status = "unborn"
  /\ req' = [req EXCEPT ![r] =
               [status |-> IF r \in FsmReqs THEN "waiting_fsm" ELSE "waiting",
                tokens |-> Prompt[r], computed |-> 0, spec |-> << >>]]
  /\ waiting' = Append(waiting, r)
  /\ UNCHANGED <<encoder, kv, running, finishedIds, grammarReady, step, dead,
                 reqData>>

\* The grammar compiler's future is done (it runs in its own thread).
GrammarCompiled(r) ==
  /\ r \in FsmReqs \ grammarReady
  /\ req[r].status = "waiting_fsm"
  /\ grammarReady' = grammarReady \cup {r}
  /\ UNCHANGED <<encoder, kv, req, waiting, running, finishedIds, step, dead,
                 reqData>>

\* A release that leaves the blocks to the cache only.
ReleasedHashesOnly(m, r) == FreeBlockHashes(m, r)

\* _free_request: what is left of the manager
Released(m, r) == FreeBlockHashes(Free(m, r), r)

\* finish_requests(r, FINISHED_ABORTED); an id that is not there is ignored.
FinishRequests(r) ==
  /\ Idle
  /\ req[r].status \in {"waiting_fsm", "waiting", "running", "preempted"}
  /\ IF req[r].status = "running"
     THEN running' = Without(running, {r}) /\ waiting' = waiting
     ELSE waiting' = Without(waiting, {r}) /\ running' = running
  /\ req' = [req EXCEPT ![r] = Gone("aborted")]
  /\ kv' = Released(kv, r)
  /\ finishedIds' = finishedIds \cup {r}
  /\ encoder' = FreeImages(encoder, r)
  /\ reqData' = [reqData EXCEPT ![r] = 0]
  /\ UNCHANGED <<grammarReady, step, dead>>

\* reset_prefix_cache, when it succeeds; otherwise it changes nothing.
ResetPrefixCacheCall ==
  /\ Idle
  /\ CanResetPrefixCache(kv.pool)
  /\ kv' = ResetCache(kv)
  /\ UNCHANGED <<encoder, req, waiting, running, finishedIds, grammarReady,
                 step, dead, reqData>>

-----------------------------------------------------------------------------
\* The images of the requests scheduled

\* What is left of the encoder's budget in this step
EncoderBudget ==
  LET planned == UNION {{<<r, i>> : i \in step.out[r].inputs} : r \in DOMAIN step.out}
  IN  MaxNumEncoderInputTokens - TotalTokens(planned)

\* The images of r with tokens among the n from position start on, whose
\* outputs are not in the cache
MissingImages(r, start, n) ==
  {i \in DOMAIN MMPositions[r] : /\ Offset(r, i) < start + n
                                 /\ ImageEnd(r, i) > start
                                 /\ ~ HasCache(encoder, r, i)}

\* Those that may not be cut, or have no room behind the ones before them
StuckImages(r, start, n, missing) ==
  {i \in missing :
     \/ /\ DisableChunkedMMInput
        /\ start < Offset(r, i)
        /\ start + n < ImageEnd(r, i)
     \/ ~ CanAllocate(encoder, r, i)
     \/ TotalTokens({<<r, j>> : j \in {k \in missing : k <= i}}) > EncoderBudget}

\* The images before the first stuck one, and the tokens before it
PlanUpTo(r, start, n, missing, stuck) ==
  [inputs |-> {i \in missing : \A j \in stuck : i < j},
   n |-> IF stuck = {} THEN n
         ELSE LET first == CHOOSE i \in stuck : \A j \in stuck : i <= j
              IN  Larger(0, Offset(r, first) - start)]

PlanOfMissing(r, start, n, missing) ==
  PlanUpTo(r, start, n, missing, StuckImages(r, start, n, missing))

\* _try_schedule_encoder_inputs: the images of r to be encoded for n tokens from
\* position start on, and how many of these tokens can be computed
EncoderPlan(r, start, n) ==
  PlanOfMissing(r, start, n, MissingImages(r, start, n))

\* The planned images get their space once the request is scheduled.
WithImages(r, plan) == Allocate(encoder, {<<r, i>> : i \in plan.inputs})

-----------------------------------------------------------------------------
\* schedule(), first loop: the RUNNING requests

BeginSchedule ==
  /\ Idle
  /\ step' = [NoStep EXCEPT !.pc = "running", !.i = 1,
                            !.budget = MaxNumScheduledTokens]
  /\ UNCHANGED <<encoder, kv, req, waiting, running, finishedIds, grammarReady,
                 dead, reqData>>

InRunningLoop == /\ step.pc = "running"
                 /\ step.i <= Len(running)
                 /\ step.budget > 0

\* The long prefill threshold and the token budget applied to n
Limited(n) ==
  Smaller(IF 0 < LongPrefill /\ LongPrefill < n THEN LongPrefill ELSE n,
          step.budget)

\* A count of new tokens that forgets the drafts.
RunningNewTokensNoDrafts(q) ==
  Smaller(Limited(Len(q.tokens) - q.computed), MaxModelLen - q.computed)

\* num_new_tokens of a running request
RunningNewTokens(q) ==
  Smaller(Limited(Len(q.tokens) + Len(q.spec) - q.computed),
          MaxModelLen - q.computed)

Current == running[step.i]

RunningPlan ==
  EncoderPlan(Current, req[Current].computed, RunningNewTokens(req[Current]))

\* Nothing to schedule: all its tokens are in batches in flight, or its next
\* image finds no room.
SkipRunning ==
  /\ InRunningLoop
  /\ RunningPlan.n = 0
  /\ step' = [step EXCEPT !.i = @ + 1]
  /\ UNCHANGED <<encoder, kv, req, waiting, running, finishedIds, grammarReady,
                 dead, reqData>>

RunningAllocation ==
  AllocateSlots(kv, Current, req[Current], RunningPlan.n, << >>, NumLookahead)

\* All drafts scheduled, however few tokens there is room for.
TrimmedSpecNot(q, n) == q.spec

\* The scheduled draft tokens: as many as the budget left room for
TrimmedSpec(q, n) ==
  LET room == n + q.computed - Len(q.tokens)
  IN  IF room > 0 THEN SubSeq(q.spec, 1, Smaller(room, Len(q.spec))) ELSE << >>

\* What the scheduler output says of a request: n tokens from position start
\* (spec, the last of them, are drafts), the block ids the worker has to
\* append ("running") or take over ("new", "resumed"), the images to encode, and
\* token ids: the prompt of a new request, the tokens to compute of the others.
Scheduled(q, kind, start, plan, ids, spec) ==
  LET n == plan.n IN
  [kind |-> kind, start |-> start, n |-> n, ids |-> ids, spec |-> spec,
   inputs |-> plan.inputs,
   tokens |-> IF kind = "new" THEN q.tokens
              ELSE SubSeq(q.tokens, start + 1,
                          Smaller(start + n - Len(spec), Len(q.tokens)))]

WithScheduled(out, r, entry) ==
  [s \in DOMAIN out \cup {r} |-> IF s = r THEN entry ELSE out[s]]

\* The current request is scheduled for plan.n tokens, as far as res allows.
ScheduleCurrent(plan, res) ==
  LET q == req[Current]
      spec == TrimmedSpec(q, plan.n)
  IN  /\ plan.n # 0
      /\ res.outcome # "full"
      /\ dead' = (res.outcome = "assert")
      /\ kv' = res.m
      /\ encoder' = WithImages(Current, plan)
      /\ req' = IF spec = << >> THEN req ELSE [req EXCEPT ![Current].spec = spec]
      /\ step' = [step EXCEPT
                    !.i = @ + 1,
                    !.budget = @ - plan.n,
                    !.out = WithScheduled(@, Current,
                              Scheduled(q, "running", q.computed, plan, res.blocks,
                                        spec))]
      /\ UNCHANGED <<waiting, running, finishedIds, grammarReady, reqData>>

ScheduleRunning ==
  InRunningLoop /\ ScheduleCurrent(RunningPlan, RunningAllocation)

\* A preemption that takes the oldest request.
VictimFirst == running[1]

\* The last of the running requests, the lowest-priority one
Victim == running[Len(running)]

\* The state a preempted request returns to "waiting" with
Preempted(q) == [q EXCEPT !.status = "preempted", !.computed = 0]

\* No space for the current request: preempt one and try again, unless it was
\* the current one itself; then it was the last, and the loop is over.
Preempt ==
  LET v == Victim
      res == RunningAllocation
  IN  /\ InRunningLoop
      /\ RunningPlan.n # 0
      /\ res.outcome = "full"
      /\ running' = Without(running, {v})
      /\ waiting' = <<v>> \o waiting
      /\ req' = [req EXCEPT ![v] = Preempted(@)]
      /\ kv' = Free(res.m, v)
      /\ step' = [step EXCEPT !.preempted = TRUE]
      /\ UNCHANGED <<encoder, finishedIds, grammarReady, dead, reqData>>

\* scheduled_loras: those of the scheduled running and admitted requests
ScheduledLoras == {Lora[r] : r \in DOMAIN step.out} \ {0}

\* The adapters in use are counted; new requests are admitted only if none was
\* preempted.
EndRunningLoop ==
  /\ step.pc = "running"
  /\ ~ (step.i <= Len(running) /\ step.budget > 0)
  /\ step' = [step EXCEPT !.pc = IF step.preempted THEN "end" ELSE "waiting"]
  /\ dead' = (MaxLoras > 0 /\ Cardinality(ScheduledLoras) > MaxLoras)
  /\ UNCHANGED <<encoder, kv, req, waiting, running, finishedIds, grammarReady,
                 reqData>>

-----------------------------------------------------------------------------
\* schedule(), second loop: the WAITING requests

InWaitingLoop == /\ step.pc = "waiting"
                 /\ waiting # << >>
                 /\ step.budget > 0
                 /\ Len(running) # MaxNumRunningReqs

First == waiting[1]

AwaitsGrammar(r) == req[r].status = "waiting_fsm" /\ r \notin grammarReady

ExceedsLoras(r) == /\ MaxLoras > 0
                   /\ Lora[r] # 0
                   /\ Cardinality(ScheduledLoras) = MaxLoras
                   /\ Lora[r] \notin ScheduledLoras

\* Put aside until the loop is over
SkipWaiting ==
  /\ InWaitingLoop
  /\ AwaitsGrammar(First) \/ ExceedsLoras(First)
  /\ waiting' = Tail(waiting)
  /\ step' = [step EXCEPT !.skipped = <<First>> \o @]
  /\ req' = IF req[First].status = "waiting_fsm" /\ First \in grammarReady
            THEN [req EXCEPT ![First].status = "waiting"] ELSE req
  /\ UNCHANGED <<encoder, kv, running, finishedIds, grammarReady, dead,
                 reqData>>

Admissible == InWaitingLoop /\ ~ AwaitsGrammar(First) /\ ~ ExceedsLoras(First)

Hits == GetComputedBlocks(kv, First, req[First])

WaitingNewTokens ==
  Limited(Len(req[First].tokens) - Len(Hits) * BlockSize)

\* num_computed_tokens of the admitted request
StartAfterHits == Len(Hits) * BlockSize

\* A plan that looks for the images from the prompt's first token on.
WaitingPlanFromZero == EncoderPlan(First, 0, WaitingNewTokens)

WaitingPlan == EncoderPlan(First, StartAfterHits, WaitingNewTokens)

WaitingAllocation ==
  AllocateSlots(AfterLookup(kv, First, req[First]), First, req[First],
                WaitingPlan.n, Hits, NumLookahead)

\* The first waiting request is scheduled for plan.n tokens after its hits, as
\* far as res allows.
AdmitFirst(plan, res) ==
  LET q == req[First]
      kind == IF q.status = "preempted" THEN "resumed" ELSE "new"
  IN  /\ WaitingNewTokens <= 0 \/ (plan.n # 0 /\ res.outcome # "full")
      /\ dead' = (WaitingNewTokens <= 0 \/ res.outcome = "assert")
      /\ kv' = res.m
      /\ encoder' = WithImages(First, plan)
      /\ waiting' = Tail(waiting)
      /\ running' = Append(running, First)
      /\ req' = [req EXCEPT ![First].status = "running",
                            ![First].computed = StartAfterHits]
      /\ step' = [step EXCEPT
                    !.budget = @ - plan.n,
                    !.out = WithScheduled(@, First,
                              Scheduled(q, kind, StartAfterHits, plan,
                                        Hits \o res.blocks, << >>))]
      /\ UNCHANGED <<finishedIds, grammarReady, reqData>>

AdmitWaiting == Admissible /\ AdmitFirst(WaitingPlan, WaitingAllocation)

\* No space: the requests behind wait too.
AdmissionFull ==
  LET r == First
      res == WaitingAllocation
  IN  /\ Admissible
      /\ WaitingNewTokens > 0
      /\ WaitingPlan.n # 0
      /\ res.outcome = "full"
      /\ kv' = res.m
      /\ req' = IF req[r].status = "waiting_fsm"
                THEN [req EXCEPT ![r].status = "waiting"] ELSE req
      /\ step' = [step EXCEPT !.pc = "end"]
      /\ UNCHANGED <<encoder, waiting, running, finishedIds, grammarReady,
                     dead, reqData>>

\* The image its first token is in finds no room: the requests behind wait too.
AdmissionAwaitsEncoder ==
  LET r == First
  IN  /\ Admissible
      /\ WaitingNewTokens > 0
      /\ WaitingPlan.n = 0
      /\ kv' = AfterLookup(kv, r, req[r])
      /\ req' = IF req[r].status = "waiting_fsm"
                THEN [req EXCEPT ![r].status = "waiting"] ELSE req
      /\ step' = [step EXCEPT !.pc = "end"]
      /\ UNCHANGED <<encoder, waiting, running, finishedIds, grammarReady, dead,
                     reqData>>

EndWaitingLoop ==
  /\ step.pc = "waiting"
  /\ ~ (waiting # << >> /\ step.budget > 0 /\ Len(running) # MaxNumRunningReqs)
  /\ step' = [step EXCEPT !.pc = "end"]
  /\ UNCHANGED <<encoder, kv, req, waiting, running, finishedIds, grammarReady,
                 dead, reqData>>

-----------------------------------------------------------------------------
\* schedule(), end: the output is built and the requests advance.

\* A put-back in the order they were skipped in.
PutBackReversed(skipped, ws) == skipped \o ws

\* extendleft puts the skipped ones back, reversing them a second time.
PutBack(skipped, ws) == Reversed(skipped) \o ws

SchedulerOutput ==
  [out |-> step.out,
   finished |-> finishedIds,
   freed |-> encoder.freed,
   common |-> IF running = << >> THEN 0
              ELSE NumCommonPrefixBlocks(kv, running[1], Len(running))]

\* The request's num_computed_tokens advances before the batch has run.
Advanced(q, n) == [q EXCEPT !.computed = @ + n]

\* The constraints asserted at the end of schedule()
EndAsserts ==
  /\ step.budget >= 0
  /\ Len(running) <= MaxNumRunningReqs
  /\ Cardinality(DOMAIN step.out) <= Len(running)

\* scheduled_cached_reqs: the output's entries for requests known before; their
\* CachedRequestData objects are taken from the request's deque if it has any.
CachedEntries(out) == {r \in DOMAIN out : out[r].kind # "new"}

EndSchedule(pc) ==
  /\ step.pc = "end"
  /\ dead' = ~ EndAsserts
  /\ waiting' = PutBack(step.skipped, waiting)
  /\ req' = [r \in Reqs |-> IF r \in DOMAIN step.out
                            THEN Advanced(req[r], step.out[r].n) ELSE req[r]]
  /\ finishedIds' = {}
  /\ reqData' = [r \in Reqs |-> IF r \in CachedEntries(step.out)
                                THEN Larger(0, reqData[r] - 1) ELSE reqData[r]]
  /\ step' = [NoStep EXCEPT !.pc = pc, !.i = 1]
  /\ encoder' = FreedTold(encoder)
  /\ UNCHANGED <<kv, running, grammarReady>>

-----------------------------------------------------------------------------
\* update_from_output(), one request of self.running at a time; "entry" is
\* what the batch holds for it

\* check_stop after the tokens have been appended
Stops(r, tokens) ==
  \/ Len(tokens) >= MaxModelLen
  \/ Len(tokens) - Len(Prompt[r]) >= MaxTokens[r]
  \/ tokens[Len(tokens)] \in StopTokens

\* Appending stops at the first token that ends the request.
StopAt(r, q, generated) ==
  {k \in 1 .. Len(generated) : Stops(r, q.tokens \o SubSeq(generated, 1, k))}

InUpdateLoop == step.pc = "update" /\ step.i <= Len(running)

UpdateSkip ==
  /\ step' = [step EXCEPT !.i = @ + 1, !.keep = Append(@, Current)]
  /\ UNCHANGED <<encoder, kv, req, waiting, running, finishedIds, grammarReady,
                 dead, reqData>>

\* num_computed_tokens without the rejected draft tokens
Verified(q, entry, generated) ==
  IF entry.spec = << >> THEN q
  ELSE [q EXCEPT !.computed = @ - (Len(entry.spec) + 1 - Len(generated))]

UpdateRequest(entry, generated, drafts) ==
  LET r == Current
      q == [Verified(req[r], entry, generated) EXCEPT !.spec = drafts]
      kept == FreeProcessedImages(encoder, r, q.computed)
  IN  /\ IF StopAt(r, q, generated) = {}
         THEN /\ req' = [req EXCEPT ![r] = [q EXCEPT !.tokens = @ \o generated]]
              /\ step' = [step EXCEPT !.i = @ + 1, !.keep = Append(@, r)]
              /\ encoder' = kept
              /\ UNCHANGED <<kv, finishedIds, reqData>>
         ELSE /\ req' = [req EXCEPT ![r] = Gone("finished")]
              /\ kv' = Released(kv, r)
              /\ encoder' = FreeImages(kept, r)
              /\ finishedIds' = finishedIds \cup {r}
              /\ reqData' = [reqData EXCEPT ![r] = 0]
              /\ step' = [step EXCEPT !.i = @ + 1]
      /\ UNCHANGED <<waiting, running, grammarReady, dead>>

\* A return of every object, the finished requests' too.
Reusable(out) == CachedEntries(out)

\* The objects that go back to the deques: not those of requests freed above.
Returned(out) == CachedEntries(out) \ finishedIds

EndUpdate(out) ==
  /\ step.pc = "update"
  /\ step.i > Len(running)
  /\ running' = step.keep
  /\ reqData' = [r \in Reqs |-> IF r \in Returned(out) THEN reqData[r] + 1
                                ELSE reqData[r]]
  /\ step' = NoStep
  /\ UNCHANGED <<encoder, kv, req, waiting, finishedIds, grammarReady, dead>>

-----------------------------------------------------------------------------
\* Every turn of a loop of schedule() but the last
ScheduleStep ==
  \/ SkipRunning \/ ScheduleRunning \/ Preempt
  \/ EndRunningLoop
  \/ SkipWaiting \/ AdmitWaiting \/ AdmissionFull \/ AdmissionAwaitsEncoder
  \/ EndWaitingLoop
=============================================================================
