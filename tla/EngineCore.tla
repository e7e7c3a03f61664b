------------------------------ MODULE EngineCore ------------------------------
(***************************************************************************)
(* vllm/v1/engine/core.py: the engine loop around the scheduler and the    *)
(* model runner.                                                           *)
(*                                                                         *)
(* With MaxBatches = 1 a turn of the loop is step(): schedule, execute,    *)
(* update.  With more it is step_with_batch_queue() for a pipeline of that *)
(* many stages: while the queue of batches in flight is not full and the   *)
(* scheduler finds work, batches are only submitted; otherwise the oldest  *)
(* batch is waited for.  The stages run the batches in the order of their  *)
(* submission, so what a batch does to the runner's state is done when it  *)
(* is submitted, and the tokens it yields are chosen when it is waited     *)
(* for.                                                                    *)
(***************************************************************************)
EXTENDS Scheduler, ModelRunner

CONSTANT MaxBatches       \* batch_queue_size, 1: no batch queue

ASSUME EngineAssumption == MaxBatches \in Nat \ {0}

VARIABLES runner,         \* the model runner of the workers
          batches         \* batch_queue, the oldest batch first

vars == <<kv, encoder, req, waiting, running, finishedIds, reqData,
          grammarReady, step, dead, runner, batches>>

Init == /\ SchedInit
        /\ runner = InitRunner
        /\ batches = << >>

HasRequests == HasUnfinished \/ finishedIds # {}

External ==
  /\ \E r \in Reqs : AddRequest(r) \/ GrammarCompiled(r) \/ FinishRequests(r)
  /\ UNCHANGED <<runner, batches>>

Reset == ResetPrefixCacheCall /\ UNCHANGED <<runner, batches>>

\* step() and step_with_batch_queue() up to their call of schedule()
StartStep ==
  /\ HasRequests
  /\ MaxBatches > 1 => Len(batches) < MaxBatches
  /\ BeginSchedule
  /\ UNCHANGED <<runner, batches>>

\* The queue is full: wait for the oldest batch at once.
StartUpdate ==
  /\ Idle
  /\ HasRequests
  /\ MaxBatches > 1
  /\ Len(batches) = MaxBatches
  /\ step' = [NoStep EXCEPT !.pc = "update", !.i = 1]
  /\ UNCHANGED <<kv, encoder, req, waiting, running, finishedIds, reqData,
                 grammarReady, dead, runner, batches>>

Scheduling == ScheduleStep /\ UNCHANGED <<runner, batches>>

\* What update_from_output will need of a batch
Batch(o) ==
  LET after == Execute(runner, o)
  IN  [r \in DOMAIN o.out |->
         LET e == o.out[r]
         IN  [kind |-> e.kind, spec |-> FedDrafts(after.rows[r], e),
              sampled |-> IsSampled(after.known, r, e),
              upto |-> e.start + e.n - Len(e.spec)]]

\* step() executes every batch, an empty one too.
SubmitAndWait ==
  /\ MaxBatches = 1
  /\ EndSchedule("update")
  /\ runner' = Execute(runner, SchedulerOutput)
  /\ batches' = <<Batch(SchedulerOutput)>>

\* step_with_batch_queue() executes the batch if anything was scheduled;
\* otherwise it waits for the oldest batch, if there is one.
Submit ==
  /\ MaxBatches > 1
  /\ DOMAIN step.out # {}
  /\ EndSchedule("idle")
  /\ runner' = Execute(runner, SchedulerOutput)
  /\ batches' = Append(batches, Batch(SchedulerOutput))

NothingScheduled ==
  /\ MaxBatches > 1
  /\ DOMAIN step.out = {}
  /\ EndSchedule(IF batches = << >> THEN "idle" ELSE "update")
  /\ UNCHANGED <<runner, batches>>

Oldest == batches[1]

UpdateUnscheduled ==
  /\ InUpdateLoop
  /\ Current \notin DOMAIN Oldest
  /\ UpdateSkip
  /\ UNCHANGED <<runner, batches>>

UpdateScheduled ==
  /\ InUpdateLoop
  /\ Current \in DOMAIN Oldest
  /\ \E generated \in Generated(Oldest[Current].spec, Oldest[Current].sampled) :
       \E drafts \in Drafts(generated, Len(req[Current].tokens) + Len(generated)) :
          UpdateRequest(Oldest[Current], generated, drafts)
  /\ UNCHANGED <<runner, batches>>

FinishUpdate ==
  /\ EndUpdate(Oldest)
  /\ batches' = Tail(batches)
  /\ UNCHANGED runner

\* One thread, so one of these is what the engine does next, unless a failed
\* assertion has ended it.
EngineStep == /\ ~ dead
              /\ \/ StartStep \/ StartUpdate \/ Scheduling
                 \/ SubmitAndWait \/ Submit \/ NothingScheduled
                 \/ UpdateUnscheduled \/ UpdateScheduled \/ FinishUpdate

Next == External \/ Reset \/ EngineStep

Spec == Init /\ [][Next]_vars

-----------------------------------------------------------------------------
Statuses == {"unborn", "waiting_fsm", "waiting", "running", "preempted",
             "finished", "aborted"}

Pcs == {"idle", "running", "waiting", "end", "update"}

\* The types of the engine's state. Only the null block's count is not a
\* natural number: its reference count is not maintained.
TypeOK ==
  /\ DOMAIN kv.pool.ref = Blocks
  /\ \A b \in Blocks \ {NullBlock} : kv.pool.ref[b] \in Nat
  /\ DOMAIN kv.pool.hash = Blocks
  /\ kv.pool.free \in Seq(Blocks)
  /\ kv.blocks \in [Reqs -> Seq(Blocks)]
  /\ kv.ncached \in [Reqs -> Nat \cup {Absent}]
  /\ \A r \in Reqs : /\ req[r].status \in Statuses
                     /\ req[r].tokens \in Seq(Nat)
                     /\ req[r].computed \in 0 .. MaxModelLen
  /\ waiting \in Seq(Reqs) /\ running \in Seq(Reqs)
  /\ reqData \in [Reqs -> Nat]
  /\ encoder.free \in Int /\ DOMAIN encoder = {"cached", "free", "freed"}
  /\ finishedIds \subseteq Reqs /\ grammarReady \subseteq Reqs
  /\ step.pc \in Pcs
  /\ dead \in BOOLEAN
  /\ DOMAIN runner.known \subseteq Reqs
  /\ Len(batches) <= MaxBatches

\* No assertion of the scheduler, the KV cache manager or the block pool
\* fails: the engine process survives every schedule.
NoAssertionFailure == ~ dead

\* Free queue, reference counts and prefix cache agree with each other and
\* with the block lists of the requests.
PoolConsistent ==
  /\ FreeQueueExact(kv.pool)
  /\ CacheExact(kv.pool)
  /\ RefCountsExact(kv)

\* A request is in one queue at most, the one its status says (between the
\* loops that move requests), and holds blocks only while it runs.
QueuesMatchStatus ==
  /\ IsInjective(running) /\ IsInjective(waiting)
  /\ Range(running) \cap Range(waiting) = {}
  /\ \A r \in Reqs : r \notin Range(running) =>
                       kv.blocks[r] = << >> /\ kv.ncached[r] = Absent
  /\ step.pc = "idle" => \A r \in Reqs :
       /\ r \in Range(running) <=> req[r].status = "running"
       /\ r \in Range(waiting) <=>
            req[r].status \in {"waiting_fsm", "waiting", "preempted"}

\* Whatever was shared, evicted, preempted and resumed before, a scheduled
\* token attends only to KV entries of its own request's tokens.
ReadsOwnPrefix ==
  step.pc = "end" =>
    ReadsOwn(runner, SchedulerOutput, [r \in Reqs |-> req[r].tokens])

\* The cascade-attention prefix reported to the worker really is common to
\* all running requests.
CommonPrefixShared ==
  step.pc = "end" =>
    \A r \in Range(running) : \A i \in 1 .. SchedulerOutput.common :
       kv.blocks[r][i] = kv.blocks[running[1]][i]

\* update_from_output: "if a request is still being prefilled, we expect the
\* model runner to return empty token ids for the request."
PrefillReturnsNothing ==
  step.pc = "end" =>
    \A r \in DOMAIN step.out :
      LET e == step.out[r]
          o == SchedulerOutput
      IN  e.start + e.n < Len(req[r].tokens) =>
            ~ IsSampled(KnownAfter(runner.known, o), r, e)

\* A token sampled for a request continues the tokens the request has when
\* the token is appended.
OutputContinues ==
  (InUpdateLoop /\ Current \in DOMAIN Oldest /\ Oldest[Current].sampled)
    => Oldest[Current].upto = Len(req[Current].tokens)

\* The worker forgets the requests that finished: scheduler.py, "This is used
\* to notify the workers about the finished requests so that they can free
\* the cached states for those requests."
FinishedReachWorker ==
  \A r \in DOMAIN runner.known :
    req[r].status \in {"finished", "aborted"} => r \in finishedIds

\* scheduler.py: "since we free stopped reqs above, adding stopped reqs to
\* _cached_reqs_data will cause a memory leak": a request that is gone keeps no
\* object there.
NoReqDataLeak ==
  \A r \in Reqs : req[r].status \in {"finished", "aborted"} => reqData[r] = 0

\* All requests, in the order they will be scheduled in
Queue == running \o waiting
Before(r, s) == \E i, j \in DOMAIN Queue : i < j /\ Queue[i] = r /\ Queue[j] = s

\* First come, first served: no request overtakes another one, by preemption,
\* resumption or admission (in configurations that never put requests aside).
NoOvertaking ==
  [][\A r, s \in Range(Queue) \cap Range(Queue') : Before(r, s) => Before(r, s)']_vars

\* The requests put aside in this call of schedule() and the waiting ones, in the
\* order they will be in
Line == Reversed(step.skipped) \o waiting
Ahead(r, s) == \E i, j \in DOMAIN Line : i < j /\ Line[i] = r /\ Line[j] = s

\* The scheduler's account of the encoder outputs is true: between two calls
\* the worker has just those the scheduler counts as cached or is going to tell
\* it to drop, none of them belongs to a request that is gone, and the free
\* slots are what they leave (in configurations without a batch queue).
EncoderAccountTrue ==
  step.pc \in {"idle", "update"} =>
    /\ runner.images = encoder.cached \cup encoder.freed
    /\ encoder.cached \cap encoder.freed = {}
    /\ \A p \in encoder.cached : req[p[1]].status \notin {"finished", "aborted"}
    /\ encoder.free = EncoderCacheSize - TotalTokens(encoder.cached)

\* gpu_model_runner.py: "assert i in self.encoder_cache[req_id]": the output of
\* each image that scheduled tokens are part of is there when they are computed.
WorkerHasImages ==
  step.pc = "end" =>
    \A r \in DOMAIN step.out :
      ImagesRead(r, step.out[r]) \subseteq Execute(runner, SchedulerOutput).images

\* schedule() comes up with nothing only if there is nothing to do, or after a
\* preemption: otherwise the next call would do the same again, and so on
\* (without a batch queue).
ScheduleFindsWork ==
  (step.pc = "end" /\ DOMAIN step.out = {}) => step.preempted \/ ~ HasUnfinished

\* scheduler.py: "The encoder cache has space to store it." of every encoder
\* input that is scheduled.
EncoderCacheFits == encoder.free >= 0

\* The engine keeps taking steps while it has requests.
Fairness == WF_vars(EngineStep)
FairSpec == Spec /\ Fairness

\* Every request that was added ends, by its own stop condition or aborted,
\* however often it is preempted.
EveryRequestEnds ==
  \A r \in Reqs : req[r].status = "waiting" ~> req[r].status \in {"finished", "aborted"}
=============================================================================
