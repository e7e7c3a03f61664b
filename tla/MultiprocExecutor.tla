-------------------------- MODULE MultiprocExecutor --------------------------
(***************************************************************************)
(* The executor of the engine core and its worker processes                *)
(* (vllm/v1/executor/multiproc_executor.py): collective_rpc broadcasts a   *)
(* call and takes the workers' answers in the order of their ranks, from   *)
(* one response queue per worker.  A thread of the executor watches the    *)
(* workers and shuts everything down when one of them dies.                *)
(*                                                                         *)
(* The caller is the engine core's process: step() calls execute_model,    *)
(* which only rank 0 answers and whose exceptions end the engine; between  *)
(* steps it serves utility calls of the client to all of the workers,      *)
(* whose exceptions it returns to the client.  The queues are those that   *)
(* ShmRingBuffer implements: FIFO, nothing lost or duplicated.             *)
(***************************************************************************)
EXTENDS Integers, Sequences

CONSTANTS WorldSize,
          UtilitiesRaise,   \* utility calls may time out or fail in a worker
          EarlyDeaths,      \* workers may die before the callback is registered
          MaxCalls          \* bound: collective_rpc calls

ASSUME ExecutorAssumption ==
  /\ WorldSize \in Nat \ {0} /\ MaxCalls \in Nat
  /\ UtilitiesRaise \in BOOLEAN /\ EarlyDeaths \in BOOLEAN

Ranks == 0 .. WorldSize - 1
Calls == [id : 1 .. MaxCalls, rank0Only : BOOLEAN, timeout : BOOLEAN]
NoCall == [id |-> 0, rank0Only |-> FALSE, timeout |-> FALSE]

VARIABLES broadcast,    \* rpc_broadcast_mq, what each worker has not read
          responses,    \* worker_response_mq of each worker
          worker,       \* per worker, "idle", "dead" or the call it executes
          engine,       \* the thread that calls: step, calls so far, call, rank, answers
          monitor,      \* MultiprocWorkerMonitor
          isFailed, shuttingDown, shutdownEvent,
          responsesGone, rpcGone,   \* the queues were set to None
          callback,     \* failure_callback is set
          reports       \* EXECUTOR_FAILED entries put into the input queue

flags == <<isFailed, shuttingDown, shutdownEvent, responsesGone, rpcGone>>
vars == <<broadcast, responses, worker, engine, monitor, flags, callback, reports>>

Init ==
  /\ broadcast = [k \in Ranks |-> << >>]
  /\ responses = [k \in Ranks |-> << >>]
  /\ worker = [k \in Ranks |-> [pc |-> "idle", call |-> NoCall]]
  /\ engine = [pc |-> "register", calls |-> 0, call |-> NoCall, rank |-> 0, answers |-> << >>]
  /\ monitor = "watch"
  /\ isFailed = FALSE /\ shuttingDown = FALSE /\ shutdownEvent = FALSE
  /\ responsesGone = FALSE /\ rpcGone = FALSE
  /\ callback = FALSE /\ reports = 0

-----------------------------------------------------------------------------
(* worker_busy_loop *)

TakeCall(k) ==
  /\ worker[k].pc = "idle" /\ broadcast[k] # << >>
  /\ worker' = [worker EXCEPT ![k] = [pc |-> "run", call |-> Head(broadcast[k])]]
  /\ broadcast' = [broadcast EXCEPT ![k] = Tail(@)]
  /\ UNCHANGED <<responses, engine, monitor, flags, callback, reports>>

MayFail(call) == call.rank0Only \/ UtilitiesRaise

\* Every worker answers, whoever was asked.
RepliesAll(k, call) == TRUE

Replies(k, call) == ~call.rank0Only \/ k = 0

\* The method returned, or raised and the exception is the answer.
FinishCall(k) ==
  LET call == worker[k].call
  IN  /\ worker[k].pc = "run"
      /\ worker' = [worker EXCEPT ![k] = [pc |-> "idle", call |-> NoCall]]
      /\ \E ok \in BOOLEAN :
           /\ ok \/ MayFail(call)
           /\ responses' = IF Replies(k, call)
                           THEN [responses EXCEPT ![k] = Append(@, [ok |-> ok, id |-> call.id])]
                           ELSE responses
      /\ UNCHANGED <<broadcast, engine, monitor, flags, callback, reports>>

\* The process dies unexpectedly.
Die(k) ==
  /\ worker[k].pc # "dead"
  /\ EarlyDeaths \/ engine.pc \notin {"register", "set_callback"}
  /\ worker' = [worker EXCEPT ![k] = [pc |-> "dead", call |-> NoCall]]
  /\ UNCHANGED <<broadcast, responses, engine, monitor, flags, callback, reports>>

SomeDead == \E k \in Ranks : worker[k].pc = "dead"

-----------------------------------------------------------------------------
(* The engine core's thread *)

Raised(pc) == [engine EXCEPT !.pc = pc, !.call = NoCall, !.rank = 0, !.answers = << >>]

\* An exception in step() ends the busy loop, one in a utility call does not.
Raise == engine' = Raised(IF engine.call.rank0Only THEN "dead" ELSE "idle")

\* register_failure_callback, its test
Register ==
  /\ engine.pc = "register"
  /\ IF isFailed THEN reports' = reports + 1 /\ engine' = [engine EXCEPT !.pc = "idle"]
                 ELSE reports' = reports /\ engine' = [engine EXCEPT !.pc = "set_callback"]
  /\ UNCHANGED <<broadcast, responses, worker, monitor, flags, callback>>

\* register_failure_callback, its assignment
SetCallback ==
  /\ engine.pc = "set_callback"
  /\ callback' = TRUE
  /\ engine' = [engine EXCEPT !.pc = "idle"]
  /\ UNCHANGED <<broadcast, responses, worker, monitor, flags, reports>>

\* step() calls execute_model, or a utility call is served.
BeginCall ==
  /\ engine.pc = "idle" /\ engine.calls < MaxCalls
  /\ \E call \in Calls :
       /\ call.id = engine.calls + 1
       /\ call.rank0Only => call.timeout
       /\ ~call.rank0Only /\ call.timeout => UtilitiesRaise
       /\ engine' = [engine EXCEPT !.pc = "check", !.calls = @ + 1, !.call = call]
  /\ UNCHANGED <<broadcast, responses, worker, monitor, flags, callback, reports>>

\* collective_rpc: the test of is_failed
CheckFailed ==
  /\ engine.pc = "check"
  /\ IF isFailed THEN Raise ELSE engine' = [engine EXCEPT !.pc = "enqueue"]
  /\ UNCHANGED <<broadcast, responses, worker, monitor, flags, callback, reports>>

SendCall ==
  /\ engine.pc = "enqueue"
  /\ IF rpcGone THEN Raise /\ UNCHANGED broadcast
     ELSE /\ broadcast' = [k \in Ranks |-> Append(broadcast[k], engine.call)]
          /\ engine' = [engine EXCEPT !.pc = "next"]
  /\ UNCHANGED <<responses, worker, monitor, flags, callback, reports>>

LastRank == IF engine.call.rank0Only THEN 0 ELSE WorldSize - 1

\* The loop over the workers, up to the start of dequeue
NextWorker ==
  /\ engine.pc = "next"
  /\ IF engine.rank > LastRank THEN engine' = Raised("idle")
     ELSE IF responsesGone THEN Raise
     ELSE engine' = [engine EXCEPT !.pc = "dequeue"]
  /\ UNCHANGED <<broadcast, responses, worker, monitor, flags, callback, reports>>

\* dequeue returns an answer; a failure is raised at once, whatever the
\* workers of higher rank still answer.
Dequeue ==
  /\ engine.pc = "dequeue" /\ responses[engine.rank] # << >>
  /\ LET answer == Head(responses[engine.rank])
     IN  IF answer.ok
         THEN engine' = [engine EXCEPT !.pc = "next", !.rank = @ + 1,
                                       !.answers = Append(@, answer.id)]
         ELSE Raise
  /\ responses' = [responses EXCEPT ![engine.rank] = Tail(@)]
  /\ UNCHANGED <<broadcast, worker, monitor, flags, callback, reports>>

\* A wait that does not look at the cancel event.
GivesUpTimeoutOnly == engine.call.timeout

GivesUp == engine.call.timeout \/ shutdownEvent

\* dequeue times out or is cancelled
DequeueFails ==
  /\ engine.pc = "dequeue" /\ responses[engine.rank] = << >> /\ GivesUp
  /\ Raise
  /\ UNCHANGED <<broadcast, responses, worker, monitor, flags, callback, reports>>

\* The busy loop finds EXECUTOR_FAILED in its input queue.
HandleFailed ==
  /\ engine.pc = "idle" /\ reports > 0
  /\ engine' = Raised("dead")
  /\ reports' = reports - 1
  /\ UNCHANGED <<broadcast, responses, worker, monitor, flags, callback>>

Terminate == worker' = [k \in Ranks |-> [pc |-> "dead", call |-> NoCall]]

\* The end of run_engine_core: Executor.shutdown
EngineShutdown ==
  /\ engine.pc = "dead"
  /\ engine' = [engine EXCEPT !.pc = "over"]
  /\ IF shuttingDown THEN UNCHANGED <<worker, shuttingDown, shutdownEvent, responsesGone>>
     ELSE /\ Terminate
          /\ shuttingDown' = TRUE /\ shutdownEvent' = TRUE /\ responsesGone' = TRUE
  /\ rpcGone' = TRUE
  /\ UNCHANGED <<broadcast, responses, monitor, isFailed, callback, reports>>

-----------------------------------------------------------------------------
(* monitor_workers *)

MonitorSees ==
  /\ monitor = "watch" /\ SomeDead
  /\ IF shuttingDown THEN monitor' = "done" /\ UNCHANGED isFailed
                     ELSE monitor' = "shutdown" /\ isFailed' = TRUE
  /\ UNCHANGED <<broadcast, responses, worker, engine, shuttingDown, shutdownEvent,
                 responsesGone, rpcGone, callback, reports>>

\* shutdown(): the event, and the queues that are given up first
MonitorShutsDown ==
  /\ monitor = "shutdown"
  /\ shuttingDown' = TRUE /\ shutdownEvent' = TRUE /\ responsesGone' = TRUE
  /\ monitor' = IF shuttingDown THEN "callback" ELSE "terminate"
  /\ UNCHANGED <<broadcast, responses, worker, engine, isFailed, rpcGone,
                 callback, reports>>

MonitorTerminates ==
  /\ monitor = "terminate"
  /\ Terminate
  /\ rpcGone' = TRUE
  /\ monitor' = "callback"
  /\ UNCHANGED <<broadcast, responses, engine, isFailed, shuttingDown, shutdownEvent,
                 responsesGone, callback, reports>>

\* A monitor that takes the callback away before it looks for it.
ReportedTooLate == reports

\* The callback puts EXECUTOR_FAILED into the engine's input queue.
Reported == IF callback THEN reports + 1 ELSE reports

MonitorCallsBack ==
  /\ monitor = "callback"
  /\ reports' = Reported
  /\ callback' = FALSE
  /\ monitor' = "done"
  /\ UNCHANGED <<broadcast, responses, worker, engine, flags>>

-----------------------------------------------------------------------------
Worker(k) == TakeCall(k) \/ FinishCall(k)

Engine == \/ Register \/ SetCallback \/ CheckFailed \/ SendCall \/ NextWorker \/ Dequeue
          \/ DequeueFails \/ HandleFailed \/ EngineShutdown

Monitor == MonitorSees \/ MonitorShutsDown \/ MonitorTerminates \/ MonitorCallsBack

Next == Engine \/ Monitor \/ BeginCall \/ \E k \in Ranks : Worker(k) \/ Die(k)

Spec == Init /\ [][Next]_vars

\* The threads run; a worker finishes its call as long as all of them live
\* (the forward pass is collective); calls come and workers die or do not.
FairSpec ==
  /\ Spec /\ WF_vars(Engine) /\ WF_vars(Monitor)
  /\ \A k \in Ranks : WF_vars(~SomeDead /\ Worker(k))
-----------------------------------------------------------------------------
EngineSteps == {"register", "set_callback", "idle", "check", "enqueue", "next", "dequeue",
                "dead", "over"}

\* Calls and answers travel in the queues, and the ranks asked are workers.
TypeOK ==
  /\ broadcast \in [Ranks -> Seq(Calls)]
  /\ responses \in [Ranks -> Seq([ok : BOOLEAN, id : 1 .. MaxCalls])]
  /\ worker \in [Ranks -> [pc : {"idle", "run", "dead"}, call : Calls \cup {NoCall}]]
  /\ \A k \in Ranks : worker[k].pc = "run" => worker[k].call \in Calls
  /\ engine \in [pc : EngineSteps, calls : 0 .. MaxCalls, call : Calls \cup {NoCall},
                 rank : 0 .. WorldSize, answers : Seq(1 .. MaxCalls)]
  /\ engine.pc \in {"check", "enqueue", "next", "dequeue"} => engine.call \in Calls
  /\ engine.pc = "dequeue" => engine.rank \in Ranks
  /\ monitor \in {"watch", "shutdown", "terminate", "callback", "done"}
  /\ isFailed \in BOOLEAN /\ shuttingDown \in BOOLEAN /\ shutdownEvent \in BOOLEAN
  /\ responsesGone \in BOOLEAN /\ rpcGone \in BOOLEAN /\ callback \in BOOLEAN
  /\ reports \in Nat

\* The answers collective_rpc collects are answers to the call it sent: the
\* response queues do not say which call an answer belongs to, so no answer
\* of an earlier call may be left in one of them.
AnswersOwnCall == \A k \in DOMAIN engine.answers : engine.answers[k] = engine.call.id

\* Every collective_rpc returns or raises, although workers die while it
\* waits for them without a timeout.
CallsEnd ==
  engine.pc \in {"check", "enqueue", "next", "dequeue"}
    ~> engine.pc \in {"idle", "dead", "over"}

\* "If any die unexpectedly ... invokes the failure callback to inform the
\* engine": when a worker dies the engine comes to its end, also if it is
\* waiting for requests and calls nobody.
FailureStopsEngine == SomeDead ~> engine.pc = "over"
=============================================================================
