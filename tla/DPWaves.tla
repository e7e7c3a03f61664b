------------------------------ MODULE DPWaves ------------------------------
(***************************************************************************)
(* Data-parallel engines: DPEngineCoreProc (vllm/v1/engine/core.py) and    *)
(* its client DPAsyncMPClient (vllm/v1/engine/core_client.py).             *)
(*                                                                         *)
(* The forward pass is a collective of all engines, so all run while one   *)
(* has requests, those without any on dummy batches; every SyncEvery steps *)
(* they agree whether anybody still has requests, and if not they pause.   *)
(* A run from pause to pause is a wave.  Requests that arrive while the    *)
(* engines decide to pause carry the number of the old wave.               *)
(*                                                                         *)
(* A message from the client to an engine or back is in a FIFO of its own; *)
(* the client takes the engines' outputs in any order among engines.       *)
(***************************************************************************)
EXTENDS Integers, Sequences, FiniteSets

CONSTANTS NumEngines,   \* data_parallel_size
          Reqs,
          SyncEvery,    \* 24 in _has_global_unfinished_reqs
          Steps,        \* how many steps each request takes
          EarlyAborts,  \* a request may be aborted before its first output
          EmptySteps    \* a step may find nothing to schedule (grammars that
                        \* compile), and then makes no forward pass

ASSUME WavesAssumption ==
  /\ NumEngines \in Nat \ {0} /\ SyncEvery \in Nat \ {0} /\ Steps \in [Reqs -> Nat \ {0}]
  /\ EarlyAborts \in BOOLEAN /\ EmptySteps \in BOOLEAN

Engines == 0 .. NumEngines - 1
Nowhere == -1

VARIABLES wave, running,    \* the client's current_wave and engines_running
          inFlight,         \* reqs_in_flight: the engine of a request, or Nowhere
          added, started,   \* requests sent; those whose output has come
          aborted,
          input, output,    \* messages to and from each engine
          pc,               \* where each engine's busy loop is
          engineWave,       \* current_wave, engines_running and counter
          enginesRunning,   \* of each engine
          counter,
          left,             \* unfinished requests, with the steps they still take
          finished,         \* finished_req_ids
          batch,            \* the requests scheduled in the current step
          localUnfinished,  \* local_unfinished_reqs
          verdict           \* what the last all-reduce said

client == <<wave, running, inFlight, added, started, aborted>>
loop == <<pc, engineWave, enginesRunning, counter, batch, localUnfinished, verdict>>
work == <<left, finished>>
vars == <<client, loop, work, input, output>>

Init ==
  /\ wave = 0 /\ running = FALSE
  /\ inFlight = [q \in Reqs |-> Nowhere]
  /\ added = {} /\ started = {} /\ aborted = {}
  /\ input = [e \in Engines |-> << >>]
  /\ output = [e \in Engines |-> << >>]
  /\ pc = [e \in Engines |-> "wait"]
  /\ engineWave = [e \in Engines |-> 0]
  /\ enginesRunning = [e \in Engines |-> FALSE]
  /\ counter = [e \in Engines |-> 0]
  /\ left = [e \in Engines |-> [q \in Reqs |-> 0]]
  /\ finished = [e \in Engines |-> {}]
  /\ batch = [e \in Engines |-> {}]
  /\ localUnfinished = [e \in Engines |-> FALSE]
  /\ verdict = FALSE

Unfinished(e) == {q \in Reqs : left[e][q] > 0}
HasRequests(e) == Unfinished(e) # {} \/ finished[e] # {}

-----------------------------------------------------------------------------
(* The client *)

NumInFlight(e) == Cardinality({q \in Reqs : inFlight[q] = e})

\* get_core_engine_for_request: the first of those with the fewest requests
Chosen == CHOOSE e \in Engines : \A f \in Engines :
            NumInFlight(e) < NumInFlight(f) \/ (NumInFlight(e) = NumInFlight(f) /\ e <= f)

StartWave(w) == [kind |-> "start_wave", wave |-> w]

\* The waves are started on every engine but one.
WithStart(queues, except, w) ==
  [e \in Engines |-> IF e = except THEN queues[e] ELSE Append(queues[e], StartWave(w))]

\* add_request_async
ClientAdd(q) ==
  /\ q \notin added
  /\ added' = added \cup {q}
  /\ inFlight' = [inFlight EXCEPT ![q] = Chosen]
  /\ LET sent == [input EXCEPT ![Chosen] =
                    Append(@, [kind |-> "add", req |-> q, wave |-> wave])]
     IN  input' = IF running THEN sent ELSE WithStart(sent, Chosen, wave)
  /\ running' = TRUE
  /\ UNCHANGED <<wave, started, aborted, output, loop, work>>

\* abort_requests_async, for a request the client still counts
ClientAbort(q) ==
  /\ inFlight[q] # Nowhere /\ q \notin aborted
  /\ EarlyAborts \/ q \in started
  /\ aborted' = aborted \cup {q}
  /\ input' = [input EXCEPT ![inFlight[q]] = Append(@, [kind |-> "abort", req |-> q])]
  /\ UNCHANGED <<wave, running, inFlight, added, started, output, loop, work>>

\* A start that tells the client nothing: of an old wave, or of the running one
NothingNew(w) == w < wave \/ (w = wave /\ running)

\* Its outputs: requests that have ended are in flight no longer.
ReceiveOutputs(msg) ==
  /\ inFlight' = [q \in Reqs |-> IF q \in msg.finished THEN Nowhere ELSE inFlight[q]]
  /\ started' = started \cup msg.scheduled
  /\ UNCHANGED <<wave, running, input>>

ReceiveComplete(msg) ==
  /\ IF wave <= msg.wave THEN wave' = msg.wave + 1 /\ running' = FALSE
                         ELSE UNCHANGED <<wave, running>>
  /\ UNCHANGED <<inFlight, started, input>>

ReceiveStart(e, msg) ==
  /\ IF NothingNew(msg.wave)
     THEN UNCHANGED <<wave, running, input>>
     ELSE /\ wave' = msg.wave /\ running' = TRUE
          /\ input' = WithStart(input, e, msg.wave)
  /\ UNCHANGED <<inFlight, started>>

\* process_engine_outputs
ClientReceive(e) ==
  LET msg == Head(output[e])
  IN  /\ output[e] # << >>
      /\ output' = [output EXCEPT ![e] = Tail(@)]
      /\ CASE msg.kind = "outputs" -> ReceiveOutputs(msg)
           [] msg.kind = "wave_complete" -> ReceiveComplete(msg)
           [] msg.kind = "start_wave" -> ReceiveStart(e, msg)
      /\ UNCHANGED <<added, aborted, loop, work>>

-----------------------------------------------------------------------------
(* An engine takes a message *)

\* An engine that does not tell the client of a request for an old wave.
AnswersOldWaveNever(e, w) == FALSE

AnswersOldWave(e, w) == w < engineWave[e] /\ ~enginesRunning[e]

Later(w, v) == IF w > v THEN w ELSE v

\* add_request
HandleAdd(e, msg) ==
  /\ engineWave' = [engineWave EXCEPT ![e] = Later(msg.wave, @)]
  /\ output' = IF AnswersOldWave(e, msg.wave)
               THEN [output EXCEPT ![e] = Append(@, StartWave(engineWave[e]))]
               ELSE output
  /\ left' = [left EXCEPT ![e][msg.req] = Steps[msg.req]]
  /\ UNCHANGED <<enginesRunning, finished>>

\* abort_requests, of a request that may be gone
HandleAbort(e, msg) ==
  /\ finished' = IF left[e][msg.req] > 0
                 THEN [finished EXCEPT ![e] = @ \cup {msg.req}] ELSE finished
  /\ left' = [left EXCEPT ![e][msg.req] = 0]
  /\ UNCHANGED <<output, engineWave, enginesRunning>>

\* An engine that starts whatever wave it is told to.
StartsAny(e, w) == TRUE

Starts(e, w) == w >= engineWave[e]

\* _handle_client_request of START_DP_WAVE
HandleStart(e, msg) ==
  /\ engineWave' = [engineWave EXCEPT ![e] = Later(msg.wave, @)]
  /\ enginesRunning' = [enginesRunning EXCEPT ![e] = @ \/ Starts(e, msg.wave)]
  /\ UNCHANGED <<output, work>>

Handle(e) ==
  LET msg == Head(input[e])
  IN  /\ input[e] # << >>
      /\ input' = [input EXCEPT ![e] = Tail(@)]
      /\ CASE msg.kind = "add" -> HandleAdd(e, msg)
           [] msg.kind = "abort" -> HandleAbort(e, msg)
           [] msg.kind = "start_wave" -> HandleStart(e, msg)
      /\ UNCHANGED <<client, pc, counter, batch, localUnfinished, verdict>>

\* _process_input_queue: blocking while there is nothing to do
Wait(e) == pc[e] = "wait" /\ ~enginesRunning[e] /\ ~HasRequests(e) /\ Handle(e)

Wakes(e) ==
  /\ pc[e] = "wait" /\ (enginesRunning[e] \/ HasRequests(e))
  /\ pc' = [pc EXCEPT ![e] = "drain"]
  /\ UNCHANGED <<client, engineWave, enginesRunning, counter, batch, localUnfinished, verdict,
                 work, input, output>>

\* _process_input_queue: what else is in the queue
Drain(e) == pc[e] = "drain" /\ Handle(e)

-----------------------------------------------------------------------------
(* run_busy_loop *)

Sends(e, scheduled, fin) ==
  output' = [output EXCEPT ![e] =
               Append(@, [kind |-> "outputs", scheduled |-> scheduled, finished |-> fin])]

\* A schedule() that may come to nothing, whatever there is to do.
BatchesAny(e) == SUBSET Unfinished(e)

\* What schedule() may pick from the unfinished requests
Batches(e) == (SUBSET Unfinished(e)) \ (IF EmptySteps THEN {} ELSE {{}})

\* The queue is empty.  A step whose batch is empty makes no forward pass.
BeginStep(e) ==
  /\ pc[e] = "drain" /\ input[e] = << >> /\ Unfinished(e) # {}
  /\ \E scheduled \in Batches(e) :
       /\ batch' = [batch EXCEPT ![e] = scheduled]
       /\ pc' = [pc EXCEPT ![e] = IF scheduled = {} THEN "update" ELSE "forward"]
  /\ UNCHANGED <<client, engineWave, enginesRunning, counter, localUnfinished, verdict,
                 work, input, output>>

\* An engine without requests that waits until it is told to run.
RunsDummyNever(e) == FALSE

RunsDummy(e) == enginesRunning[e]

\* No request is unfinished: finished ones are flushed by a step without a
\* forward pass, and then comes a dummy batch or the next wait.
BeginIdle(e) ==
  /\ pc[e] = "drain" /\ input[e] = << >> /\ Unfinished(e) = {}
  /\ IF finished[e] # {} THEN Sends(e, {}, finished[e]) ELSE UNCHANGED output
  /\ finished' = [finished EXCEPT ![e] = {}]
  /\ localUnfinished' = [localUnfinished EXCEPT ![e] = FALSE]
  /\ pc' = [pc EXCEPT ![e] = IF RunsDummy(e) THEN "forward" ELSE "wait"]
  /\ UNCHANGED <<client, engineWave, enginesRunning, counter, batch, verdict, left, input>>

\* The forward pass: nobody gets through it before all have come to it.
Forward ==
  /\ \A e \in Engines : pc[e] = "forward"
  /\ pc' = [e \in Engines |-> IF Unfinished(e) = {} THEN "sync" ELSE "update"]
  /\ UNCHANGED <<client, engineWave, enginesRunning, counter, localUnfinished, batch,
                 verdict, work, input, output>>

\* update_from_output
Update(e) ==
  /\ pc[e] = "update"
  /\ LET done == {q \in batch[e] : left[e][q] = 1}
     IN  /\ left' = [left EXCEPT ![e] = [q \in Reqs |->
                       IF q \in batch[e] THEN @[q] - 1 ELSE @[q]]]
         /\ finished' = [finished EXCEPT ![e] = done]
         /\ Sends(e, batch[e], finished[e] \cup done)
         /\ localUnfinished' = [localUnfinished EXCEPT ![e] = Unfinished(e) # done]
  /\ batch' = [batch EXCEPT ![e] = {}]
  /\ pc' = [pc EXCEPT ![e] = "sync"]
  /\ UNCHANGED <<client, engineWave, enginesRunning, counter, verdict, input>>

\* _has_global_unfinished_reqs, up to the all-reduce
CountStep(e) ==
  /\ pc[e] = "sync"
  /\ IF counter[e] + 1 # SyncEvery
     THEN /\ counter' = [counter EXCEPT ![e] = @ + 1]
          /\ enginesRunning' = [enginesRunning EXCEPT ![e] = TRUE]
          /\ pc' = [pc EXCEPT ![e] = "wait"]
     ELSE /\ counter' = [counter EXCEPT ![e] = 0]
          /\ pc' = [pc EXCEPT ![e] = "allreduce"]
          /\ UNCHANGED enginesRunning
  /\ UNCHANGED <<client, engineWave, batch, localUnfinished, verdict, work, input, output>>

\* has_unfinished_dp: the maximum over the engines
AnyUnfinished == \E e \in Engines : localUnfinished[e]

AllReduce ==
  /\ \A e \in Engines : pc[e] = "allreduce"
  /\ verdict' = AnyUnfinished
  /\ pc' = [e \in Engines |-> "decide"]
  /\ UNCHANGED <<client, engineWave, enginesRunning, counter, batch, localUnfinished,
                 work, input, output>>

\* Engine 0 tells the client of the pause.
Decide(e) ==
  /\ pc[e] = "decide"
  /\ enginesRunning' = [enginesRunning EXCEPT ![e] = verdict]
  /\ IF verdict THEN UNCHANGED <<output, engineWave>>
     ELSE /\ output' = IF e = 0
                       THEN [output EXCEPT ![0] =
                               Append(@, [kind |-> "wave_complete", wave |-> engineWave[0]])]
                       ELSE output
          /\ engineWave' = [engineWave EXCEPT ![e] = @ + 1]
  /\ pc' = [pc EXCEPT ![e] = "wait"]
  /\ UNCHANGED <<client, counter, batch, localUnfinished, verdict, work, input>>

-----------------------------------------------------------------------------
Engine(e) == Wait(e) \/ Wakes(e) \/ Drain(e) \/ BeginStep(e) \/ BeginIdle(e)
             \/ Update(e) \/ CountStep(e) \/ Decide(e)

Collective == Forward \/ AllReduce

Next ==
  \/ \E q \in Reqs : ClientAdd(q) \/ ClientAbort(q)
  \/ \E e \in Engines : ClientReceive(e) \/ Engine(e)
  \/ Collective

Spec == Init /\ [][Next]_vars

\* Engines and the client's output task run; collectives complete once all
\* engines are in them.  Nobody has to add or abort anything.
FairSpec ==
  /\ Spec /\ WF_vars(Collective)
  /\ \A e \in Engines : WF_vars(Engine(e)) /\ WF_vars(ClientReceive(e))

-----------------------------------------------------------------------------
\* The loops, the counters and the requests are what they are meant to be.
TypeOK ==
  /\ wave \in Nat /\ running \in BOOLEAN
  /\ inFlight \in [Reqs -> Engines \cup {Nowhere}]
  /\ added \subseteq Reqs /\ started \subseteq added /\ aborted \subseteq added
  /\ pc \in [Engines -> {"wait", "drain", "forward", "update", "sync", "allreduce", "decide"}]
  /\ engineWave \in [Engines -> Nat]
  /\ enginesRunning \in [Engines -> BOOLEAN]
  /\ counter \in [Engines -> 0 .. SyncEvery - 1]
  /\ left \in [Engines -> [Reqs -> Nat]]
  /\ finished \in [Engines -> SUBSET Reqs]
  /\ batch \in [Engines -> SUBSET Reqs]
  /\ localUnfinished \in [Engines -> BOOLEAN] /\ verdict \in BOOLEAN

\* "Counts forward-passes of the model so that we can synchronize finished
\* with DP peers": no engine waits for its peers in a forward pass while
\* another waits for them in the all-reduce; both would wait forever.
CollectivesMatch ==
  \A e, f \in Engines : ~(pc[e] = "forward" /\ pc[f] = "allreduce")

NoMessages == \A e \in Engines : input[e] = << >> /\ output[e] = << >>
Paused(e) == pc[e] = "wait" /\ ~enginesRunning[e] /\ ~HasRequests(e)

\* Once all messages have arrived the client and the engines agree: if all
\* engines are paused the client knows, and knows the number of the next
\* wave (or its next request would not wake all of them), and if it takes
\* them for paused no engine has a request left.
PauseIsKnown ==
  NoMessages =>
    /\ (\A e \in Engines : Paused(e)) => ~running /\ \A e \in Engines : engineWave[e] = wave
    /\ ~running => \A e \in Engines : Unfinished(e) = {}

\* Every request that is sent ends, whichever engine it reaches in whichever
\* wave: requests that cross the decision to pause, and starts of a wave
\* that cross each other, leave no engine behind in a forward pass that its
\* peers do not join.
EveryRequestEnds == \A q \in Reqs : q \in added ~> inFlight[q] = Nowhere

\* When no more requests come the engines stop running dummy batches.
EnginesComeToRest == <>[](\A e \in Engines : ~enginesRunning[e])
=============================================================================
