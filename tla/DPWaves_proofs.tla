---------------------------- MODULE DPWaves_proofs ----------------------------
(***************************************************************************)
(* The collectives of the data-parallel engines match, for any number of   *)
(* engines, requests and steps between two all-reduces, as long as every   *)
(* step of an engine with requests makes a forward pass; and the client    *)
(* and the engines agree on a pause once all messages have arrived, as     *)
(* long as no request is aborted before its first output.                  *)
(***************************************************************************)
EXTENDS DPWaves, TLAPS

EngineSteps == {"wait", "drain", "forward", "update", "sync", "allreduce", "decide"}

LoopTyped == /\ pc \in [Engines -> EngineSteps]
             /\ counter \in [Engines -> 0 .. SyncEvery - 1]

\* Past the forward pass, before the step is counted
Counting(e) == pc[e] \in {"update", "sync"}

\* Past the forward pass, and not past the all-reduce of the same step
Syncing(e) == Counting(e) \/ pc[e] = "allreduce"

\* The counter once the step is counted
Count(e) == IF ~Counting(e) THEN counter[e]
            ELSE IF counter[e] + 1 = SyncEvery THEN 0 ELSE counter[e] + 1

\* All engines have been through as many forward passes.
SameCount == \A e, f \in Engines : Count(e) = Count(f)

\* The all-reduce comes when the counter starts over.
ReduceAtZero == \A e \in Engines : pc[e] \in {"allreduce", "decide"} => counter[e] = 0

\* An engine in the all-reduce is not waited for, but waits.
ReduceInOneStep ==
  \A e, f \in Engines : /\ pc[e] = "allreduce" => Syncing(f)
                        /\ pc[e] = "decide" => ~Syncing(f)

\* An engine that has counted a step its peer has not counted was not to
\* reduce in that step.
AheadNotAtZero ==
  \A e, f \in Engines : Counting(e) /\ ~Syncing(f) => counter[f] # 0

LockStep == LoopTyped /\ SameCount /\ ReduceAtZero /\ ReduceInOneStep /\ AheadNotAtZero

-----------------------------------------------------------------------------
\* The engines start out waiting.
LEMMA InitLockStep == Init => LockStep
<1> SUFFICES ASSUME Init PROVE LockStep
  OBVIOUS
<1>1. SyncEvery \in Nat \ {0}
  BY WavesAssumption
<1> QED
  BY <1>1 DEF Init, LockStep, LoopTyped, SameCount, ReduceAtZero, ReduceInOneStep,
              AheadNotAtZero, Count, Counting, Syncing, EngineSteps

\* Steps of an engine outside forward pass, count and all-reduce
Elsewhere == {"wait", "drain", "forward"}

\* A step of one engine that does not count leaves all in lock step, if it
\* does not leave the stretch from the forward pass to the all-reduce.
LEMMA LocalStep ==
  ASSUME LockStep, NEW e \in Engines, NEW p \in EngineSteps,
         pc' = [pc EXCEPT ![e] = p], counter' = counter,
         \/ pc[e] \in Elsewhere \cup {"decide"} /\ p \in Elsewhere
         \/ pc[e] = "update" /\ p = "sync"
  PROVE  LockStep'
<1>1. LoopTyped'
  BY DEF LockStep, LoopTyped
<1>2. /\ \A f \in Engines : Counting(f)' = Counting(f) /\ Syncing(f)' = Syncing(f)
      /\ \A f \in Engines : Count(f)' = Count(f)
      /\ \A f \in Engines : pc'[f] \in {"allreduce", "decide"} => pc[f] = pc'[f]
  BY DEF LockStep, LoopTyped, Counting, Syncing, Count, Elsewhere
<1>3. SameCount' /\ ReduceAtZero'
  BY <1>2 DEF LockStep, SameCount, ReduceAtZero
<1>4. ReduceInOneStep' /\ AheadNotAtZero'
  BY <1>2 DEF LockStep, ReduceInOneStep, AheadNotAtZero
<1> QED
  BY <1>1, <1>3, <1>4 DEF LockStep

\* Counting the step: the engine goes into the all-reduce if and only if its
\* peers, which have counted it or are about to, do so in the same step.
LEMMA CountKeeps ==
  ASSUME LockStep, NEW e \in Engines, CountStep(e)
  PROVE  LockStep'
<1>0. /\ SyncEvery \in Nat \ {0} /\ LoopTyped
      /\ pc[e] = "sync" /\ counter[e] \in 0 .. SyncEvery - 1
  BY WavesAssumption DEF LockStep, LoopTyped, CountStep
<1>1. CASE counter[e] + 1 # SyncEvery
  <2>1. /\ pc' = [pc EXCEPT ![e] = "wait"]
        /\ counter' = [counter EXCEPT ![e] = counter[e] + 1]
    BY <1>1 DEF CountStep
  <2>2. LoopTyped'
    BY <1>0, <1>1, <2>1 DEF LoopTyped, EngineSteps
  <2>3. \A f \in Engines : pc[f] # "allreduce"
    BY <1>0, <1>1 DEF LockStep, SameCount, ReduceAtZero, Count, Counting
  <2>4. /\ \A f \in Engines : Count(f)' = Count(f)
        /\ \A f \in Engines : f # e => /\ Syncing(f)' = Syncing(f)
                                       /\ Counting(f)' = Counting(f)
                                       /\ counter'[f] = counter[f] /\ pc'[f] = pc[f]
        /\ ~Syncing(e)' /\ pc'[e] = "wait" /\ counter'[e] # 0
    BY <1>0, <1>1, <2>1 DEF LoopTyped, Count, Counting, Syncing
  <2>5. SameCount' /\ ReduceAtZero'
    BY <2>4 DEF LockStep, SameCount, ReduceAtZero
  <2>6. ReduceInOneStep' /\ AheadNotAtZero'
    BY <2>3, <2>4 DEF LockStep, ReduceInOneStep, AheadNotAtZero, Syncing
  <2> QED
    BY <2>2, <2>5, <2>6 DEF LockStep
<1>2. CASE counter[e] + 1 = SyncEvery
  <2>1. /\ pc' = [pc EXCEPT ![e] = "allreduce"]
        /\ counter' = [counter EXCEPT ![e] = 0]
    BY <1>2 DEF CountStep
  <2>2. LoopTyped'
    BY <1>0, <1>2, <2>1 DEF LoopTyped, EngineSteps
  <2>3. \A f \in Engines : Syncing(f)
    BY <1>0, <1>2 DEF LockStep, SameCount, AheadNotAtZero, Count, Counting, Syncing
  <2>4. /\ \A f \in Engines : Count(f)' = Count(f)
        /\ \A f \in Engines : Syncing(f)' = Syncing(f)
        /\ \A f \in Engines : f # e => counter'[f] = counter[f] /\ pc'[f] = pc[f]
        /\ pc'[e] = "allreduce" /\ counter'[e] = 0
    BY <1>0, <1>2, <2>1 DEF LoopTyped, Count, Counting, Syncing
  <2>5. SameCount' /\ ReduceAtZero'
    BY <2>4 DEF LockStep, SameCount, ReduceAtZero
  <2>6. ReduceInOneStep' /\ AheadNotAtZero'
    BY <2>3, <2>4 DEF LockStep, ReduceInOneStep, AheadNotAtZero, Syncing, Counting
  <2> QED
    BY <2>2, <2>5, <2>6 DEF LockStep
<1> QED
  BY <1>1, <1>2

\* All engines leave the forward pass together, with the same count.
LEMMA ForwardKeeps == ASSUME LockStep, Forward PROVE LockStep'
<1>0. /\ LoopTyped /\ \A e \in Engines : pc[e] = "forward"
      /\ counter' = counter /\ \A e \in Engines : pc'[e] \in {"update", "sync"}
      /\ pc' \in [Engines -> EngineSteps]
  BY DEF LockStep, Forward, EngineSteps
<1>1. \A e, f \in Engines : counter[e] = counter[f]
  BY <1>0 DEF LockStep, SameCount, Count, Counting
<1> QED
  BY <1>0, <1>1 DEF LockStep, LoopTyped, SameCount, ReduceAtZero, ReduceInOneStep,
                    AheadNotAtZero, Count, Counting, Syncing

\* All engines leave the all-reduce together.
LEMMA ReduceKeeps == ASSUME LockStep, AllReduce PROVE LockStep'
<1>0. /\ LoopTyped /\ \A e \in Engines : pc[e] = "allreduce"
      /\ counter' = counter /\ \A e \in Engines : pc'[e] = "decide"
      /\ pc' \in [Engines -> EngineSteps]
  BY DEF LockStep, AllReduce, EngineSteps
<1>1. \A e \in Engines : counter[e] = 0
  BY <1>0 DEF LockStep, ReduceAtZero
<1> QED
  BY <1>0, <1>1 DEF LockStep, LoopTyped, SameCount, ReduceAtZero, ReduceInOneStep,
                    AheadNotAtZero, Count, Counting, Syncing

\* What depends on nothing but the loops and the counters
LEMMA LoopUntouched == ASSUME LockStep, UNCHANGED <<pc, counter>> PROVE LockStep'
BY DEF LockStep, LoopTyped, SameCount, ReduceAtZero, ReduceInOneStep, AheadNotAtZero,
       Count, Counting, Syncing

-----------------------------------------------------------------------------
\* With requests an engine gets to the forward pass, however they come.
LEMMA EngineKeeps ==
  ASSUME ~EmptySteps, LockStep, NEW e \in Engines, Engine(e)
  PROVE  LockStep'
<1>1. CASE Wait(e) \/ Drain(e)
  BY <1>1, LoopUntouched DEF Wait, Drain, Handle
<1>2. CASE Wakes(e)
  BY <1>2, LocalStep DEF Wakes, EngineSteps, Elsewhere
<1>3. CASE BeginStep(e)
  <2>1. Batches(e) = (SUBSET Unfinished(e)) \ {{}}
    BY Zenon DEF Batches
  <2>2. \A scheduled \in Batches(e) : scheduled # {}
    BY <2>1
  <2>3. \E scheduled \in Batches(e) :
          pc' = [pc EXCEPT ![e] = IF scheduled = {} THEN "update" ELSE "forward"]
    BY <1>3, Zenon DEF BeginStep
  <2>4. pc' = [pc EXCEPT ![e] = "forward"]
    BY <2>2, <2>3
  <2>5. counter' = counter /\ pc[e] = "drain"
    BY <1>3 DEF BeginStep
  <2> QED
    BY <2>4, <2>5, LocalStep DEF EngineSteps, Elsewhere
<1>4. CASE BeginIdle(e)
  BY <1>4, LocalStep DEF BeginIdle, EngineSteps, Elsewhere
<1>5. CASE Update(e)
  BY <1>5, LocalStep DEF Update, EngineSteps
<1>6. CASE CountStep(e)
  BY <1>6, CountKeeps
<1>7. CASE Decide(e)
  BY <1>7, LocalStep DEF Decide, EngineSteps, Elsewhere
<1> QED
  BY <1>1, <1>2, <1>3, <1>4, <1>5, <1>6, <1>7 DEF Engine

\* Every step keeps the engines in lock step.
LEMMA NextLockStep == ASSUME ~EmptySteps PROVE LockStep /\ [Next]_vars => LockStep'
<1> SUFFICES ASSUME LockStep, [Next]_vars PROVE LockStep'
  OBVIOUS
<1>1. ASSUME NEW q \in Reqs, ClientAdd(q) \/ ClientAbort(q) PROVE LockStep'
  BY <1>1, LoopUntouched DEF ClientAdd, ClientAbort, loop
<1>2. ASSUME NEW e \in Engines, ClientReceive(e) PROVE LockStep'
  BY <1>2, LoopUntouched DEF ClientReceive, loop
<1>3. ASSUME NEW e \in Engines, Engine(e) PROVE LockStep'
  BY <1>3, EngineKeeps
<1>4. CASE Collective
  BY <1>4, ForwardKeeps, ReduceKeeps DEF Collective
<1>5. CASE UNCHANGED vars
  BY <1>5, LoopUntouched DEF vars, loop
<1> QED
  BY <1>1, <1>2, <1>3, <1>4, <1>5 DEF Next

\* No engine waits for its peers in a forward pass while another waits for
\* them in the all-reduce (run_busy_loop and _has_global_unfinished_reqs of
\* DPEngineCoreProc), for any number of engines and any schedule, if a step
\* with requests never comes to nothing.
THEOREM CollectivesMatchAlways == ASSUME ~EmptySteps PROVE Spec => []CollectivesMatch
<1>1. LockStep => CollectivesMatch
  BY DEF LockStep, ReduceInOneStep, CollectivesMatch, Syncing, Counting
<1>2. LockStep /\ [Next]_vars => LockStep'
  BY NextLockStep
<1> QED
  BY <1>1, <1>2, InitLockStep, PTL DEF Spec

-----------------------------------------------------------------------------
(* The types of the waves' state *)

\* What the client sends an engine, and an engine the client
ToEngine == [kind : {"add"}, req : Reqs, wave : Nat]
            \cup [kind : {"abort"}, req : Reqs] \cup [kind : {"start_wave"}, wave : Nat]
ToClient == [kind : {"outputs"}, scheduled : SUBSET Reqs, finished : SUBSET Reqs]
            \cup [kind : {"start_wave", "wave_complete"}, wave : Nat]

\* The types, and what a batch may be
WavesTyped ==
  /\ wave \in Nat /\ running \in BOOLEAN
  /\ started \subseteq Reqs
  /\ pc \in [Engines -> EngineSteps]
  /\ engineWave \in [Engines -> Nat]
  /\ enginesRunning \in [Engines -> BOOLEAN]
  /\ left \in [Engines -> [Reqs -> Nat]]
  /\ finished \in [Engines -> SUBSET Reqs]
  /\ batch \in [Engines -> SUBSET Reqs]
  /\ localUnfinished \in [Engines -> BOOLEAN] /\ verdict \in BOOLEAN
  /\ input \in [Engines -> Seq(ToEngine)]
  /\ output \in [Engines -> Seq(ToClient)]
  /\ \A e \in Engines : batch[e] # {} => pc[e] \in {"forward", "update"}
  /\ \A e \in Engines : batch[e] \subseteq Unfinished(e)

\* What a message holds depends on its kind.
LEMMA MessageKinds ==
  /\ \A m \in ToEngine : /\ m.kind \in {"add", "abort", "start_wave"}
                         /\ m.kind # "start_wave" => m.req \in Reqs
                         /\ m.kind # "abort" => m.wave \in Nat
  /\ \A m \in ToClient : /\ m.kind \in {"outputs", "start_wave", "wave_complete"}
                         /\ m.kind # "outputs" => m.wave \in Nat
                         /\ m.kind = "outputs" => m.scheduled \subseteq Reqs
  /\ \A w \in Nat : StartWave(w) \in ToEngine /\ StartWave(w) \in ToClient
  /\ \A w \in Nat, q \in Reqs : [kind |-> "add", req |-> q, wave |-> w] \in ToEngine
  /\ \A q \in Reqs : [kind |-> "abort", req |-> q] \in ToEngine
  /\ \A w \in Nat : [kind |-> "wave_complete", wave |-> w] \in ToClient
  /\ \A S, T \in SUBSET Reqs : [kind |-> "outputs", scheduled |-> S, finished |-> T] \in ToClient
BY DEF ToEngine, ToClient, StartWave

\* At first nothing is on its way.
LEMMA InitWavesTyped == Init => WavesTyped
<1> SUFFICES ASSUME Init PROVE WavesTyped
  OBVIOUS
<1>1. << >> \in Seq(ToEngine) /\ << >> \in Seq(ToClient)
  OBVIOUS
<1>2. input \in [Engines -> Seq(ToEngine)] /\ output \in [Engines -> Seq(ToClient)]
  BY <1>1 DEF Init
<1>3. batch = [e \in Engines |-> {}]
  BY DEF Init
<1> QED
  BY <1>2, <1>3 DEF Init, WavesTyped, EngineSteps

\* A message more, or less, in a FIFO
LEMMA QueuesTyped ==
  ASSUME NEW S, NEW s \in Seq(S)
  PROVE  /\ \A m \in S : Append(s, m) \in Seq(S)
         /\ s # << >> => Head(s) \in S /\ Tail(s) \in Seq(S)
OBVIOUS

\* An engine between two steps, with an empty batch, takes a message.
LEMMA HandleTyped ==
  ASSUME WavesTyped, NEW e \in Engines, Handle(e), pc[e] \in {"wait", "drain"}
  PROVE  WavesTyped'
<1> DEFINE msg == Head(input[e])
<1>1. /\ input[e] # << >> /\ input[e] \in Seq(ToEngine)
      /\ msg \in ToEngine /\ Tail(input[e]) \in Seq(ToEngine)
  BY QueuesTyped DEF WavesTyped, Handle
<1>2. input' \in [Engines -> Seq(ToEngine)]
  BY <1>1 DEF WavesTyped, Handle
<1>3. batch[e] = {}
  BY DEF WavesTyped
<1>4. /\ UNCHANGED <<wave, running, started, pc, batch, localUnfinished, verdict>>
      /\ \A f \in Engines : f # e => left'[f] = left[f]
      /\ engineWave' \in [Engines -> Nat]
      /\ enginesRunning' \in [Engines -> BOOLEAN]
      /\ left' \in [Engines -> [Reqs -> Nat]]
      /\ finished' \in [Engines -> SUBSET Reqs]
      /\ output' \in [Engines -> Seq(ToClient)]
  <2>0. UNCHANGED <<wave, running, started, pc, batch, localUnfinished, verdict>>
    BY DEF Handle, client
  <2>1. CASE msg.kind = "add"
    <3>1. HandleAdd(e, msg) /\ msg.req \in Reqs /\ msg.wave \in Nat /\ Steps[msg.req] \in Nat
      BY <1>1, <2>1, MessageKinds, WavesAssumption DEF Handle
    <3>2. StartWave(engineWave[e]) \in ToClient
      BY MessageKinds DEF WavesTyped
    <3> QED
      BY <2>0, <3>1, <3>2, QueuesTyped DEF HandleAdd, Later, WavesTyped
  <2>2. CASE msg.kind = "abort"
    <3>1. HandleAbort(e, msg) /\ msg.req \in Reqs
      BY <1>1, <2>2, MessageKinds DEF Handle
    <3> QED
      BY <2>0, <3>1 DEF HandleAbort, WavesTyped
  <2>3. CASE msg.kind = "start_wave"
    <3>1. HandleStart(e, msg) /\ msg.wave \in Nat
      BY <1>1, <2>3, MessageKinds DEF Handle
    <3> QED
      BY <2>0, <3>1 DEF HandleStart, Later, WavesTyped, work
  <2> QED
    BY <1>1, <2>1, <2>2, <2>3, MessageKinds
<1>5. \A f \in Engines : batch'[f] \subseteq Unfinished(f)'
  BY <1>3, <1>4 DEF WavesTyped, Unfinished
<1> QED
  BY <1>2, <1>4, <1>5 DEF WavesTyped

\* The client sends and takes what it may.
LEMMA ClientTyped ==
  ASSUME WavesTyped,
         \/ \E q \in Reqs : ClientAdd(q) \/ ClientAbort(q)
         \/ \E e \in Engines : ClientReceive(e)
  PROVE  WavesTyped'
<1>1. ASSUME NEW q \in Reqs, ClientAdd(q) PROVE WavesTyped'
  <2>1. /\ [kind |-> "add", req |-> q, wave |-> wave] \in ToEngine
        /\ StartWave(wave) \in ToEngine
    BY MessageKinds DEF WavesTyped
  <2>2. input' \in [Engines -> Seq(ToEngine)]
    BY <1>1, <2>1, QueuesTyped DEF ClientAdd, WithStart, WavesTyped
  <2> QED
    BY <1>1, <2>2 DEF ClientAdd, WavesTyped, loop, work, Unfinished
<1>2. ASSUME NEW q \in Reqs, ClientAbort(q) PROVE WavesTyped'
  <2>1. [kind |-> "abort", req |-> q] \in ToEngine
    BY MessageKinds
  <2>2. input' \in [Engines -> Seq(ToEngine)]
    BY <1>2, <2>1, QueuesTyped DEF ClientAbort, WavesTyped
  <2> QED
    BY <1>2, <2>2 DEF ClientAbort, WavesTyped, loop, work, Unfinished
<1>3. ASSUME NEW e \in Engines, ClientReceive(e) PROVE WavesTyped'
  <2> DEFINE msg == Head(output[e])
  <2>1. /\ msg \in ToClient /\ Tail(output[e]) \in Seq(ToClient)
    BY <1>3, QueuesTyped DEF ClientReceive, WavesTyped
  <2>2. output' \in [Engines -> Seq(ToClient)] /\ UNCHANGED <<loop, work>>
    BY <1>3, <2>1 DEF ClientReceive, WavesTyped
  <2>3. /\ wave' \in Nat /\ running' \in BOOLEAN /\ started' \subseteq Reqs
        /\ input' \in [Engines -> Seq(ToEngine)]
    <3>1. CASE msg.kind = "outputs"
      <4>1. ReceiveOutputs(msg) /\ msg.scheduled \subseteq Reqs
        BY <1>3, <2>1, <3>1, MessageKinds DEF ClientReceive
      <4> QED
        BY <4>1 DEF ReceiveOutputs, WavesTyped
    <3>2. CASE msg.kind = "wave_complete"
      <4>1. ReceiveComplete(msg) /\ msg.wave \in Nat
        BY <1>3, <2>1, <3>2, MessageKinds DEF ClientReceive
      <4>2. UNCHANGED <<started, input>>
        BY <4>1 DEF ReceiveComplete
      <4>3. wave' \in Nat
        BY <4>1 DEF ReceiveComplete, WavesTyped
      <4>4. running' \in BOOLEAN
        BY <4>1 DEF ReceiveComplete, WavesTyped
      <4> QED
        BY <4>2, <4>3, <4>4 DEF WavesTyped
    <3>3. CASE msg.kind = "start_wave"
      <4>1. ReceiveStart(e, msg) /\ msg.wave \in Nat /\ StartWave(msg.wave) \in ToEngine
        BY <1>3, <2>1, <3>3, MessageKinds DEF ClientReceive
      <4>2. WithStart(input, e, msg.wave) \in [Engines -> Seq(ToEngine)]
        BY <4>1, QueuesTyped DEF WavesTyped, WithStart
      <4> QED
        BY <4>1, <4>2 DEF ReceiveStart, WavesTyped
    <3> QED
      BY <2>1, <3>1, <3>2, <3>3, MessageKinds
  <2> QED
    BY <2>2, <2>3 DEF WavesTyped, loop, work, Unfinished
<1> QED
  BY <1>1, <1>2, <1>3

\* A batch is made of unfinished requests, and empty but for a step.
LEMMA EngineTyped ==
  ASSUME WavesTyped, NEW e \in Engines, Engine(e)
  PROVE  WavesTyped'
<1>1. CASE Wait(e) \/ Drain(e)
  BY <1>1, HandleTyped DEF Wait, Drain
<1>2. CASE Wakes(e)
  BY <1>2 DEF Wakes, WavesTyped, client, work, Unfinished, EngineSteps
<1>3. CASE BeginStep(e)
  <2>1. PICK scheduled \in Batches(e) :
          /\ batch' = [batch EXCEPT ![e] = scheduled]
          /\ pc' = [pc EXCEPT ![e] = IF scheduled = {} THEN "update" ELSE "forward"]
    BY <1>3, Zenon DEF BeginStep
  <2>2. scheduled \subseteq Unfinished(e) /\ Unfinished(e) \subseteq Reqs
    BY DEF Batches, Unfinished
  <2>3. /\ UNCHANGED <<client, engineWave, enginesRunning, localUnfinished, verdict,
                       work, input, output>>
        /\ \A f \in Engines : Unfinished(f)' = Unfinished(f)
    BY <1>3 DEF BeginStep, work, Unfinished
  <2>4. /\ pc' \in [Engines -> EngineSteps] /\ batch' \in [Engines -> SUBSET Reqs]
        /\ \A f \in Engines : batch'[f] # {} => pc'[f] \in {"forward", "update"}
        /\ \A f \in Engines : batch'[f] \subseteq Unfinished(f)'
    BY <2>1, <2>2, <2>3 DEF WavesTyped, EngineSteps
  <2> QED
    BY <2>3, <2>4 DEF WavesTyped, client, work
<1>4. CASE BeginIdle(e)
  <2>1. [kind |-> "outputs", scheduled |-> {}, finished |-> finished[e]] \in ToClient
    BY MessageKinds DEF WavesTyped
  <2>2. output' \in [Engines -> Seq(ToClient)]
    <3>1. CASE finished[e] = {}
      BY <1>4, <3>1 DEF BeginIdle, WavesTyped
    <3>2. CASE finished[e] # {}
      <4>1. output' = [output EXCEPT ![e] =
              Append(@, [kind |-> "outputs", scheduled |-> {}, finished |-> finished[e]])]
        BY <1>4, <3>2, Zenon DEF BeginIdle, Sends
      <4> QED
        BY <2>1, <4>1, QueuesTyped DEF WavesTyped
    <3> QED
      BY <3>1, <3>2
  <2> QED
    BY <1>4, <2>2 DEF BeginIdle, WavesTyped, client, Unfinished, EngineSteps
<1>5. CASE Update(e)
  <2> DEFINE done == {q \in batch[e] : left[e][q] = 1}
  <2>1. [kind |-> "outputs", scheduled |-> batch[e], finished |-> finished[e] \cup done]
          \in ToClient
    BY MessageKinds DEF WavesTyped
  <2>2. output' \in [Engines -> Seq(ToClient)]
    BY <1>5, <2>1, QueuesTyped DEF Update, Sends, WavesTyped
  <2>3. \A q \in batch[e] : left[e][q] - 1 \in Nat
    BY DEF WavesTyped, Unfinished
  <2>4. /\ left' = [left EXCEPT ![e] = [q \in Reqs |-> IF q \in batch[e] THEN left[e][q] - 1
                                                       ELSE left[e][q]]]
        /\ finished' = [finished EXCEPT ![e] = done]
        /\ localUnfinished' = [localUnfinished EXCEPT ![e] = Unfinished(e) # done]
        /\ batch' = [batch EXCEPT ![e] = {}] /\ pc' = [pc EXCEPT ![e] = "sync"]
        /\ UNCHANGED <<client, engineWave, enginesRunning, verdict, input>>
    BY <1>5 DEF Update
  <2>5. left' \in [Engines -> [Reqs -> Nat]] /\ finished' \in [Engines -> SUBSET Reqs]
    BY <2>3, <2>4 DEF WavesTyped
  <2>6. /\ \A f \in Engines : batch'[f] # {} => pc'[f] \in {"forward", "update"}
        /\ \A f \in Engines : batch'[f] \subseteq Unfinished(f)'
    BY <2>4 DEF WavesTyped, Unfinished
  <2> QED
    BY <2>2, <2>4, <2>5, <2>6 DEF WavesTyped, client, EngineSteps
<1>6. CASE CountStep(e)
  BY <1>6 DEF CountStep, WavesTyped, client, work, Unfinished, EngineSteps
<1>7. CASE Decide(e)
  <2>1. e = 0 => [kind |-> "wave_complete", wave |-> engineWave[0]] \in ToClient
    BY MessageKinds DEF WavesTyped
  <2>2. output' \in [Engines -> Seq(ToClient)]
    <3>1. CASE output' = output
      BY <3>1 DEF WavesTyped
    <3>2. CASE output' # output
      <4>1. /\ e = 0
            /\ output' = [output EXCEPT ![0] =
                             Append(@, [kind |-> "wave_complete", wave |-> engineWave[0]])]
        BY <1>7, <3>2 DEF Decide
      <4> QED
        BY <2>1, <4>1, QueuesTyped DEF WavesTyped
    <3> QED
      BY <3>1, <3>2
  <2>3. engineWave' \in [Engines -> Nat]
    BY <1>7 DEF Decide, WavesTyped
  <2>4. enginesRunning' \in [Engines -> BOOLEAN]
    BY <1>7 DEF Decide, WavesTyped
  <2>5. /\ UNCHANGED <<client, batch, localUnfinished, verdict, work, input>>
        /\ pc[e] = "decide" /\ pc' = [pc EXCEPT ![e] = "wait"]
    BY <1>7 DEF Decide
  <2> QED
    BY <2>2, <2>3, <2>4, <2>5 DEF WavesTyped, client, work, Unfinished, EngineSteps
<1> QED
  BY <1>1, <1>2, <1>3, <1>4, <1>5, <1>6, <1>7 DEF Engine

\* The collectives change nothing but where the engines are.
LEMMA CollectiveTyped == ASSUME WavesTyped, Collective PROVE WavesTyped'
<1>1. CASE Forward
  BY <1>1 DEF Forward, WavesTyped, client, work, Unfinished, EngineSteps
<1>2. CASE AllReduce
  BY <1>2 DEF AllReduce, AnyUnfinished, WavesTyped, client, work, Unfinished, EngineSteps
<1> QED
  BY <1>1, <1>2 DEF Collective

\* Every step keeps the types.
LEMMA NextWavesTyped == WavesTyped /\ [Next]_vars => WavesTyped'
<1>1. CASE UNCHANGED vars
  BY <1>1 DEF vars, client, loop, work, WavesTyped, Unfinished
<1> QED
  BY <1>1, ClientTyped, EngineTyped, CollectiveTyped DEF Next

-----------------------------------------------------------------------------
(* What is on its way, and what a step does to it *)

\* What is in a FIFO; on its way to an engine; on its way from it
Elems(s) == {s[i] : i \in 1 .. Len(s)}

\* What a FIFO holds after a message more, or less
LEMMA ElemsOf ==
  ASSUME NEW S, NEW s \in Seq(S)
  PROVE  /\ \A m \in S : Elems(Append(s, m)) = Elems(s) \cup {m}
         /\ s # << >> => Head(s) \in S /\ Elems(s) = Elems(Tail(s)) \cup {Head(s)}
         /\ Elems(s) \subseteq S
<1>1. ASSUME NEW m \in S PROVE Elems(Append(s, m)) = Elems(s) \cup {m}
  <2>1. /\ Len(Append(s, m)) = Len(s) + 1 /\ Append(s, m)[Len(s) + 1] = m
        /\ \A i \in 1 .. Len(s) : Append(s, m)[i] = s[i]
    OBVIOUS
  <2>2. Len(s) \in Nat /\ 1 .. Len(s) + 1 = (1 .. Len(s)) \cup {Len(s) + 1}
    OBVIOUS
  <2> QED
    BY <2>1, <2>2 DEF Elems
<1>2. ASSUME s # << >> PROVE Head(s) \in S /\ Elems(s) = Elems(Tail(s)) \cup {Head(s)}
  <2>1. /\ Len(s) \in Nat \ {0} /\ Len(Tail(s)) = Len(s) - 1 /\ Head(s) = s[1] /\ s[1] \in S
        /\ \A i \in 1 .. Len(s) - 1 : Tail(s)[i] = s[i + 1]
    BY <1>2
  <2>2. \A i \in 1 .. Len(s) : i = 1 \/ (i - 1 \in 1 .. Len(s) - 1 /\ s[i] = Tail(s)[i - 1])
    BY <2>1
  <2>3. \A m \in Elems(s) : m \in Elems(Tail(s)) \cup {Head(s)}
    BY <2>1, <2>2 DEF Elems
  <2>4. \A m \in Elems(Tail(s)) \cup {Head(s)} : m \in Elems(s)
    <3>1. \A i \in 1 .. Len(s) - 1 : i + 1 \in 1 .. Len(s)
      BY <2>1
    <3> QED
      BY <2>1, <3>1 DEF Elems
  <2> QED
    BY <2>1, <2>3, <2>4
<1>3. Elems(s) \subseteq S
  BY DEF Elems
<1> QED
  BY <1>1, <1>2, <1>3

In(e) == Elems(input[e])
Out(e) == Elems(output[e])
\* The other messages by name
AddMsg(q, w) == [kind |-> "add", req |-> q, wave |-> w]
AbortMsg(q) == [kind |-> "abort", req |-> q]
Outputs(S, T) == [kind |-> "outputs", scheduled |-> S, finished |-> T]
Complete(w) == [kind |-> "wave_complete", wave |-> w]

\* What is on its way is a message.
LEMMA InOut ==
  ASSUME WavesTyped
  PROVE \A e \in Engines : In(e) \subseteq ToEngine /\ Out(e) \subseteq ToClient
BY ElemsOf DEF WavesTyped, In, Out

\* A request goes to one engine, the start of a wave to the others.
LEMMA AddSends ==
  ASSUME WavesTyped, NEW q \in Reqs, ClientAdd(q)
  PROVE  \A f \in Engines :
           /\ In(f)' = In(f) \cup (IF f = Chosen THEN {AddMsg(q, wave)}
                                   ELSE IF running THEN {} ELSE {StartWave(wave)})
           /\ Out(f)' = Out(f)
<1>1. AddMsg(q, wave) \in ToEngine /\ StartWave(wave) \in ToEngine
  BY MessageKinds DEF WavesTyped, AddMsg
<1>2. TAKE f \in Engines
<1>3. input[f] \in Seq(ToEngine) /\ output' = output
  BY DEF WavesTyped, ClientAdd
<1>4. CASE f = Chosen
  <2>1. input'[f] = Append(input[f], AddMsg(q, wave))
    BY <1>4 DEF ClientAdd, WithStart, WavesTyped, AddMsg
  <2> QED
    BY <1>1, <1>3, <1>4, <2>1, ElemsOf DEF In, Out
<1>5. CASE f # Chosen /\ running
  <2>1. input'[f] = input[f]
    BY <1>5 DEF ClientAdd, WavesTyped
  <2> QED
    BY <1>1, <1>3, <1>5, <2>1 DEF In, Out
<1>6. CASE f # Chosen /\ ~running
  <2>1. input'[f] = Append(input[f], StartWave(wave))
    BY <1>6 DEF ClientAdd, WithStart, WavesTyped
  <2> QED
    BY <1>1, <1>3, <1>6, <2>1, ElemsOf DEF In, Out
<1> QED
  BY <1>4, <1>5, <1>6

\* An abort goes to the engine of the request.
LEMMA AbortSends ==
  ASSUME WavesTyped, NEW q \in Reqs, ClientAbort(q)
  PROVE  \A f \in Engines :
           /\ In(f)' = In(f) \cup (IF f = inFlight[q] THEN {AbortMsg(q)} ELSE {})
           /\ Out(f)' = Out(f)
<1>1. AbortMsg(q) \in ToEngine
  BY MessageKinds DEF AbortMsg
<1>2. TAKE f \in Engines
<1>3. input[f] \in Seq(ToEngine) /\ output' = output
  BY DEF WavesTyped, ClientAbort
<1>4. input'[f] = IF f = inFlight[q] THEN Append(input[f], AbortMsg(q)) ELSE input[f]
  BY DEF ClientAbort, WavesTyped, AbortMsg
<1> QED
  BY <1>1, <1>3, <1>4, ElemsOf DEF In, Out

\* A message of an engine, and what the client does with it
LEMMA Receives ==
  ASSUME WavesTyped, NEW e \in Engines, ClientReceive(e)
  PROVE  \E msg \in ToClient :
           /\ Out(e) = Out(e)' \cup {msg}
           /\ \A f \in Engines : f # e => Out(f)' = Out(f)
           /\ UNCHANGED <<added, aborted, loop, work>>
           /\ \/ /\ msg.kind = "outputs" /\ started' = started \cup msg.scheduled
                 /\ UNCHANGED <<wave, running, input>>
              \/ /\ msg.kind # "outputs" /\ started' = started /\ msg.wave \in Nat
                 /\ \/ /\ UNCHANGED <<wave, running, input>>
                       /\ msg.kind = "wave_complete" => wave > msg.wave
                       /\ msg.kind = "start_wave" => NothingNew(msg.wave)
                    \/ /\ msg = Complete(msg.wave) /\ wave <= msg.wave
                       /\ wave' = msg.wave + 1 /\ running' = FALSE /\ input' = input
                    \/ /\ msg = StartWave(msg.wave) /\ ~NothingNew(msg.wave)
                       /\ wave' = msg.wave /\ running' = TRUE
                       /\ \A f \in Engines :
                            In(f)' = In(f) \cup IF f = e THEN {} ELSE {StartWave(msg.wave)}
<1> DEFINE msg == Head(output[e])
<1>1. /\ msg \in ToClient
      /\ \A f \in Engines : output'[f] = IF f = e THEN Tail(output[f]) ELSE output[f]
      /\ output[e] # << >> /\ output[e] \in Seq(ToClient)
      /\ UNCHANGED <<added, aborted, loop, work>>
  BY ElemsOf DEF ClientReceive, WavesTyped
<1>2. /\ Out(e) = Out(e)' \cup {msg}
      /\ \A f \in Engines : f # e => Out(f)' = Out(f)
  BY <1>1, ElemsOf DEF Out
<1>3. msg = Outputs(msg.scheduled, msg.finished) \/ msg = StartWave(msg.wave) \/ msg = Complete(msg.wave)
  BY <1>1 DEF ToClient, Outputs, StartWave, Complete
<1>4. CASE msg.kind = "outputs"
  <2>1. ReceiveOutputs(msg)
    BY <1>4 DEF ClientReceive
  <2> QED
    BY <1>1, <1>2, <1>4, <2>1 DEF ReceiveOutputs
<1>5. CASE msg.kind = "wave_complete"
  <2>1. ReceiveComplete(msg) /\ msg.wave \in Nat
    BY <1>1, <1>5, MessageKinds DEF ClientReceive
  <2>2. msg = Complete(msg.wave)
    BY <1>3, <1>5 DEF Outputs, StartWave
  <2>3. UNCHANGED <<started, input>>
    BY <2>1 DEF ReceiveComplete
  <2>4. CASE wave <= msg.wave
    <3>1. wave' = msg.wave + 1 /\ running' = FALSE
      BY <2>1, <2>4 DEF ReceiveComplete
    <3> QED
      BY <1>1, <1>2, <1>5, <2>1, <2>2, <2>3, <2>4, <3>1
  <2>5. CASE ~(wave <= msg.wave)
    <3>1. UNCHANGED <<wave, running>> /\ wave > msg.wave
      BY <2>1, <2>5 DEF ReceiveComplete, WavesTyped
    <3> QED
      BY <1>1, <1>2, <1>5, <2>1, <2>2, <2>3, <3>1
  <2> QED
    BY <2>4, <2>5
<1>6. CASE msg.kind = "start_wave"
  <2>1. ReceiveStart(e, msg) /\ msg.wave \in Nat /\ StartWave(msg.wave) \in ToEngine
    BY <1>1, <1>6, MessageKinds DEF ClientReceive
  <2>2. msg = StartWave(msg.wave) /\ started' = started
    BY <1>3, <1>6, <2>1 DEF Outputs, Complete, ReceiveStart
  <2>3. CASE NothingNew(msg.wave)
    <3>1. UNCHANGED <<wave, running, input>>
      BY <2>1, <2>3 DEF ReceiveStart
    <3> QED
      BY <1>1, <1>2, <1>6, <2>1, <2>2, <2>3, <3>1
  <2>4. CASE ~NothingNew(msg.wave)
    <3>1. wave' = msg.wave /\ running' = TRUE /\ input' = WithStart(input, e, msg.wave)
      BY <2>1, <2>4 DEF ReceiveStart
    <3>2. \A f \in Engines : In(f)' = In(f) \cup IF f = e THEN {} ELSE {StartWave(msg.wave)}
      BY <2>1, <3>1, ElemsOf DEF WithStart, In, WavesTyped
    <3> QED
      BY <1>1, <1>2, <1>6, <2>1, <2>2, <2>4, <3>1, <3>2
  <2> QED
    BY <2>3, <2>4
<1> QED
  BY <1>1, <1>4, <1>5, <1>6, MessageKinds

\* A message to an engine, and what the engine does with it
LEMMA Handles ==
  ASSUME WavesTyped, NEW e \in Engines, Handle(e)
  PROVE  /\ UNCHANGED <<client, pc, counter, batch, localUnfinished, verdict>>
         /\ \A f \in Engines : f # e => /\ In(f)' = In(f) /\ Out(f)' = Out(f)
                                        /\ input'[f] = input[f]
                                        /\ engineWave'[f] = engineWave[f]
                                        /\ enginesRunning'[f] = enginesRunning[f]
                                        /\ left'[f] = left[f]
         /\ input[e] # << >> /\ input'[e] = Tail(input[e])
         /\ \E msg \in ToEngine :
              /\ msg = Head(input[e])
              /\ In(e) = In(e)' \cup {msg}
              /\ \/ /\ msg = AddMsg(msg.req, msg.wave) /\ msg.req \in Reqs /\ msg.wave \in Nat
                    /\ engineWave'[e] = Later(msg.wave, engineWave[e])
                    /\ Out(e)' = Out(e) \cup (IF AnswersOldWave(e, msg.wave)
                                              THEN {StartWave(engineWave[e])} ELSE {})
                    /\ left'[e] = [left[e] EXCEPT ![msg.req] = Steps[msg.req]]
                    /\ enginesRunning'[e] = enginesRunning[e]
                 \/ /\ msg = AbortMsg(msg.req) /\ msg.req \in Reqs
                    /\ left'[e] = [left[e] EXCEPT ![msg.req] = 0]
                    /\ engineWave'[e] = engineWave[e]
                    /\ Out(e)' = Out(e) /\ enginesRunning'[e] = enginesRunning[e]
                 \/ /\ msg = StartWave(msg.wave) /\ msg.wave \in Nat
                    /\ engineWave'[e] = Later(msg.wave, engineWave[e])
                    /\ enginesRunning'[e] = (enginesRunning[e] \/ Starts(e, msg.wave))
                    /\ Out(e)' = Out(e) /\ left'[e] = left[e]
<1> DEFINE msg == Head(input[e])
<1>1. /\ msg \in ToEngine
      /\ \A f \in Engines : input'[f] = IF f = e THEN Tail(input[f]) ELSE input[f]
      /\ input[e] # << >> /\ input[e] \in Seq(ToEngine)
      /\ UNCHANGED <<client, pc, counter, batch, localUnfinished, verdict>>
  BY ElemsOf DEF Handle, WavesTyped
<1>2. /\ In(e) = In(e)' \cup {msg} /\ input'[e] = Tail(input[e])
      /\ \A f \in Engines : f # e => In(f)' = In(f) /\ input'[f] = input[f]
  BY <1>1, ElemsOf DEF In
<1>3. msg = AddMsg(msg.req, msg.wave) \/ msg = AbortMsg(msg.req) \/ msg = StartWave(msg.wave)
  BY <1>1 DEF ToEngine, AddMsg, StartWave, AbortMsg
<1>4. CASE msg.kind = "add"
  <2>1. HandleAdd(e, msg) /\ msg.req \in Reqs /\ msg.wave \in Nat
    BY <1>1, <1>4, MessageKinds DEF Handle
  <2>2. msg = AddMsg(msg.req, msg.wave)
    BY <1>3, <1>4 DEF AbortMsg, StartWave
  <2>3. /\ \A f \in Engines : f # e => /\ engineWave'[f] = engineWave[f]
                                       /\ left'[f] = left[f]
                                       /\ Out(f)' = Out(f)
        /\ engineWave'[e] = Later(msg.wave, engineWave[e])
        /\ left'[e] = [left[e] EXCEPT ![msg.req] = Steps[msg.req]]
        /\ enginesRunning' = enginesRunning
    BY <2>1 DEF HandleAdd, WavesTyped, Out
  <2>4. Out(e)' = Out(e) \cup (IF AnswersOldWave(e, msg.wave)
                               THEN {StartWave(engineWave[e])} ELSE {})
    <3>1. StartWave(engineWave[e]) \in ToClient /\ output[e] \in Seq(ToClient)
      BY MessageKinds DEF WavesTyped
    <3>2. output'[e] = IF AnswersOldWave(e, msg.wave)
                       THEN Append(output[e], StartWave(engineWave[e])) ELSE output[e]
      BY <2>1 DEF HandleAdd, WavesTyped
    <3> QED
      BY <3>1, <3>2, ElemsOf DEF Out
  <2> QED
    BY <1>1, <1>2, <2>1, <2>2, <2>3, <2>4
<1>5. CASE msg.kind = "abort"
  <2>1. HandleAbort(e, msg) /\ msg.req \in Reqs
    BY <1>1, <1>5, MessageKinds DEF Handle
  <2>2. msg = AbortMsg(msg.req)
    BY <1>3, <1>5 DEF AddMsg, StartWave
  <2>3. /\ \A f \in Engines : f # e => left'[f] = left[f]
        /\ \A f \in Engines : Out(f)' = Out(f)
        /\ left'[e] = [left[e] EXCEPT ![msg.req] = 0]
        /\ engineWave' = engineWave /\ enginesRunning' = enginesRunning
    BY <2>1 DEF HandleAbort, WavesTyped, Out
  <2> QED
    BY <1>1, <1>2, <2>1, <2>2, <2>3
<1>6. CASE msg.kind = "start_wave"
  <2>1. HandleStart(e, msg) /\ msg.wave \in Nat
    BY <1>1, <1>6, MessageKinds DEF Handle
  <2>2. msg = StartWave(msg.wave)
    BY <1>3, <1>6 DEF AddMsg, AbortMsg
  <2>3. /\ \A f \in Engines : f # e => /\ engineWave'[f] = engineWave[f]
                                       /\ enginesRunning'[f] = enginesRunning[f]
        /\ engineWave'[e] = Later(msg.wave, engineWave[e])
        /\ enginesRunning'[e] = (enginesRunning[e] \/ Starts(e, msg.wave))
        /\ left' = left /\ \A f \in Engines : Out(f)' = Out(f)
    BY <2>1 DEF HandleStart, WavesTyped, Out, work
  <2> QED
    BY <1>1, <1>2, <2>1, <2>2, <2>3
<1> QED
  BY <1>1, <1>4, <1>5, <1>6, MessageKinds

-----------------------------------------------------------------------------
(* The waves *)

\* The requests that end with the current step
Done(e) == {q \in batch[e] : left[e][q] = 1}

\* What an engine that goes through its loop tells the client
LEMMA LoopSends ==
  ASSUME WavesTyped, NEW e \in Engines,
         Wakes(e) \/ BeginStep(e) \/ BeginIdle(e) \/ Update(e) \/ CountStep(e) \/ Decide(e)
  PROVE  /\ UNCHANGED <<client, verdict, input>>
         /\ \A f \in Engines : In(f)' = In(f)
         /\ \A f \in Engines : f # e => Out(f)' = Out(f)
         /\ Wakes(e) \/ BeginStep(e) \/ CountStep(e) => Out(e)' = Out(e)
         /\ BeginIdle(e) => \/ Out(e)' = Out(e)
                            \/ Out(e)' = Out(e) \cup {Outputs({}, finished[e])}
         /\ Update(e) => Out(e)' = Out(e) \cup {Outputs(batch[e], finished[e] \cup Done(e))}
         /\ Decide(e) => Out(e)' = Out(e) \cup (IF e = 0 /\ ~verdict
                                                THEN {Complete(engineWave[0])} ELSE {})
<1>1. UNCHANGED <<client, verdict, input>>
  BY DEF Wakes, BeginStep, BeginIdle, Update, CountStep, Decide
<1>2. \A f \in Engines : In(f)' = In(f)
  BY <1>1 DEF In
<1>3. output[e] \in Seq(ToClient)
  BY DEF WavesTyped
<1>4. \A f \in Engines : f # e => Out(f)' = Out(f)
  <2>1. output' = output \/ \E m : output' = [output EXCEPT ![e] = Append(@, m)]
    BY DEF Wakes, BeginStep, BeginIdle, Update, CountStep, Decide, Sends
  <2> QED
    BY <2>1 DEF Out, WavesTyped
<1>5. Wakes(e) \/ BeginStep(e) \/ CountStep(e) => Out(e)' = Out(e)
  BY DEF Wakes, BeginStep, CountStep, Out
<1>6. ASSUME BeginIdle(e)
      PROVE  Out(e)' = Out(e) \/ Out(e)' = Out(e) \cup {Outputs({}, finished[e])}
  <2>1. Outputs({}, finished[e]) \in ToClient
    BY MessageKinds DEF WavesTyped, Outputs
  <2>2. output'[e] = output[e] \/ output'[e] = Append(output[e], Outputs({}, finished[e]))
    <3>1. CASE finished[e] = {}
      BY <1>6, <3>1 DEF BeginIdle
    <3>2. CASE finished[e] # {}
      <4>1. output' = [output EXCEPT ![e] = Append(@, Outputs({}, finished[e]))]
        BY <1>6, <3>2, Zenon DEF BeginIdle, Sends, Outputs
      <4> QED
        BY <4>1 DEF WavesTyped
    <3> QED
      BY <3>1, <3>2
  <2>3. CASE output'[e] = output[e]
    BY <2>3 DEF Out
  <2>4. CASE output'[e] = Append(output[e], Outputs({}, finished[e]))
    BY <1>3, <2>1, <2>4, ElemsOf DEF Out
  <2> QED
    BY <2>2, <2>3, <2>4
<1>7. ASSUME Update(e)
      PROVE  Out(e)' = Out(e) \cup {Outputs(batch[e], finished[e] \cup Done(e))}
  <2>1. Outputs(batch[e], finished[e] \cup Done(e)) \in ToClient
    BY MessageKinds DEF WavesTyped, Outputs, Done
  <2>2. output'[e] = Append(output[e], Outputs(batch[e], finished[e] \cup Done(e)))
    BY <1>7 DEF Update, Sends, Outputs, WavesTyped, Done
  <2> QED
    BY <1>3, <2>1, <2>2, ElemsOf DEF Out
<1>8. ASSUME Decide(e)
      PROVE  Out(e)' = Out(e) \cup (IF e = 0 /\ ~verdict THEN {Complete(engineWave[0])} ELSE {})
  <2>1. e = 0 => Complete(engineWave[e]) \in ToClient
    BY MessageKinds DEF WavesTyped, Complete
  <2>2. output'[e] = IF e = 0 /\ ~verdict THEN Append(output[e], Complete(engineWave[0]))
                                          ELSE output[e]
    <3>1. CASE e = 0 /\ ~verdict
      BY <1>8, <3>1 DEF Decide, WavesTyped, Complete
    <3>2. CASE ~(e = 0 /\ ~verdict)
      BY <1>8, <3>2 DEF Decide
    <3> QED
      BY <3>1, <3>2
  <2> QED
    BY <1>3, <2>1, <2>2, ElemsOf DEF Out
<1> QED
  BY <1>1, <1>2, <1>4, <1>5, <1>6, <1>7, <1>8

\* Between the all-reduce and what follows from it
Pausing(e) == pc[e] = "decide" /\ ~verdict

\* The number of the wave once a pause is through
WaveOf(e) == engineWave[e] + IF Pausing(e) THEN 1 ELSE 0

\* All engines are in the same wave.
SameWave == \A e \in Engines : WaveOf(e) = WaveOf(0)

\* Neither the client nor a message is ahead of it, and the end of a wave is
\* told only when it is over.
NothingAhead ==
  /\ wave <= WaveOf(0)
  /\ \A e \in Engines :
       /\ \A m \in In(e) : m.kind # "abort" => m.wave <= WaveOf(0)
       /\ \A m \in Out(e) : /\ m.kind = "start_wave" => m.wave <= WaveOf(0)
                            /\ m.kind = "wave_complete" => m.wave < WaveOf(0)

\* A client that is behind will be told.
ClientLearns == \/ wave = WaveOf(0)
                \/ Complete(WaveOf(0) - 1) \in Out(0)
                \/ Pausing(0)

WavesAgree == SameWave /\ NothingAhead /\ ClientLearns

\* Engine 0, which tells the client of a pause
LEMMA ZeroIsEngine == 0 \in Engines
BY WavesAssumption DEF Engines

\* The number of a wave is one.
LEMMA WaveOfTyped == ASSUME WavesTyped, NEW e \in Engines PROVE WaveOf(e) \in Nat
BY DEF WavesTyped, WaveOf

\* All start in wave 0.
LEMMA InitWavesAgree == Init => WavesAgree
BY ZeroIsEngine DEF Init, WavesAgree, SameWave, NothingAhead, ClientLearns, WaveOf, Pausing,
                    In, Out, Elems

\* No message is of a later wave than the engine's, so none changes its wave.
LEMMA HandleAgrees ==
  ASSUME WavesTyped, WavesAgree, NEW e \in Engines, Handle(e), pc[e] \in {"wait", "drain"}
  PROVE  WavesAgree' /\ \A f \in Engines : WaveOf(f)' = WaveOf(f)
<1>1. PICK msg \in ToEngine :
              /\ In(e) = In(e)' \cup {msg}
              /\ \/ /\ msg = AddMsg(msg.req, msg.wave) /\ msg.wave \in Nat
                    /\ engineWave'[e] = Later(msg.wave, engineWave[e])
                    /\ Out(e)' = Out(e) \cup (IF AnswersOldWave(e, msg.wave)
                                              THEN {StartWave(engineWave[e])} ELSE {})
                 \/ /\ msg = AbortMsg(msg.req)
                    /\ engineWave'[e] = engineWave[e] /\ Out(e)' = Out(e)
                 \/ /\ msg = StartWave(msg.wave) /\ msg.wave \in Nat
                    /\ engineWave'[e] = Later(msg.wave, engineWave[e])
                    /\ Out(e)' = Out(e)
  BY Handles
<1>2. /\ UNCHANGED <<wave, pc, verdict>>
      /\ \A f \in Engines : f # e => /\ In(f)' = In(f) /\ Out(f)' = Out(f)
                                     /\ engineWave'[f] = engineWave[f]
  BY Handles DEF client
<1>3. /\ WaveOf(e) = engineWave[e] /\ WaveOf(e)' = engineWave'[e]
      /\ WaveOf(e) = WaveOf(0) /\ engineWave[e] \in Nat
  <2>1. engineWave[e] \in Nat /\ engineWave'[e] \in Nat
    BY HandleTyped DEF WavesTyped
  <2>2. pc[e] # "decide" /\ pc'[e] # "decide"
    BY <1>2
  <2> QED
    BY <2>1, <2>2 DEF WaveOf, Pausing, WavesAgree, SameWave
<1>4. msg.kind # "abort" => msg.wave <= engineWave[e]
  BY <1>1, <1>3 DEF WavesAgree, NothingAhead
<1>5. engineWave'[e] = engineWave[e]
  BY <1>1, <1>3, <1>4 DEF Later, AddMsg, StartWave
<1>6. \A f \in Engines : WaveOf(f)' = WaveOf(f) /\ Pausing(f)' = Pausing(f)
  BY <1>2, <1>3, <1>5 DEF WaveOf, Pausing
<1>7. SameWave'
  BY <1>6, ZeroIsEngine DEF WavesAgree, SameWave
<1>8. \A f \in Engines : /\ In(f)' \subseteq In(f)
                         /\ Out(f) \subseteq Out(f)'
                         /\ Out(f)' \subseteq Out(f) \cup {StartWave(WaveOf(0))}
  BY <1>1, <1>2, <1>3
<1>9. NothingAhead'
  BY <1>2, <1>6, <1>8, ZeroIsEngine, WaveOfTyped DEF WavesAgree, NothingAhead, StartWave
<1>10. ClientLearns'
  BY <1>2, <1>6, <1>8, ZeroIsEngine DEF WavesAgree, ClientLearns
<1> QED
  BY <1>6, <1>7, <1>9, <1>10 DEF WavesAgree

\* The client learns of waves from engines that are in them.
LEMMA ClientAgrees ==
  ASSUME WavesTyped, WavesAgree,
         \/ \E q \in Reqs : ClientAdd(q) \/ ClientAbort(q)
         \/ \E e \in Engines : ClientReceive(e)
  PROVE  WavesAgree' /\ \A f \in Engines : WaveOf(f)' = WaveOf(f)
<1>0. UNCHANGED <<pc, verdict, engineWave>>
  BY DEF ClientAdd, ClientAbort, ClientReceive, loop
<1>1. \A f \in Engines : WaveOf(f)' = WaveOf(f) /\ Pausing(f)' = Pausing(f)
  BY <1>0 DEF WaveOf, Pausing
<1>2. SameWave' /\ WaveOf(0) \in Nat /\ wave \in Nat
  BY <1>1, ZeroIsEngine, WaveOfTyped DEF WavesAgree, SameWave, WavesTyped
<1>6. WaveOf(0)' = WaveOf(0) /\ (Pausing(0)' <=> Pausing(0))
  BY <1>1, ZeroIsEngine
<1>3. ASSUME NEW q \in Reqs, ClientAdd(q) PROVE NothingAhead' /\ ClientLearns'
  <2>1. wave' = wave
    BY <1>3 DEF ClientAdd
  <2> QED
    BY <1>1, <1>2, <1>3, <2>1, AddSends, ZeroIsEngine
       DEF WavesAgree, NothingAhead, ClientLearns, AddMsg, StartWave
<1>4. ASSUME NEW q \in Reqs, ClientAbort(q) PROVE NothingAhead' /\ ClientLearns'
  <2>1. wave' = wave
    BY <1>4 DEF ClientAbort
  <2> QED
    BY <1>1, <1>2, <1>4, <2>1, AbortSends, ZeroIsEngine
       DEF WavesAgree, NothingAhead, ClientLearns, AbortMsg
<1>5. ASSUME NEW e \in Engines, ClientReceive(e) PROVE NothingAhead' /\ ClientLearns'
  <2>1. PICK msg \in ToClient :
           /\ Out(e) = Out(e)' \cup {msg}
           /\ \A f \in Engines : f # e => Out(f)' = Out(f)
           /\ \/ /\ msg.kind = "outputs"
                 /\ UNCHANGED <<wave, running, input>>
              \/ /\ msg.kind # "outputs" /\ msg.wave \in Nat
                 /\ \/ /\ UNCHANGED <<wave, running, input>>
                       /\ msg.kind = "wave_complete" => wave > msg.wave
                    \/ /\ msg = Complete(msg.wave) /\ wave <= msg.wave
                       /\ wave' = msg.wave + 1 /\ input' = input
                    \/ /\ msg = StartWave(msg.wave) /\ ~NothingNew(msg.wave)
                       /\ wave' = msg.wave
                       /\ \A f \in Engines :
                            In(f)' = In(f) \cup IF f = e THEN {} ELSE {StartWave(msg.wave)}
    BY <1>5, Receives
  <2>2. /\ msg.kind = "start_wave" => msg.wave <= WaveOf(0)
        /\ msg.kind = "wave_complete" => msg.wave < WaveOf(0)
        /\ wave <= WaveOf(0)
    BY <2>1 DEF WavesAgree, NothingAhead
  <2>3. wave <= wave' /\ wave' <= WaveOf(0) /\ wave' \in Nat
    BY <1>2, <2>1, <2>2 DEF Complete, StartWave, NothingNew
  <2>4. \A f \in Engines : In(f)' \subseteq In(f) \cup {StartWave(wave')}
    BY <2>1 DEF In
  <2>5. NothingAhead'
    BY <1>1, <1>2, <2>1, <2>3, <2>4, ZeroIsEngine DEF WavesAgree, NothingAhead, StartWave
  <2>6. CASE wave = WaveOf(0)
    BY <1>2, <1>6, <2>3, <2>5, <2>6 DEF ClientLearns
  <2>7. CASE Pausing(0)
    BY <1>6, <2>5, <2>7 DEF ClientLearns
  <2>8. CASE wave # WaveOf(0) /\ Complete(WaveOf(0) - 1) \in Out(0)
    <3>1. CASE Complete(WaveOf(0) - 1) \in Out(0)'
      BY <1>6, <2>5, <3>1 DEF ClientLearns
    <3>2. CASE Complete(WaveOf(0) - 1) \notin Out(0)'
      <4>1. msg = Complete(WaveOf(0) - 1)
        BY <2>1, <2>8, <3>2, ZeroIsEngine
      <4>2. msg.kind = "wave_complete" /\ msg.wave = WaveOf(0) - 1
        BY <4>1 DEF Complete
      <4>3. wave' = WaveOf(0)
        BY <1>2, <2>1, <2>2, <2>8, <4>2 DEF StartWave
      <4> QED
        BY <1>6, <2>5, <4>3 DEF ClientLearns
    <3> QED
      BY <3>1, <3>2
  <2> QED
    BY <2>5, <2>6, <2>7, <2>8 DEF WavesAgree, ClientLearns
<1> QED
  BY <1>1, <1>2, <1>3, <1>4, <1>5 DEF WavesAgree

\* An engine that has decided is in the next wave already.
LEMMA LoopAgrees ==
  ASSUME WavesTyped, WavesAgree, NEW e \in Engines,
         Wakes(e) \/ BeginStep(e) \/ BeginIdle(e) \/ Update(e) \/ CountStep(e) \/ Decide(e)
  PROVE  WavesAgree' /\ \A f \in Engines : WaveOf(f)' = WaveOf(f)
<1>1. /\ UNCHANGED <<wave, verdict>>
      /\ \A f \in Engines : In(f)' = In(f)
      /\ \A f \in Engines : f # e => Out(f)' = Out(f)
  BY LoopSends DEF client
<1>2. \A f \in Engines : f # e => pc'[f] = pc[f] /\ engineWave'[f] = engineWave[f]
  BY DEF Wakes, BeginStep, BeginIdle, Update, CountStep, Decide, WavesTyped
<1>3. CASE Decide(e)
  <2>1. /\ pc[e] = "decide" /\ pc'[e] = "wait"
        /\ engineWave'[e] = engineWave[e] + IF verdict THEN 0 ELSE 1
        /\ engineWave[e] \in Nat
    BY <1>3 DEF Decide, WavesTyped
  <2>2. \A f \in Engines : WaveOf(f)' = WaveOf(f)
    BY <1>1, <1>2, <2>1 DEF WaveOf, Pausing
  <2>3. Out(e)' = Out(e) \cup (IF e = 0 /\ ~verdict THEN {Complete(engineWave[0])} ELSE {})
    BY <1>3, LoopSends
  <2>4. e = 0 /\ ~verdict => engineWave[0] = WaveOf(0) - 1
    BY <2>1 DEF WaveOf, Pausing
  <2>5. SameWave'
    BY <2>2, ZeroIsEngine DEF WavesAgree, SameWave
  <2>6. \A f \in Engines : Out(f)' \subseteq Out(f) \cup {Complete(WaveOf(0) - 1)}
    BY <1>1, <2>3, <2>4
  <2>7. NothingAhead'
    BY <1>1, <2>2, <2>6, ZeroIsEngine, WaveOfTyped DEF WavesAgree, NothingAhead, Complete
  <2>8. Out(0) \subseteq Out(0)'
    BY <1>1, <2>3, ZeroIsEngine
  <2>9. Pausing(0) => Pausing(0)' \/ Complete(WaveOf(0) - 1) \in Out(0)'
    BY <1>1, <1>2, <2>3, <2>4, ZeroIsEngine DEF Pausing
  <2>10. ClientLearns'
    BY <1>1, <2>2, <2>8, <2>9, ZeroIsEngine DEF WavesAgree, ClientLearns
  <2> QED
    BY <2>2, <2>5, <2>7, <2>10 DEF WavesAgree
<1>4. CASE ~Decide(e)
  <2>1. /\ pc[e] # "decide" /\ pc'[e] # "decide" /\ engineWave' = engineWave
        /\ Out(e) \subseteq Out(e)'
        /\ \A m \in Out(e)' : m \in Out(e) \/ m.kind = "outputs"
    <3>1. /\ pc[e] # "decide" /\ pc'[e] # "decide" /\ engineWave' = engineWave
      BY <1>4 DEF Wakes, BeginStep, BeginIdle, Update, CountStep, WavesTyped
    <3> QED
      BY <1>4, <3>1, LoopSends DEF Outputs
  <2>2. \A f \in Engines : WaveOf(f)' = WaveOf(f) /\ Pausing(f)' = Pausing(f)
    BY <1>1, <1>2, <2>1 DEF WaveOf, Pausing
  <2>3. SameWave'
    BY <2>2, ZeroIsEngine DEF WavesAgree, SameWave
  <2>4. NothingAhead'
    BY <1>1, <2>1, <2>2, ZeroIsEngine DEF WavesAgree, NothingAhead
  <2>5. ClientLearns'
    BY <1>1, <2>1, <2>2, ZeroIsEngine DEF WavesAgree, ClientLearns
  <2> QED
    BY <2>2, <2>3, <2>4, <2>5 DEF WavesAgree
<1> QED
  BY <1>3, <1>4

\* An all-reduce without unfinished requests is where the wave ends, for all.
LEMMA CollectiveAgrees ==
  ASSUME WavesTyped, WavesAgree, Collective
  PROVE  /\ WavesAgree'
         /\ \/ \A f \in Engines : WaveOf(f)' = WaveOf(f)
            \/ AllReduce /\ ~verdict' /\ WaveOf(0)' > WaveOf(0)
<1>1. /\ UNCHANGED <<wave, engineWave, input, output>>
      /\ \A f \in Engines : In(f)' = In(f) /\ Out(f)' = Out(f)
  BY DEF Collective, Forward, AllReduce, client, In, Out
<1>2. \A f \in Engines : pc[f] # "decide"
  BY DEF Collective, Forward, AllReduce
<1>3. \A f \in Engines : WaveOf(f) = engineWave[f] /\ WaveOf(f) \in Nat
  BY <1>2, WaveOfTyped DEF WaveOf, Pausing, WavesTyped
<1>4. CASE Forward \/ verdict'
  <2>1. \A f \in Engines : ~Pausing(f)'
    BY <1>4 DEF Collective, Forward, AllReduce, Pausing
  <2>2. \A f \in Engines : WaveOf(f)' = WaveOf(f) /\ Pausing(f)' = Pausing(f)
    BY <1>1, <1>2, <1>3, <2>1 DEF WaveOf, Pausing
  <2>3. SameWave'
    BY <2>2, ZeroIsEngine DEF WavesAgree, SameWave
  <2>4. NothingAhead' /\ ClientLearns'
    BY <1>1, <2>2, ZeroIsEngine DEF WavesAgree, NothingAhead, ClientLearns
  <2> QED
    BY <2>2, <2>3, <2>4 DEF WavesAgree
<1>5. CASE AllReduce /\ ~verdict'
  <2>1. \A f \in Engines : Pausing(f)'
    BY <1>5 DEF AllReduce, Pausing
  <2>2. \A f \in Engines : WaveOf(f)' = WaveOf(f) + 1
    BY <1>1, <1>3, <2>1 DEF WaveOf
  <2>3. SameWave' /\ ClientLearns'
    BY <2>1, <2>2, ZeroIsEngine DEF WavesAgree, SameWave, ClientLearns
  <2>4. NothingAhead'
    <3>1. \A f \in Engines : In(f) \subseteq ToEngine /\ Out(f) \subseteq ToClient
      BY InOut
    <3> QED
      <4>1. /\ WaveOf(0) \in Nat /\ WaveOf(0)' = WaveOf(0) + 1 /\ wave \in Nat
        BY <1>3, <2>2, ZeroIsEngine DEF WavesTyped
      <4>2. wave' <= WaveOf(0)'
        BY <1>1, <4>1 DEF WavesAgree, NothingAhead
      <4>3. ASSUME NEW f \in Engines, NEW m \in In(f), m.kind # "abort"
            PROVE  m.wave <= WaveOf(0)'
        <5>1. m.wave \in Nat
          BY <3>1, <4>3, MessageKinds
        <5>2. m.wave <= WaveOf(0)
          BY <4>3 DEF WavesAgree, NothingAhead
        <5> QED
          BY <4>1, <5>1, <5>2
      <4>4. ASSUME NEW f \in Engines, NEW m \in Out(f), m.kind # "outputs"
            PROVE  m.wave < WaveOf(0)'
        <5>1. m.wave \in Nat /\ m.kind \in {"start_wave", "wave_complete"}
          BY <3>1, <4>4, MessageKinds
        <5>2. m.wave <= WaveOf(0)
          BY <4>1, <5>1 DEF WavesAgree, NothingAhead
        <5> QED
          BY <4>1, <5>1, <5>2
      <4>5. \A f \in Engines : \A m \in Out(f) :
              m.kind \in {"start_wave", "wave_complete"} => m.wave < WaveOf(0)' /\ m.wave <= WaveOf(0)'
        <5>1. ASSUME NEW f \in Engines, NEW m \in Out(f), m.kind \in {"start_wave", "wave_complete"}
              PROVE  m.wave < WaveOf(0)' /\ m.wave <= WaveOf(0)'
          <6>1. m.kind # "outputs"
            BY <5>1
          <6>2. m.wave \in Nat
            BY <3>1, <6>1, MessageKinds
          <6> QED
            BY <4>1, <4>4, <6>1, <6>2
        <5> QED
          BY <5>1
      <4> QED
        BY <1>1, <4>2, <4>3, <4>5 DEF NothingAhead
  <2> QED
    BY <1>3, <1>5, <2>2, <2>3, <2>4, ZeroIsEngine DEF WavesAgree
<1> QED
  BY <1>4, <1>5 DEF Collective

-----------------------------------------------------------------------------
(* The requests *)

\* On its way to an engine; given to an engine in a step
Coming(q) == \E e \in Engines : \E m \in In(e) : m.kind = "add" /\ m.req = q
Scheduled(q) ==
  \/ q \in started
  \/ \E e \in Engines : \E m \in Out(e) : m.kind = "outputs" /\ q \in m.scheduled

\* An add is on its way to one engine, once.
AddsOnce ==
  \A e, f \in Engines : \A i \in 1 .. Len(input[e]), j \in 1 .. Len(input[f]) :
    /\ input[e][i].kind = "add" /\ input[f][j].kind = "add"
    /\ input[e][i].req = input[f][j].req
    => e = f /\ i = j

\* Aborts come after the first output.
AbortsLate ==
  /\ aborted \subseteq started
  /\ \A e \in Engines : \A m \in In(e) : m.kind = "abort" => m.req \in aborted

\* A request that is yet to be added, or to arrive, is at no engine.
Unstarted ==
  /\ \A e \in Engines : \A m \in In(e) : m.kind = "add" => m.req \in added
  /\ \A q \in Reqs : q \notin added \/ Coming(q) =>
       ~Scheduled(q) /\ \A e \in Engines : left[e][q] = 0

\* A request has one engine.
OneHome == \A q \in Reqs : \A e, f \in Engines : left[e][q] > 0 /\ left[f][q] > 0 => e = f

Requests == AddsOnce /\ AbortsLate /\ Unstarted /\ OneHome

\* An engine with requests that have been in a step goes on by itself.
RunsOn ==
  \A e \in Engines, q \in Reqs :
    Scheduled(q) /\ left[e][q] > 0 => \/ enginesRunning[e]
                                      \/ pc[e] \in {"sync", "allreduce", "decide"}

\* What an engine tells the others is so, and what they decide
Decided ==
  \A e \in Engines :
    /\ pc[e] \in {"sync", "allreduce"} \/ (pc[e] = "forward" /\ Unfinished(e) = {}) =>
         localUnfinished[e] = (Unfinished(e) # {})
    /\ Pausing(e) => Unfinished(e) = {}

\* There are no requests yet.
LEMMA InitRequests == Init => Requests /\ RunsOn /\ Decided
<1> SUFFICES ASSUME Init PROVE Requests /\ RunsOn /\ Decided
  OBVIOUS
<1>1. \A e \in Engines : /\ Len(input[e]) = 0 /\ Len(output[e]) = 0
                         /\ \A q \in Reqs : left[e][q] = 0
  BY DEF Init
<1>2. \A e \in Engines : In(e) = {} /\ Out(e) = {} /\ Unfinished(e) = {}
  BY <1>1 DEF In, Out, Elems, Unfinished
<1>3. AddsOnce
  BY <1>1 DEF AddsOnce
<1>4. AbortsLate /\ Unstarted /\ OneHome
  BY <1>1, <1>2 DEF Init, AbortsLate, Unstarted, Scheduled, OneHome
<1>5. RunsOn /\ Decided
  BY <1>1, <1>2 DEF Init, RunsOn, Decided, Pausing
<1> QED
  BY <1>3, <1>4, <1>5 DEF Requests

\* What adds no request leaves each of them added once.
LEMMA AddsKept ==
  ASSUME AddsOnce,
         \A f \in Engines : \A i \in 1 .. Len(input'[f]) : input'[f][i].kind = "add" =>
            i \in 1 .. Len(input[f]) /\ input'[f][i] = input[f][i]
  PROVE  AddsOnce'
<1> SUFFICES ASSUME NEW e \in Engines, NEW f \in Engines,
                    NEW i \in 1 .. Len(input'[e]), NEW j \in 1 .. Len(input'[f]),
                    input'[e][i].kind = "add", input'[f][j].kind = "add",
                    input'[e][i].req = input'[f][j].req
             PROVE  e = f /\ i = j
  BY DEF AddsOnce
<1>1. /\ i \in 1 .. Len(input[e]) /\ input'[e][i] = input[e][i]
      /\ j \in 1 .. Len(input[f]) /\ input'[f][j] = input[f][j]
  OBVIOUS
<1> QED
  BY <1>1 DEF AddsOnce

\* Nothing but messages and what the client knows is different
LEMMA ClientKeepsRequests ==
  ASSUME ~EarlyAborts, WavesTyped, Requests, RunsOn, Decided,
         \/ \E q \in Reqs : ClientAdd(q) \/ ClientAbort(q)
         \/ \E e \in Engines : ClientReceive(e)
  PROVE  Requests' /\ RunsOn' /\ Decided'
<1>0. UNCHANGED <<pc, verdict, enginesRunning, localUnfinished, left>>
  BY DEF ClientAdd, ClientAbort, ClientReceive, loop, work
<1>1. Decided' /\ OneHome'
  BY <1>0 DEF Decided, Pausing, Unfinished, Requests, OneHome
<1>2. ASSUME NEW q \in Reqs, ClientAdd(q) PROVE Requests' /\ RunsOn'
  <2>1. /\ q \notin added /\ added' = added \cup {q}
        /\ UNCHANGED <<aborted, started>>
    BY <1>2 DEF ClientAdd
  <2>2. \A f \in Engines : Out(f)' = Out(f)
    BY <1>2, AddSends
  <2>3. \A f \in Engines : \A m \in In(f)' :
          \/ m \in In(f)
          \/ m = AddMsg(q, wave)
          \/ m.kind = "start_wave"
    BY <1>2, AddSends DEF StartWave
  <2>4. \A p \in Reqs : /\ Scheduled(p)' <=> Scheduled(p)
                        /\ Coming(p)' => Coming(p) \/ p = q
    BY <2>1, <2>2, <2>3 DEF Scheduled, Coming, AddMsg
  <2>5. AbortsLate'
    BY <2>1, <2>3 DEF Requests, AbortsLate, AddMsg
  <2>6. Unstarted'
    BY <1>0, <2>1, <2>3, <2>4 DEF Requests, Unstarted, AddMsg
  <2>7. AddsOnce'
    <3>1. \A f \in Engines : \A i \in 1 .. Len(input'[f]) : input'[f][i].kind = "add" =>
             \/ i \in 1 .. Len(input[f]) /\ input'[f][i] = input[f][i]
             \/ i = Len(input[f]) + 1 /\ f = Chosen /\ input'[f][i].req = q
      <4>1. TAKE f \in Engines
      <4>2. \/ input'[f] = input[f]
            \/ input'[f] = Append(input[f], StartWave(wave))
            \/ f = Chosen /\ input'[f] = Append(input[f], AddMsg(q, wave))
        BY <1>2 DEF ClientAdd, WithStart, WavesTyped, AddMsg
      <4>3. input[f] \in Seq(ToEngine) /\ StartWave(wave) \in ToEngine /\ AddMsg(q, wave) \in ToEngine
        BY MessageKinds DEF WavesTyped, AddMsg
      <4> QED
        BY <4>2, <4>3 DEF AddMsg, StartWave
    <3>2. \A f \in Engines : \A i \in 1 .. Len(input[f]) :
             input[f][i].kind = "add" => input[f][i].req # q
      BY <2>1 DEF Requests, Unstarted, In, Elems
    <3> SUFFICES ASSUME NEW e \in Engines, NEW f \in Engines,
                        NEW i \in 1 .. Len(input'[e]), NEW j \in 1 .. Len(input'[f]),
                        input'[e][i].kind = "add", input'[f][j].kind = "add",
                        input'[e][i].req = input'[f][j].req
                 PROVE  e = f /\ i = j
      BY DEF AddsOnce
    <3>3. CASE input'[e][i].req = q
      <4>1. i = Len(input[e]) + 1 /\ e = Chosen
        BY <3>1, <3>2, <3>3
      <4>2. j = Len(input[f]) + 1 /\ f = Chosen
        BY <3>1, <3>2, <3>3
      <4> QED
        BY <4>1, <4>2
    <3>4. CASE input'[e][i].req # q
      <4>1. /\ i \in 1 .. Len(input[e]) /\ input'[e][i] = input[e][i]
            /\ j \in 1 .. Len(input[f]) /\ input'[f][j] = input[f][j]
        BY <3>1, <3>4
      <4> QED
        BY <4>1 DEF Requests, AddsOnce
    <3> QED
      BY <3>3, <3>4
  <2>8. RunsOn'
    BY <1>0, <2>4 DEF RunsOn
  <2> QED
    BY <1>1, <2>5, <2>6, <2>7, <2>8 DEF Requests
<1>3. ASSUME NEW q \in Reqs, ClientAbort(q) PROVE Requests' /\ RunsOn'
  <2>1. /\ UNCHANGED <<started, added>> /\ aborted' = aborted \cup {q} /\ q \in started
    BY <1>3 DEF ClientAbort
  <2>2. \A f \in Engines : Out(f)' = Out(f) /\ In(f)' \subseteq In(f) \cup {AbortMsg(q)}
    BY <1>3, AbortSends
  <2>3. \A p \in Reqs : /\ Scheduled(p)' <=> Scheduled(p)
                        /\ Coming(p)' => Coming(p)
    BY <2>1, <2>2 DEF Scheduled, Coming, AbortMsg
  <2>4. AbortsLate' /\ Unstarted'
    BY <1>0, <2>1, <2>2, <2>3 DEF Requests, AbortsLate, Unstarted, AbortMsg
  <2>5. AddsOnce'
    <3>1. ASSUME NEW f \in Engines, NEW i \in 1 .. Len(input'[f]), input'[f][i].kind = "add"
          PROVE i \in 1 .. Len(input[f]) /\ input'[f][i] = input[f][i]
      <4>1. input'[f] = input[f] \/ input'[f] = Append(input[f], AbortMsg(q))
        BY <1>3 DEF ClientAbort, WavesTyped, AbortMsg
      <4>2. input[f] \in Seq(ToEngine) /\ AbortMsg(q) \in ToEngine
        BY MessageKinds DEF WavesTyped, AbortMsg
      <4> QED
        BY <3>1, <4>1, <4>2 DEF AbortMsg
    <3> QED
      BY <3>1, AddsKept DEF Requests
  <2>6. RunsOn'
    BY <1>0, <2>3 DEF RunsOn
  <2> QED
    BY <1>1, <2>4, <2>5, <2>6 DEF Requests
<1>4. ASSUME NEW e \in Engines, ClientReceive(e) PROVE Requests' /\ RunsOn'
  <2>0. UNCHANGED <<added, aborted>>
    BY <1>4 DEF ClientReceive
  <2>1. PICK msg \in ToClient :
           /\ Out(e) = Out(e)' \cup {msg}
           /\ \A f \in Engines : f # e => Out(f)' = Out(f)
           /\ \/ /\ msg.kind = "outputs" /\ started' = started \cup msg.scheduled
                 /\ UNCHANGED <<wave, running, input>>
              \/ /\ msg.kind # "outputs" /\ started' = started
                 /\ \/ input' = input
                    \/ \A f \in Engines :
                         In(f)' = In(f) \cup IF f = e THEN {} ELSE {StartWave(msg.wave)}
    BY <1>4, Receives
  <2>2. \A f \in Engines : \A m \in In(f)' : m \in In(f) \/ m.kind = "start_wave"
    BY <2>1 DEF In, StartWave
  <2>3. started \subseteq started'
    BY <2>1
  <2>4. \A p \in Reqs : /\ Scheduled(p)' => Scheduled(p)
                        /\ Coming(p)' => Coming(p)
    BY <2>1, <2>2 DEF Scheduled, Coming
  <2>5. AbortsLate' /\ Unstarted'
    BY <1>0, <2>0, <2>2, <2>3, <2>4 DEF Requests, AbortsLate, Unstarted
  <2>6. AddsOnce'
    <3>1. ASSUME NEW f \in Engines, NEW i \in 1 .. Len(input'[f]), input'[f][i].kind = "add"
          PROVE i \in 1 .. Len(input[f]) /\ input'[f][i] = input[f][i]
      <4>1. input'[f] = input[f] \/ \E w \in Nat : input'[f] = Append(input[f], StartWave(w))
        <5> DEFINE msg0 == Head(output[e])
        <5>1. msg0 \in ToClient
          BY <1>4, ElemsOf DEF ClientReceive, WavesTyped
        <5>2. CASE msg0.kind = "start_wave"
          <6>1. ReceiveStart(e, msg0) /\ msg0.wave \in Nat
            BY <1>4, <5>1, <5>2, MessageKinds DEF ClientReceive
          <6>2. input' = input \/ input' = WithStart(input, e, msg0.wave)
            BY <6>1 DEF ReceiveStart
          <6> QED
            BY <6>1, <6>2 DEF WithStart
        <5>3. CASE msg0.kind # "start_wave"
          BY <1>4, <5>1, <5>3, MessageKinds DEF ClientReceive, ReceiveComplete, ReceiveOutputs
        <5> QED
          BY <5>2, <5>3
      <4>2. input[f] \in Seq(ToEngine) /\ \A w \in Nat : StartWave(w) \in ToEngine
        BY MessageKinds DEF WavesTyped
      <4>3. CASE input'[f] = input[f]
        BY <3>1, <4>3
      <4>4. ASSUME NEW w \in Nat, input'[f] = Append(input[f], StartWave(w))
            PROVE i \in 1 .. Len(input[f]) /\ input'[f][i] = input[f][i]
        <5>1. StartWave(w).kind # "add"
          BY DEF StartWave
        <5> QED
          BY <3>1, <4>2, <4>4, <5>1
      <4> QED
        BY <4>1, <4>3, <4>4
    <3> QED
      BY <3>1, AddsKept DEF Requests
  <2>7. RunsOn'
    BY <1>0, <2>4 DEF RunsOn
  <2> QED
    BY <1>1, <2>5, <2>6, <2>7 DEF Requests
<1> QED
  BY <1>1, <1>2, <1>3, <1>4

\* An add that arrives was the only one, of a request at no engine; an
\* abort, or a start, leaves the engines' requests as they were.
LEMMA HandleKeepsRequests ==
  ASSUME WavesTyped, Requests, RunsOn, Decided, NEW e \in Engines, Handle(e),
         pc[e] \in {"wait", "drain"}
  PROVE  Requests' /\ RunsOn' /\ Decided'
<1>1. /\ UNCHANGED <<client, pc, verdict, localUnfinished>>
      /\ \A f \in Engines : f # e => /\ In(f)' = In(f) /\ Out(f)' = Out(f)
                                     /\ input'[f] = input[f]
                                     /\ enginesRunning'[f] = enginesRunning[f]
                                     /\ left'[f] = left[f]
      /\ input[e] # << >> /\ input'[e] = Tail(input[e]) /\ input[e] \in Seq(ToEngine)
      /\ UNCHANGED <<started, added, aborted>>
  BY Handles DEF client, WavesTyped
<1>2. PICK msg \in ToEngine :
        /\ msg = Head(input[e])
        /\ In(e) = In(e)' \cup {msg}
        /\ \/ /\ msg = AddMsg(msg.req, msg.wave) /\ msg.req \in Reqs /\ msg.wave \in Nat
              /\ Out(e)' = Out(e) \cup (IF AnswersOldWave(e, msg.wave)
                                        THEN {StartWave(engineWave[e])} ELSE {})
              /\ left'[e] = [left[e] EXCEPT ![msg.req] = Steps[msg.req]]
              /\ enginesRunning'[e] = enginesRunning[e]
           \/ /\ msg = AbortMsg(msg.req) /\ msg.req \in Reqs
              /\ left'[e] = [left[e] EXCEPT ![msg.req] = 0]
              /\ Out(e)' = Out(e) /\ enginesRunning'[e] = enginesRunning[e]
           \/ /\ msg = StartWave(msg.wave) /\ msg.wave \in Nat
              /\ enginesRunning'[e] = (enginesRunning[e] \/ Starts(e, msg.wave))
              /\ Out(e)' = Out(e) /\ left'[e] = left[e]
  BY Handles
<1>3. \A f \in Engines : /\ In(f)' \subseteq In(f)
                         /\ \A m \in Out(f)' : m \in Out(f) \/ m.kind = "start_wave"
                         /\ Out(f) \subseteq Out(f)'
                         /\ enginesRunning[f] => enginesRunning'[f]
  <2>1. TAKE f \in Engines
  <2>2. CASE f = e
    <3>1. enginesRunning[f] \in BOOLEAN
      BY DEF WavesTyped
    <3>2. enginesRunning[f] => enginesRunning'[f]
      BY <1>2, <2>2, <3>1
    <3>3. /\ Out(f) \subseteq Out(f)'
          /\ \A m \in Out(f)' : m \in Out(f) \/ m.kind = "start_wave"
      BY <1>2, <2>2 DEF StartWave
    <3>4. In(f)' \subseteq In(f)
      BY <1>2, <2>2
    <3> QED
      BY <3>2, <3>3, <3>4
  <2>3. CASE f # e
    BY <1>1, <2>3
  <2> QED
    BY <2>2, <2>3
<1>4. \A p \in Reqs : /\ Scheduled(p)' <=> Scheduled(p)
                      /\ Coming(p)' => Coming(p)
  BY <1>1, <1>3 DEF Scheduled, Coming
<1>5. AbortsLate'
  BY <1>1, <1>3 DEF Requests, AbortsLate
<1>6. /\ Len(input[e]) \in Nat \ {0} /\ Len(Tail(input[e])) = Len(input[e]) - 1
      /\ Head(input[e]) = input[e][1]
      /\ \A i \in 1 .. Len(input[e]) - 1 : Tail(input[e])[i] = input[e][i + 1]
  BY <1>1
<1>7. \A f \in Engines : \A i \in 1 .. Len(input'[f]) :
         IF f = e THEN /\ i + 1 \in 1 .. Len(input[f]) /\ i + 1 # 1
                       /\ input'[f][i] = input[f][i + 1]
                  ELSE i \in 1 .. Len(input[f]) /\ input'[f][i] = input[f][i]
  <2>1. TAKE f \in Engines
  <2>2. TAKE i \in 1 .. Len(input'[f])
  <2>3. CASE f = e
    <3>1. input'[f] = Tail(input[e]) /\ i \in 1 .. Len(input[e]) - 1
      BY <1>1, <1>6, <2>3
    <3>2. i + 1 \in 1 .. Len(input[e]) /\ i + 1 # 1
      BY <1>6, <3>1
    <3> QED
      BY <1>6, <2>3, <3>1, <3>2
  <2>4. CASE f # e
    BY <1>1, <2>4
  <2> QED
    BY <2>3, <2>4
<1>15. AddsOnce'
  <2> SUFFICES ASSUME NEW g \in Engines, NEW f \in Engines,
                      NEW i \in 1 .. Len(input'[g]), NEW j \in 1 .. Len(input'[f]),
                      input'[g][i].kind = "add", input'[f][j].kind = "add",
                      input'[g][i].req = input'[f][j].req
               PROVE  g = f /\ i = j
    BY DEF AddsOnce
  <2>1. PICK k \in 1 .. Len(input[g]) : input'[g][i] = input[g][k] /\ k = IF g = e THEN i + 1 ELSE i
    BY <1>7
  <2>2. PICK l \in 1 .. Len(input[f]) : input'[f][j] = input[f][l] /\ l = IF f = e THEN j + 1 ELSE j
    BY <1>7
  <2>3. g = f /\ k = l
    BY <2>1, <2>2 DEF Requests, AddsOnce
  <2> QED
    BY <2>1, <2>2, <2>3
<1>8. msg.kind = "add" => ~Coming(msg.req)'
  <2> SUFFICES ASSUME msg.kind = "add", NEW f \in Engines, NEW m \in In(f)',
                      m.kind = "add", m.req = msg.req
               PROVE  FALSE
    BY DEF Coming
  <2>1. PICK i \in 1 .. Len(input'[f]) : m = input'[f][i]
    BY DEF In, Elems
  <2>2. PICK k \in 1 .. Len(input[f]) : m = input[f][k] /\ (f = e => k # 1)
    BY <1>7, <2>1
  <2>3. 1 \in 1 .. Len(input[e]) /\ msg = input[e][1]
    BY <1>2, <1>6
  <2> QED
    BY <2>2, <2>3 DEF Requests, AddsOnce
<1>9. \A f \in Engines : left[f] \in [Reqs -> Nat]
  BY DEF WavesTyped
<1>10. \A f \in Engines, q \in Reqs :
         left'[f][q] > 0 => left[f][q] > 0 \/ (f = e /\ msg.kind = "add" /\ msg.req = q)
  <2>1. TAKE f \in Engines
  <2>2. TAKE q \in Reqs
  <2>3. CASE f # e
    BY <1>1, <2>3
  <2>4. CASE f = e
    <3>1. left[e] \in [Reqs -> Nat]
      BY <1>9
    <3>2. CASE msg = AddMsg(msg.req, msg.wave)
      BY <1>2, <2>4, <3>1, <3>2 DEF AddMsg, AbortMsg, StartWave
    <3>3. CASE msg.kind # "add"
      BY <1>2, <2>4, <3>1, <3>3 DEF AddMsg
    <3> QED
      BY <1>2, <3>2, <3>3 DEF AbortMsg, StartWave
  <2> QED
    BY <2>3, <2>4
<1>11. Unstarted'
  <2>1. \A f \in Engines : \A m \in In(f)' : m.kind = "add" => m.req \in added'
    BY <1>1, <1>3 DEF Requests, Unstarted
  <2>2. ASSUME NEW q \in Reqs, q \notin added' \/ Coming(q)'
        PROVE  ~Scheduled(q)' /\ \A f \in Engines : left'[f][q] = 0
    <3>1. q \notin added \/ Coming(q)
      BY <1>1, <1>4, <2>2
    <3>2. ~Scheduled(q)' /\ \A f \in Engines : left[f][q] = 0
      BY <1>4, <3>1 DEF Requests, Unstarted
    <3>3. msg.kind = "add" => msg.req # q
      <4>1. msg.kind = "add" => msg.req \in added
        BY <1>2 DEF Requests, Unstarted
      <4> QED
        BY <1>1, <1>8, <2>2, <4>1
    <3>4. \A f \in Engines : left'[f][q] = 0
      BY <1>1, <1>2, <1>9, <3>2, <3>3 DEF AddMsg
    <3> QED
      BY <3>2, <3>4
  <2> QED
    BY <2>1, <2>2 DEF Unstarted
<1>12. OneHome'
  <2>1. msg.kind = "add" => msg.req \in Reqs /\ \A f \in Engines : left[f][msg.req] = 0
    <3>1. msg.kind = "add" => msg.req \in Reqs /\ Coming(msg.req)
      BY <1>2, MessageKinds DEF Coming
    <3> QED
      BY <3>1 DEF Requests, Unstarted
  <2> QED
    BY <1>9, <1>10, <2>1 DEF Requests, OneHome
<1>13. RunsOn'
  <2>1. msg.kind = "add" => ~Scheduled(msg.req)
    <3>1. msg.kind = "add" => msg.req \in Reqs /\ Coming(msg.req)
      BY <1>2, MessageKinds DEF Coming
    <3> QED
      BY <3>1 DEF Requests, Unstarted
  <2> QED
    BY <1>1, <1>3, <1>4, <1>10, <2>1 DEF RunsOn
<1>14. Decided'
  <2>1. \A f \in Engines : f # e => Unfinished(f)' = Unfinished(f)
    BY <1>1 DEF Unfinished
  <2> QED
    BY <1>1, <2>1 DEF Decided, Pausing
<1> QED
  BY <1>5, <1>15, <1>11, <1>12, <1>13, <1>14 DEF Requests

\* update_from_output takes the requests that are done from the unfinished.
LEMMA UpdateLeaves ==
  ASSUME WavesTyped, NEW e \in Engines, Update(e)
  PROVE  /\ pc[e] = "update" /\ pc'[e] = "sync"
         /\ \A q \in Reqs : left'[e][q] > 0 <=> left[e][q] > 0 /\ q \notin Done(e)
         /\ Unfinished(e)' = Unfinished(e) \ Done(e) /\ Done(e) \subseteq Unfinished(e)
         /\ localUnfinished'[e] = (Unfinished(e) # Done(e))
<1>1. /\ left'[e] = [q \in Reqs |-> IF q \in batch[e] THEN left[e][q] - 1 ELSE left[e][q]]
      /\ localUnfinished'[e] = (Unfinished(e) # Done(e))
      /\ pc[e] = "update" /\ pc'[e] = "sync"
  BY DEF Update, WavesTyped, Done
<1>2. /\ left[e] \in [Reqs -> Nat] /\ \A q \in batch[e] : q \in Reqs /\ left[e][q] > 0
  BY DEF WavesTyped, Unfinished
<1>3. \A q \in Reqs : left'[e][q] > 0 <=> left[e][q] > 0 /\ q \notin Done(e)
  BY <1>1, <1>2 DEF Done
<1>4. Unfinished(e)' = Unfinished(e) \ Done(e) /\ Done(e) \subseteq Unfinished(e)
  BY <1>2, <1>3 DEF Unfinished, Done
<1> QED
  BY <1>1, <1>3, <1>4

\* A step schedules unfinished requests, which have one engine and no add
\* on its way, and the engine goes on until it counts the step.
LEMMA LoopKeepsRequests ==
  ASSUME WavesTyped, Requests, RunsOn, Decided, NEW e \in Engines,
         Wakes(e) \/ BeginStep(e) \/ BeginIdle(e) \/ Update(e) \/ CountStep(e) \/ Decide(e)
  PROVE  Requests' /\ RunsOn' /\ Decided'
<1>1. /\ UNCHANGED <<verdict, input, added, started, aborted>>
      /\ \A f \in Engines : In(f)' = In(f)
      /\ \A f \in Engines : f # e => Out(f)' = Out(f)
  BY LoopSends DEF client
<1>2. \A f \in Engines : f # e => /\ pc'[f] = pc[f] /\ left'[f] = left[f]
                                  /\ localUnfinished'[f] = localUnfinished[f]
                                  /\ enginesRunning'[f] = enginesRunning[f]
  BY DEF Wakes, BeginStep, BeginIdle, Update, CountStep, Decide, WavesTyped, work
<1>3. ~Update(e) => left' = left
  BY DEF Wakes, BeginStep, BeginIdle, Update, CountStep, Decide, work
<1>4. /\ Out(e) \subseteq Out(e)'
      /\ \A m \in Out(e)' : m.kind = "outputs" =>
           \/ m \in Out(e) \/ m.scheduled = {}
           \/ Update(e) /\ m.scheduled = batch[e]
  <2>1. CASE Update(e)
    BY <2>1, LoopSends DEF Outputs
  <2>2. CASE ~Update(e)
    BY <2>2, LoopSends DEF Outputs, Complete
  <2> QED
    BY <2>1, <2>2
<1>5. \A q \in batch[e] : q \in Reqs /\ left[e][q] > 0
  BY DEF WavesTyped, Unfinished
<1>6. \A f \in Engines, q \in Reqs : /\ left[f][q] \in Nat /\ left'[f][q] \in Nat
                                     /\ left'[f][q] > 0 => left[f][q] > 0
  <2>1. TAKE f \in Engines
  <2>2. TAKE q \in Reqs
  <2>3. WavesTyped'
    BY EngineTyped DEF Engine
  <2>4. left[f][q] \in Nat /\ left'[f][q] \in Nat
    BY <2>3 DEF WavesTyped
  <2>5. CASE f = e /\ Update(e)
    BY <2>4, <2>5, UpdateLeaves
  <2>6. CASE f # e \/ ~Update(e)
    BY <1>2, <1>3, <2>4, <2>6
  <2> QED
    BY <2>4, <2>5, <2>6
<1>7. \A q \in Reqs : /\ Coming(q)' <=> Coming(q)
                      /\ Scheduled(q)' => Scheduled(q) \/ (Update(e) /\ q \in batch[e])
  BY <1>1, <1>4 DEF Coming, Scheduled
<1>8. AddsOnce' /\ AbortsLate'
  BY <1>1 DEF Requests, AddsOnce, AbortsLate
<1>9. Unstarted'
  <2>1. ASSUME NEW q \in Reqs, q \notin added' \/ Coming(q)'
        PROVE  ~Scheduled(q)' /\ \A f \in Engines : left'[f][q] = 0
    <3>1. ~Scheduled(q) /\ \A f \in Engines : left[f][q] = 0
      BY <1>1, <1>7, <2>1 DEF Requests, Unstarted
    <3>2. q \notin batch[e]
      BY <1>5, <3>1
    <3> QED
      BY <1>6, <1>7, <3>1, <3>2
  <2> QED
    BY <1>1, <2>1 DEF Requests, Unstarted
<1>10. OneHome'
  BY <1>6 DEF Requests, OneHome
<1>11. RunsOn'
  <2> SUFFICES ASSUME NEW f \in Engines, NEW q \in Reqs, Scheduled(q)', left'[f][q] > 0
               PROVE  enginesRunning'[f] \/ pc'[f] \in {"sync", "allreduce", "decide"}
    BY DEF RunsOn
  <2>1. CASE ~Scheduled(q)
    <3>1. Update(e) /\ left[e][q] > 0 /\ left[f][q] > 0
      BY <1>5, <1>6, <1>7, <2>1
    <3>2. f = e
      BY <3>1 DEF Requests, OneHome
    <3> QED
      BY <3>1, <3>2, UpdateLeaves
  <2>2. CASE Scheduled(q)
    <3>1. enginesRunning[f] \/ pc[f] \in {"sync", "allreduce", "decide"}
      BY <1>6, <2>2 DEF RunsOn
    <3>2. CASE f # e
      BY <1>2, <3>1, <3>2
    <3>3. CASE f = e /\ (Wakes(e) \/ BeginStep(e) \/ BeginIdle(e))
      BY <3>1, <3>3 DEF Wakes, BeginStep, BeginIdle
    <3>4. CASE f = e /\ Update(e)
      BY <3>4, UpdateLeaves
    <3>5. CASE f = e /\ CountStep(e)
      <4>1. CASE counter[e] + 1 # SyncEvery
        BY <3>5, <4>1 DEF CountStep, WavesTyped
      <4>2. CASE counter[e] + 1 = SyncEvery
        BY <3>5, <4>2 DEF CountStep, WavesTyped
      <4> QED
        BY <4>1, <4>2
    <3>6. CASE f = e /\ Decide(e)
      <4>1. verdict
        <5>1. Unfinished(e) # {} /\ pc[e] = "decide"
          BY <1>6, <3>6 DEF Unfinished, Decide
        <5> QED
          BY <5>1 DEF Decided, Pausing
      <4> QED
        BY <3>6, <4>1 DEF Decide, WavesTyped
    <3> QED
      BY <3>2, <3>3, <3>4, <3>5, <3>6
  <2> QED
    BY <2>1, <2>2
<1>12. Decided'
  <2>1. \A f \in Engines : f # e => Unfinished(f)' = Unfinished(f)
    BY <1>2 DEF Unfinished
  <2>2. ASSUME NEW f \in Engines, f # e
        PROVE  /\ pc'[f] \in {"sync", "allreduce"} \/ (pc'[f] = "forward" /\ Unfinished(f)' = {}) =>
                    localUnfinished'[f] = (Unfinished(f)' # {})
               /\ Pausing(f)' => Unfinished(f)' = {}
    BY <1>1, <1>2, <2>1, <2>2 DEF Decided, Pausing
  <2>3. /\ pc'[e] \in {"sync", "allreduce"} \/ (pc'[e] = "forward" /\ Unfinished(e)' = {}) =>
              localUnfinished'[e] = (Unfinished(e)' # {})
        /\ Pausing(e)' => Unfinished(e)' = {}
    <3>1. CASE Wakes(e) \/ Decide(e)
      BY <3>1 DEF Wakes, Decide, Pausing, WavesTyped
    <3>2. CASE BeginStep(e)
      <4>1. Unfinished(e)' # {} /\ pc'[e] \in {"update", "forward"}
        BY <1>3, <3>2 DEF BeginStep, Unfinished, work, WavesTyped
      <4> QED
        BY <4>1 DEF Pausing
    <3>3. CASE BeginIdle(e)
      <4>1. /\ Unfinished(e)' = {} /\ localUnfinished'[e] = FALSE /\ pc'[e] \in {"forward", "wait"}
        BY <3>3 DEF BeginIdle, Unfinished, WavesTyped
      <4> QED
        BY <4>1 DEF Pausing
    <3>4. CASE Update(e)
      BY <3>4, UpdateLeaves DEF Pausing
    <3>5. CASE CountStep(e)
      <4>1. /\ pc[e] = "sync" /\ pc'[e] \in {"wait", "allreduce"}
            /\ localUnfinished' = localUnfinished /\ Unfinished(e)' = Unfinished(e)
        BY <1>3, <3>5 DEF CountStep, WavesTyped, Unfinished, work
      <4> QED
        BY <4>1 DEF Decided, Pausing
    <3> QED
      BY <3>1, <3>2, <3>3, <3>4, <3>5
  <2> QED
    BY <2>2, <2>3 DEF Decided
<1> QED
  BY <1>8, <1>9, <1>10, <1>11, <1>12 DEF Requests

\* An engine that says it has no unfinished requests has none, so after an
\* all-reduce that found none there are none.
LEMMA CollectiveKeepsRequests ==
  ASSUME WavesTyped, Requests, RunsOn, Decided, Collective
  PROVE  Requests' /\ RunsOn' /\ Decided'
<1>1. /\ UNCHANGED <<input, output, added, started, aborted, left, enginesRunning, localUnfinished>>
      /\ \A f \in Engines : In(f)' = In(f) /\ Out(f)' = Out(f) /\ Unfinished(f)' = Unfinished(f)
  BY DEF Collective, Forward, AllReduce, client, work, In, Out, Unfinished
<1>2. \A q \in Reqs : (Coming(q)' <=> Coming(q)) /\ (Scheduled(q)' <=> Scheduled(q))
  BY <1>1 DEF Coming, Scheduled
<1>3. AddsOnce' /\ AbortsLate' /\ Unstarted' /\ OneHome'
  BY <1>1, <1>2 DEF Requests, AddsOnce, AbortsLate, Unstarted, OneHome
<1>4. RunsOn'
  <2>1. \A f \in Engines : pc[f] \in {"sync", "allreduce", "decide"} =>
                           pc'[f] \in {"sync", "allreduce", "decide"}
    BY DEF Collective, Forward, AllReduce
  <2> QED
    BY <1>1, <1>2, <2>1 DEF RunsOn
<1>5. Decided'
  <2>1. CASE Forward
    <3>1. \A f \in Engines : /\ pc[f] = "forward"
                             /\ pc'[f] = IF Unfinished(f) = {} THEN "sync" ELSE "update"
      BY <2>1 DEF Forward
    <3> QED
      BY <1>1, <3>1 DEF Decided, Pausing
  <2>2. CASE AllReduce
    <3>1. \A f \in Engines : pc[f] = "allreduce" /\ pc'[f] = "decide"
      BY <2>2 DEF AllReduce
    <3>2. ASSUME NEW f \in Engines, ~verdict' PROVE Unfinished(f) = {}
      <4>1. ~localUnfinished[f]
        BY <2>2, <3>2 DEF AllReduce, AnyUnfinished
      <4> QED
        BY <3>1, <4>1 DEF Decided
    <3> QED
      BY <1>1, <3>1, <3>2 DEF Decided, Pausing
  <2> QED
    BY <2>1, <2>2 DEF Collective
<1> QED
  BY <1>3, <1>4, <1>5 DEF Requests

-----------------------------------------------------------------------------
(* Who knows of the wave *)

\* In the wave, until the all-reduce has ended it
On(e) == ~Pausing(e) /\ \/ enginesRunning[e] \/ Unfinished(e) # {}
                        \/ pc[e] \in {"forward", "update", "sync", "allreduce", "decide"}

\* The client takes the engines for running, or is about to be told to.
Known == \/ wave = WaveOf(0) /\ running
         \/ \E f \in Engines : StartWave(WaveOf(0)) \in Out(f)

\* In the wave, or about to be
Busy(e) == \/ On(e) \/ \E m \in In(e) : m.kind = "add"
           \/ StartWave(WaveOf(0)) \in In(e)

\* An engine in the wave is known to be,
OnKnown == \A e \in Engines : On(e) => Known

\* and if the client takes the engines for running one of them is, or will be;
KnownBusy == Known => \E e \in Engines : Busy(e)

\* what is on its way for this wave was sent when the wave was known.
ComingKnown == \A e \in Engines : \A m \in In(e) :
                 m.kind # "abort" /\ m.wave = WaveOf(0) => Known

WaveKnown == OnKnown /\ KnownBusy /\ ComingKnown

\* Nobody runs, and nobody is taken for running.
LEMMA InitWaveKnown == Init => WaveKnown
<1> SUFFICES ASSUME Init PROVE WaveKnown
  OBVIOUS
<1>1. \A e \in Engines : /\ Len(input[e]) = 0 /\ Len(output[e]) = 0
                         /\ \A q \in Reqs : left[e][q] = 0
  BY DEF Init
<1>2. \A e \in Engines : In(e) = {} /\ Out(e) = {} /\ Unfinished(e) = {}
  BY <1>1 DEF In, Out, Elems, Unfinished
<1>3. \A e \in Engines : ~On(e)
  BY <1>2 DEF Init, On
<1> QED
  BY <1>2, <1>3 DEF Init, WaveKnown, OnKnown, KnownBusy, ComingKnown, Known

\* The messages between the client and the engines are as they were, or as
\* good, and so are the engines.
LEMMA ClientKeepsKnown ==
  ASSUME WavesTyped, WavesAgree, WaveKnown,
         \/ \E q \in Reqs : ClientAdd(q) \/ ClientAbort(q)
         \/ \E e \in Engines : ClientReceive(e)
  PROVE  WaveKnown'
<1>1. /\ UNCHANGED <<pc, verdict, enginesRunning, left>>
      /\ WaveOf(0)' = WaveOf(0)
  BY ClientAgrees, ZeroIsEngine DEF ClientAdd, ClientAbort, ClientReceive, loop, work
<1>2. \A f \in Engines : On(f)' <=> On(f)
  BY <1>1 DEF On, Pausing, Unfinished
<1>3. ASSUME NEW q \in Reqs, ClientAdd(q) PROVE WaveKnown'
  <2>1. wave' = wave /\ running' = TRUE
    BY <1>3 DEF ClientAdd
  <2>2. \A f \in Engines : /\ In(f)' = In(f) \cup (IF f = Chosen THEN {AddMsg(q, wave)}
                                                   ELSE IF running THEN {} ELSE {StartWave(wave)})
                           /\ Out(f)' = Out(f)
    BY <1>3, AddSends
  <2>3. Known => Known'
    BY <1>1, <2>1, <2>2 DEF Known
  <2>4. \A f \in Engines : Busy(f) => Busy(f)'
    BY <1>1, <1>2, <2>2 DEF Busy
  <2>5. OnKnown'
    BY <1>2, <2>3 DEF WaveKnown, OnKnown
  <2>6. KnownBusy'
    <3>1. CASE Known
      BY <2>4, <3>1 DEF WaveKnown, KnownBusy
    <3>2. CASE ~Known
      <4>1. CASE Known'
        <5>1. wave = WaveOf(0) /\ ~running
          BY <1>1, <2>1, <2>2, <3>2, <4>1 DEF Known
        <5>2. AddMsg(q, wave).kind = "add"
          BY DEF AddMsg
        <5> QED
          BY <1>1, <2>2, <5>1, <5>2, ZeroIsEngine DEF KnownBusy, Busy
      <4> QED
        BY <4>1 DEF KnownBusy
    <3> QED
      BY <3>1, <3>2
  <2>7. ComingKnown'
    <3> SUFFICES ASSUME NEW f \in Engines, NEW m \in In(f)', m.kind # "abort", m.wave = WaveOf(0)
                 PROVE  Known'
      BY <1>1 DEF ComingKnown
    <3>1. CASE m \in In(f)
      BY <2>3, <3>1 DEF WaveKnown, ComingKnown
    <3>2. CASE m \notin In(f)
      <4>1. m = AddMsg(q, wave) \/ m = StartWave(wave)
        BY <2>2, <3>2
      <4>2. m.wave = wave
        BY <4>1 DEF AddMsg, StartWave
      <4> QED
        BY <1>1, <2>1, <4>2 DEF Known
    <3> QED
      BY <3>1, <3>2
  <2> QED
    BY <2>5, <2>6, <2>7 DEF WaveKnown
<1>4. ASSUME NEW q \in Reqs, ClientAbort(q) PROVE WaveKnown'
  <2>1. wave' = wave /\ running' = running
    BY <1>4 DEF ClientAbort
  <2>2. \A f \in Engines : /\ In(f) \subseteq In(f)' /\ In(f)' \subseteq In(f) \cup {AbortMsg(q)}
                           /\ Out(f)' = Out(f)
    BY <1>4, AbortSends
  <2>3. Known' <=> Known
    BY <1>1, <2>1, <2>2 DEF Known
  <2>4. \A f \in Engines : Busy(f) => Busy(f)'
    BY <1>1, <1>2, <2>2 DEF Busy
  <2>5. OnKnown' /\ KnownBusy'
    BY <1>2, <2>3, <2>4 DEF WaveKnown, OnKnown, KnownBusy
  <2>6. ComingKnown'
    BY <1>1, <2>2, <2>3 DEF WaveKnown, ComingKnown, AbortMsg
  <2> QED
    BY <2>5, <2>6 DEF WaveKnown
<1>5. ASSUME NEW e \in Engines, ClientReceive(e) PROVE WaveKnown'
  <2>1. PICK msg \in ToClient :
           /\ Out(e) = Out(e)' \cup {msg}
           /\ \A f \in Engines : f # e => Out(f)' = Out(f)
           /\ \/ /\ msg.kind = "outputs" /\ started' = started \cup msg.scheduled
                 /\ UNCHANGED <<wave, running, input>>
              \/ /\ msg.kind # "outputs" /\ started' = started /\ msg.wave \in Nat
                 /\ \/ /\ UNCHANGED <<wave, running, input>>
                       /\ msg.kind = "wave_complete" => wave > msg.wave
                       /\ msg.kind = "start_wave" => NothingNew(msg.wave)
                    \/ /\ msg = Complete(msg.wave) /\ wave <= msg.wave
                       /\ wave' = msg.wave + 1 /\ running' = FALSE /\ input' = input
                    \/ /\ msg = StartWave(msg.wave) /\ ~NothingNew(msg.wave)
                       /\ wave' = msg.wave /\ running' = TRUE
                       /\ \A f \in Engines :
                            In(f)' = In(f) \cup IF f = e THEN {} ELSE {StartWave(msg.wave)}
    BY <1>5, Receives
  <2>2. /\ wave \in Nat /\ WaveOf(0) \in Nat /\ wave <= WaveOf(0) /\ msg \in Out(e)
        /\ msg.kind = "wave_complete" => msg.wave < WaveOf(0)
    BY <2>1, ZeroIsEngine, WaveOfTyped DEF WavesTyped, WavesAgree, NothingAhead
  <2>3. \A f \in Engines : /\ In(f) \subseteq In(f)' /\ Out(f)' \subseteq Out(f)
                           /\ \A m \in In(f)' : m \in In(f) \/ (m = StartWave(wave') /\ running')
    BY <2>1 DEF In
  <2>4. CASE UNCHANGED <<wave, running, input>>
    <3>1. Known => Known'
      <4>1. CASE wave = WaveOf(0) /\ running
        BY <1>1, <2>4, <4>1 DEF Known
      <4>2. ASSUME NEW f \in Engines, StartWave(WaveOf(0)) \in Out(f) PROVE Known'
        <5>1. CASE StartWave(WaveOf(0)) \in Out(f)'
          BY <1>1, <5>1 DEF Known
        <5>2. CASE StartWave(WaveOf(0)) \notin Out(f)'
          <6>1. msg = StartWave(WaveOf(0))
            BY <2>1, <4>2, <5>2
          <6>2. msg.kind = "start_wave" /\ msg.wave = WaveOf(0)
            BY <6>1 DEF StartWave
          <6>3. NothingNew(WaveOf(0))
            <7>1. CASE NothingNew(msg.wave)
              BY <6>2, <7>1
            <7>2. CASE ~NothingNew(msg.wave)
              <8>1. wave' = msg.wave /\ running' = TRUE
                BY <2>1, <6>2, <7>2 DEF Complete
              <8> QED
                BY <2>4, <6>2, <8>1 DEF NothingNew
            <7> QED
              BY <7>1, <7>2
          <6> QED
            BY <1>1, <2>2, <2>4, <6>3 DEF Known, NothingNew
        <5> QED
          BY <5>1, <5>2
      <4> QED
        BY <4>1, <4>2 DEF Known
    <3>2. Known' => Known
      BY <1>1, <2>3, <2>4 DEF Known
    <3>3. \A f \in Engines : In(f)' = In(f)
      BY <2>4 DEF In
    <3>4. \A f \in Engines : Busy(f)' <=> Busy(f)
      BY <1>1, <1>2, <3>3 DEF Busy
    <3> QED
      BY <1>1, <1>2, <3>1, <3>2, <3>3, <3>4 DEF WaveKnown, OnKnown, KnownBusy, ComingKnown
  <2>5. CASE /\ msg = Complete(msg.wave) /\ wave <= msg.wave /\ msg.wave \in Nat
             /\ wave' = msg.wave + 1 /\ running' = FALSE /\ input' = input
    <3>1. msg.kind = "wave_complete" /\ wave < WaveOf(0)
      BY <2>2, <2>5 DEF Complete
    <3>2. Known <=> Known'
      <4>1. wave # WaveOf(0)
        BY <2>2, <3>1
      <4>2. msg # StartWave(WaveOf(0))
        BY <3>1 DEF StartWave
      <4>3. \A f \in Engines : StartWave(WaveOf(0)) \in Out(f)' <=> StartWave(WaveOf(0)) \in Out(f)
        BY <2>1, <4>2
      <4> QED
        BY <1>1, <2>5, <4>1, <4>3 DEF Known
    <3>3. \A f \in Engines : In(f)' = In(f)
      BY <2>5 DEF In
    <3>4. \A f \in Engines : Busy(f)' <=> Busy(f)
      BY <1>1, <1>2, <3>3 DEF Busy
    <3> QED
      BY <1>1, <1>2, <3>2, <3>3, <3>4 DEF WaveKnown, OnKnown, KnownBusy, ComingKnown
  <2>6. CASE /\ msg = StartWave(msg.wave) /\ ~NothingNew(msg.wave) /\ msg.wave \in Nat
             /\ wave' = msg.wave /\ running' = TRUE
    <3>1. msg.wave <= WaveOf(0) /\ wave <= msg.wave
      BY <2>2, <2>6 DEF WavesAgree, NothingAhead, StartWave, NothingNew
    <3>2. Known => Known'
      <4>1. CASE msg.wave = WaveOf(0)
        BY <1>1, <2>6, <4>1 DEF Known
      <4>2. CASE msg.wave # WaveOf(0)
        <5>1. wave # WaveOf(0) /\ msg # StartWave(WaveOf(0))
          BY <2>2, <2>6, <3>1, <4>2 DEF StartWave
        <5> QED
          BY <1>1, <2>1, <5>1 DEF Known
      <4> QED
        BY <4>1, <4>2
    <3>3. Known' => Known
      BY <1>1, <2>2, <2>3, <2>6 DEF Known
    <3>4. \A f \in Engines : Busy(f) => Busy(f)'
      BY <1>1, <1>2, <2>3 DEF Busy
    <3>5. OnKnown' /\ KnownBusy'
      BY <1>2, <3>2, <3>3, <3>4 DEF WaveKnown, OnKnown, KnownBusy
    <3>6. ComingKnown'
      BY <1>1, <2>3, <3>2 DEF WaveKnown, ComingKnown, Known, StartWave
    <3> QED
      BY <3>5, <3>6 DEF WaveKnown
  <2> QED
    BY <2>1, <2>4, <2>5, <2>6
<1> QED
  BY <1>3, <1>4, <1>5

\* An engine that a message makes run is known to run, or tells the client;
\* one that loses its last request by an abort goes on, for it has had a step.
LEMMA HandleKeepsKnown ==
  ASSUME WavesTyped, WavesAgree, Requests, RunsOn, WaveKnown,
         NEW e \in Engines, Handle(e), pc[e] \in {"wait", "drain"}
  PROVE  WaveKnown'
<1>1. /\ UNCHANGED <<wave, running, pc, verdict>>
      /\ \A f \in Engines : f # e => /\ In(f)' = In(f) /\ Out(f)' = Out(f)
                                     /\ enginesRunning'[f] = enginesRunning[f]
                                     /\ left'[f] = left[f]
  BY Handles DEF client
<1>2. PICK msg \in ToEngine :
        /\ In(e) = In(e)' \cup {msg}
        /\ \/ /\ msg = AddMsg(msg.req, msg.wave) /\ msg.req \in Reqs /\ msg.wave \in Nat
              /\ Out(e)' = Out(e) \cup (IF AnswersOldWave(e, msg.wave)
                                        THEN {StartWave(engineWave[e])} ELSE {})
              /\ left'[e] = [left[e] EXCEPT ![msg.req] = Steps[msg.req]]
              /\ enginesRunning'[e] = enginesRunning[e]
           \/ /\ msg = AbortMsg(msg.req) /\ msg.req \in Reqs
              /\ left'[e] = [left[e] EXCEPT ![msg.req] = 0]
              /\ Out(e)' = Out(e) /\ enginesRunning'[e] = enginesRunning[e]
           \/ /\ msg = StartWave(msg.wave) /\ msg.wave \in Nat
              /\ enginesRunning'[e] = (enginesRunning[e] \/ Starts(e, msg.wave))
              /\ Out(e)' = Out(e) /\ left'[e] = left[e]
  BY Handles
<1>3. /\ WaveOf(0)' = WaveOf(0) /\ WaveOf(0) = engineWave[e] /\ engineWave[e] \in Nat
      /\ left[e] \in [Reqs -> Nat] /\ enginesRunning[e] \in BOOLEAN
  <2>1. WaveOf(0)' = WaveOf(0)
    BY HandleAgrees, ZeroIsEngine
  <2>2. engineWave[e] \in Nat /\ left[e] \in [Reqs -> Nat] /\ enginesRunning[e] \in BOOLEAN
    BY DEF WavesTyped
  <2>3. WaveOf(e) = engineWave[e]
    BY <2>2 DEF WaveOf, Pausing
  <2> QED
    BY <2>1, <2>2, <2>3 DEF WavesAgree, SameWave
<1>4. msg.kind # "abort" => msg.wave <= engineWave[e]
  BY <1>2, <1>3 DEF WavesAgree, NothingAhead
<1>5. /\ \A f \in Engines : Pausing(f)' <=> Pausing(f)
      /\ ~Pausing(e) /\ ~Pausing(e)'
      /\ \A f \in Engines : f # e => (On(f)' <=> On(f)) /\ (Busy(f)' <=> Busy(f))
  <2>1. /\ \A f \in Engines : Pausing(f)' <=> Pausing(f)
        /\ ~Pausing(e) /\ ~Pausing(e)'
    BY <1>1 DEF Pausing
  <2>2. \A f \in Engines : f # e => (On(f)' <=> On(f))
    BY <1>1, <2>1 DEF On, Unfinished
  <2> QED
    BY <1>1, <1>3, <2>1, <2>2 DEF Busy
<1>6. On(e) <=> enginesRunning[e] \/ \E q \in Reqs : left[e][q] > 0
  BY <1>1, <1>5 DEF On, Unfinished
<1>7. On(e)' <=> enginesRunning'[e] \/ \E q \in Reqs : left'[e][q] > 0
  BY <1>1, <1>5 DEF On, Unfinished
<1>8. /\ \A f \in Engines : Out(f) \subseteq Out(f)' /\ In(f)' \subseteq In(f)
      /\ Known => Known'
  <2>1. \A f \in Engines : Out(f) \subseteq Out(f)' /\ In(f)' \subseteq In(f)
    BY <1>1, <1>2
  <2> QED
    BY <1>1, <1>3, <2>1 DEF Known
<1>9. ComingKnown'
  BY <1>3, <1>8 DEF WaveKnown, ComingKnown
<1>10. CASE msg = AddMsg(msg.req, msg.wave)
  <2>1. /\ msg.kind = "add" /\ msg.req \in Reqs /\ msg.wave \in Nat
        /\ Out(e)' = Out(e) \cup (IF AnswersOldWave(e, msg.wave)
                                  THEN {StartWave(engineWave[e])} ELSE {})
        /\ left'[e] = [left[e] EXCEPT ![msg.req] = Steps[msg.req]]
        /\ enginesRunning'[e] = enginesRunning[e]
    BY <1>2, <1>10 DEF AddMsg, AbortMsg, StartWave
  <2>2. left'[e][msg.req] > 0
    BY <1>3, <2>1, WavesAssumption
  <2>3. On(e)' /\ Busy(e)'
    BY <1>7, <2>1, <2>2 DEF Busy
  <2>4. Known'
    <3>1. CASE AnswersOldWave(e, msg.wave)
      BY <1>3, <2>1, <3>1 DEF Known
    <3>2. CASE enginesRunning[e]
      BY <1>6, <1>8, <3>2 DEF WaveKnown, OnKnown
    <3>3. CASE ~AnswersOldWave(e, msg.wave) /\ ~enginesRunning[e]
      <4>1. msg.wave = WaveOf(0) /\ msg \in In(e)
        BY <1>2, <1>3, <1>4, <2>1, <3>3 DEF AnswersOldWave
      <4> QED
        BY <1>8, <2>1, <4>1 DEF WaveKnown, ComingKnown
    <3> QED
      BY <3>1, <3>2, <3>3
  <2> QED
    BY <1>9, <2>3, <2>4 DEF WaveKnown, OnKnown, KnownBusy
<1>11. CASE msg = AbortMsg(msg.req)
  <2>1. /\ msg.kind = "abort" /\ msg.req \in Reqs
        /\ left'[e] = [left[e] EXCEPT ![msg.req] = 0]
        /\ Out(e)' = Out(e) /\ enginesRunning'[e] = enginesRunning[e]
    BY <1>2, <1>11 DEF AddMsg, AbortMsg, StartWave
  <2>2. left[e][msg.req] > 0 => enginesRunning[e]
    <3>1. msg.req \in started
      BY <1>2, <2>1 DEF Requests, AbortsLate
    <3> QED
      BY <2>1, <3>1 DEF RunsOn, Scheduled
  <2>3. On(e)' <=> On(e)
    <3>1. CASE left[e][msg.req] > 0
      BY <1>6, <1>7, <2>1, <2>2, <3>1
    <3>2. CASE ~(left[e][msg.req] > 0)
      <4>1. left'[e] = left[e]
        BY <1>3, <2>1, <3>2
      <4> QED
        BY <1>6, <1>7, <2>1, <4>1
    <3> QED
      BY <3>1, <3>2
  <2>4. Known' <=> Known
    BY <1>1, <1>3, <2>1 DEF Known
  <2>5. Busy(e) => Busy(e)'
    <3>1. \A m \in In(e) : m.kind # "abort" => m \in In(e)'
      BY <1>2, <2>1
    <3>2. StartWave(WaveOf(0)).kind = "start_wave"
      BY DEF StartWave
    <3> QED
      BY <1>3, <2>3, <3>1, <3>2 DEF Busy
  <2>6. OnKnown'
    BY <1>5, <2>3, <2>4 DEF WaveKnown, OnKnown
  <2>7. KnownBusy'
    BY <1>5, <2>4, <2>5 DEF WaveKnown, KnownBusy
  <2> QED
    BY <1>9, <2>6, <2>7 DEF WaveKnown
<1>12. CASE msg = StartWave(msg.wave)
  <2>1. /\ msg.kind = "start_wave" /\ msg.wave \in Nat
        /\ enginesRunning'[e] = (enginesRunning[e] \/ Starts(e, msg.wave))
        /\ Out(e)' = Out(e) /\ left'[e] = left[e]
    BY <1>2, <1>12 DEF AddMsg, AbortMsg, StartWave
  <2>2. Starts(e, msg.wave) <=> msg.wave = WaveOf(0)
    BY <1>3, <1>4, <2>1 DEF Starts
  <2>3. Known' <=> Known
    BY <1>1, <1>3, <2>1 DEF Known
  <2>4. On(e)' => On(e) \/ msg.wave = WaveOf(0)
    BY <1>6, <1>7, <2>1, <2>2
  <2>5. On(e) \/ msg.wave = WaveOf(0) => On(e)'
    BY <1>6, <1>7, <2>1, <2>2
  <2>6. OnKnown'
    <3>1. On(e)' => Known
      BY <1>2, <2>1, <2>4 DEF WaveKnown, OnKnown, ComingKnown
    <3> QED
      BY <1>5, <2>3, <3>1 DEF WaveKnown, OnKnown
  <2>7. Busy(e) => Busy(e)'
    <3>1. CASE On(e) \/ msg.wave = WaveOf(0)
      BY <2>5, <3>1 DEF Busy
    <3>2. CASE ~On(e) /\ msg.wave # WaveOf(0)
      <4>1. msg # StartWave(WaveOf(0))
        BY <3>2 DEF StartWave
      <4> QED
        BY <1>2, <1>3, <2>1, <3>2, <4>1 DEF Busy
    <3> QED
      BY <3>1, <3>2
  <2>8. KnownBusy'
    BY <1>5, <2>3, <2>7 DEF WaveKnown, KnownBusy
  <2> QED
    BY <1>9, <2>6, <2>8 DEF WaveKnown
<1> QED
  BY <1>2, <1>10, <1>11, <1>12

\* Going through the loop an engine stays in the wave, or out of it.
LEMMA LoopKeepsKnown ==
  ASSUME WavesTyped, WavesAgree, Decided, WaveKnown, NEW e \in Engines,
         Wakes(e) \/ BeginStep(e) \/ BeginIdle(e) \/ Update(e) \/ CountStep(e) \/ Decide(e)
  PROVE  WaveKnown'
<1>1. /\ UNCHANGED <<wave, running, verdict>> /\ WaveOf(0)' = WaveOf(0)
      /\ \A f \in Engines : In(f)' = In(f)
  BY LoopSends, LoopAgrees, ZeroIsEngine DEF client
<1>2. /\ \A f \in Engines : Out(f) \subseteq Out(f)'
      /\ \A f \in Engines : \A m \in Out(f)' : m \in Out(f) \/ m.kind # "start_wave"
  BY LoopSends DEF Outputs, Complete
<1>3. \A f \in Engines : f # e => /\ pc'[f] = pc[f] /\ left'[f] = left[f]
                                  /\ enginesRunning'[f] = enginesRunning[f]
  BY DEF Wakes, BeginStep, BeginIdle, Update, CountStep, Decide, WavesTyped, work
<1>4. On(e)' <=> On(e)
  <2>0. ~Update(e) => Unfinished(e)' = Unfinished(e)
    BY DEF Wakes, BeginStep, BeginIdle, CountStep, Decide, work, Unfinished
  <2>1. CASE Wakes(e)
    BY <1>1, <2>0, <2>1 DEF Wakes, On, Pausing, WavesTyped, Update
  <2>2. CASE BeginStep(e)
    <3>1. /\ Unfinished(e) # {} /\ pc[e] = "drain" /\ pc'[e] \in {"update", "forward"}
      BY <2>2 DEF BeginStep, WavesTyped
    <3> QED
      BY <3>1 DEF On, Pausing
  <2>3. CASE BeginIdle(e)
    <3>1. /\ Unfinished(e) = {} /\ pc[e] = "drain" /\ enginesRunning' = enginesRunning
          /\ pc'[e] = IF enginesRunning[e] THEN "forward" ELSE "wait"
          /\ Unfinished(e)' = {}
      BY <2>3 DEF BeginIdle, WavesTyped, RunsDummy, Unfinished
    <3> QED
      BY <3>1 DEF On, Pausing
  <2>4. CASE Update(e)
    BY <2>4, UpdateLeaves DEF On, Pausing
  <2>5. CASE CountStep(e)
    <3>1. pc[e] = "sync" /\ (pc'[e] = "allreduce" \/ (pc'[e] = "wait" /\ enginesRunning'[e] = TRUE))
      <4>1. CASE counter[e] + 1 # SyncEvery
        BY <2>5, <4>1 DEF CountStep, WavesTyped
      <4>2. CASE counter[e] + 1 = SyncEvery
        BY <2>5, <4>2 DEF CountStep, WavesTyped
      <4> QED
        BY <4>1, <4>2
    <3> QED
      BY <3>1 DEF On, Pausing
  <2>6. CASE Decide(e)
    <3>1. /\ pc[e] = "decide" /\ pc'[e] = "wait" /\ enginesRunning'[e] = verdict
          /\ Unfinished(e)' = Unfinished(e) /\ verdict \in BOOLEAN
      BY <2>6 DEF Decide, WavesTyped, work, Unfinished
    <3>2. ~verdict => Unfinished(e) = {}
      BY <3>1 DEF Decided, Pausing
    <3> QED
      BY <3>1, <3>2 DEF On, Pausing
  <2> QED
    BY <2>1, <2>2, <2>3, <2>4, <2>5, <2>6
<1>5. \A f \in Engines : On(f)' <=> On(f)
  <2>1. \A f \in Engines : f # e => (On(f)' <=> On(f))
    BY <1>1, <1>3 DEF On, Pausing, Unfinished
  <2> QED
    BY <1>4, <2>1
<1>6. Known' <=> Known
  <2>1. \A f \in Engines : StartWave(WaveOf(0)) \in Out(f)' <=> StartWave(WaveOf(0)) \in Out(f)
    BY <1>2 DEF StartWave
  <2> QED
    BY <1>1, <2>1 DEF Known
<1>7. \A f \in Engines : Busy(f)' <=> Busy(f)
  BY <1>1, <1>5 DEF Busy
<1> QED
  BY <1>1, <1>5, <1>6, <1>7 DEF WaveKnown, OnKnown, KnownBusy, ComingKnown

\* The all-reduce that ends the wave ends it for all engines at once, and
\* nobody knows of the next one yet.
LEMMA CollectiveKeepsKnown ==
  ASSUME WavesTyped, WavesAgree, WaveKnown, Collective
  PROVE  WaveKnown'
<1>1. /\ UNCHANGED <<wave, running, enginesRunning, left>>
      /\ \A f \in Engines : In(f)' = In(f) /\ Out(f)' = Out(f)
  BY DEF Collective, Forward, AllReduce, client, work, In, Out
<1>2. \A f \in Engines : On(f)
  BY DEF Collective, Forward, AllReduce, On, Pausing
<1>3. CASE \A f \in Engines : WaveOf(f)' = WaveOf(f)
  <2>1. WaveOf(0)' = WaveOf(0)
    BY <1>3, ZeroIsEngine
  <2>2. Known' <=> Known
    BY <1>1, <2>1 DEF Known
  <2>3. Known
    BY <1>2, ZeroIsEngine DEF WaveKnown, OnKnown
  <2>4. \E f \in Engines : On(f)'
    <3>1. \A f \in Engines : ~Pausing(f)'
      <4>1. \A f \in Engines : WaveOf(f) = engineWave[f] /\ WaveOf(f) \in Nat
        BY WaveOfTyped DEF Collective, Forward, AllReduce, WaveOf, Pausing, WavesTyped
      <4>2. engineWave' = engineWave
        BY DEF Collective, Forward, AllReduce
      <4> QED
        BY <1>3, <4>1, <4>2 DEF WaveOf
    <3> QED
      BY <3>1, ZeroIsEngine DEF Collective, Forward, AllReduce, On
  <2> QED
    BY <1>1, <2>1, <2>2, <2>3, <2>4 DEF WaveKnown, OnKnown, KnownBusy, ComingKnown, Busy
<1>4. CASE AllReduce /\ ~verdict' /\ WaveOf(0)' > WaveOf(0)
  <2>1. \A f \in Engines : ~On(f)'
    BY <1>4 DEF AllReduce, On, Pausing
  <2>2. WaveOf(0) \in Nat /\ WaveOf(0)' \in Nat
    <3>1. WavesTyped'
      BY CollectiveTyped
    <3> QED
      BY <3>1, WaveOfTyped, ZeroIsEngine DEF WaveOf, Pausing, WavesTyped
  <2>3. wave <= WaveOf(0) /\ wave \in Nat
    BY DEF WavesAgree, NothingAhead, WavesTyped
  <2>4. \A f \in Engines : StartWave(WaveOf(0)') \notin Out(f)
    <3> SUFFICES ASSUME NEW f \in Engines, StartWave(WaveOf(0)') \in Out(f) PROVE FALSE
      OBVIOUS
    <3>1. WaveOf(0)' <= WaveOf(0)
      BY DEF WavesAgree, NothingAhead, StartWave
    <3> QED
      BY <1>4, <2>2, <3>1
  <2>5. ~Known'
    BY <1>1, <1>4, <2>2, <2>3, <2>4 DEF Known
  <2>6. ComingKnown'
    BY <1>1, <1>4, <2>2 DEF WavesAgree, NothingAhead, ComingKnown
  <2> QED
    BY <2>1, <2>5, <2>6 DEF WaveKnown, OnKnown, KnownBusy
<1> QED
  BY <1>3, <1>4, CollectiveAgrees
-----------------------------------------------------------------------------
\* What holds of the waves at every step
WavesInv == WavesTyped /\ WavesAgree /\ Requests /\ RunsOn /\ Decided /\ WaveKnown

\* Every step keeps it.
LEMMA NextWavesInv == ASSUME ~EarlyAborts PROVE WavesInv /\ [Next]_vars => WavesInv'
<1> SUFFICES ASSUME WavesInv, [Next]_vars PROVE WavesInv'
  OBVIOUS
<1>1. WavesTyped'
  BY NextWavesTyped DEF WavesInv
<1>2. CASE \/ \E q \in Reqs : ClientAdd(q) \/ ClientAbort(q)
           \/ \E e \in Engines : ClientReceive(e)
  BY <1>1, <1>2, ClientAgrees, ClientKeepsRequests, ClientKeepsKnown DEF WavesInv
<1>3. ASSUME NEW e \in Engines, Wait(e) \/ Drain(e) PROVE WavesInv'
  BY <1>1, <1>3, HandleAgrees, HandleKeepsRequests, HandleKeepsKnown DEF WavesInv, Wait, Drain
<1>4. ASSUME NEW e \in Engines,
             Wakes(e) \/ BeginStep(e) \/ BeginIdle(e) \/ Update(e) \/ CountStep(e) \/ Decide(e)
      PROVE  WavesInv'
  BY <1>1, <1>4, LoopAgrees, LoopKeepsRequests, LoopKeepsKnown DEF WavesInv
<1>5. CASE Collective
  BY <1>1, <1>5, CollectiveAgrees, CollectiveKeepsRequests, CollectiveKeepsKnown DEF WavesInv
<1>6. CASE UNCHANGED vars
  <2>1. /\ UNCHANGED <<wave, running, added, started, aborted, pc, engineWave, enginesRunning,
                       localUnfinished, verdict, left, input, output>>
        /\ \A f \in Engines : /\ In(f)' = In(f) /\ Out(f)' = Out(f)
                              /\ Unfinished(f)' = Unfinished(f)
                              /\ Pausing(f)' = Pausing(f)
    BY <1>6 DEF vars, client, loop, work, In, Out, Unfinished, Pausing
  <2>2. /\ \A f \in Engines : WaveOf(f)' = WaveOf(f) /\ On(f)' = On(f) /\ Busy(f)' = Busy(f)
        /\ WaveOf(0)' = WaveOf(0) /\ Known' = Known /\ Pausing(0)' = Pausing(0)
        /\ \A q \in Reqs : Coming(q)' = Coming(q) /\ Scheduled(q)' = Scheduled(q)
    BY <1>6 DEF vars, client, loop, work, In, Out, Unfinished, Pausing, WaveOf, On, Known,
                Coming, Scheduled, Busy
  <2>3. WavesAgree' /\ WaveKnown'
    BY <2>1, <2>2, ZeroIsEngine DEF WavesInv, WavesAgree, SameWave, NothingAhead, ClientLearns,
       WaveKnown, OnKnown, KnownBusy, ComingKnown
  <2>4. Requests' /\ RunsOn' /\ Decided'
    BY <2>1, <2>2 DEF WavesInv, Requests, AddsOnce, AbortsLate, Unstarted, OneHome, RunsOn, Decided
  <2> QED
    BY <1>1, <2>3, <2>4 DEF WavesInv
<1> QED
  BY <1>2, <1>3, <1>4, <1>5, <1>6 DEF Next, Engine

\* With nothing on its way, what the client takes the engines for they are.
LEMMA WavesInvGivesPause == WavesInv => PauseIsKnown
<1> SUFFICES ASSUME WavesInv, NoMessages PROVE
      /\ (\A e \in Engines : Paused(e)) => ~running /\ \A e \in Engines : engineWave[e] = wave
      /\ ~running => \A e \in Engines : Unfinished(e) = {}
  BY DEF PauseIsKnown
<1>1. \A e \in Engines : In(e) = {} /\ Out(e) = {}
  <2>1. \A e \in Engines : Len(input[e]) = 0 /\ Len(output[e]) = 0
    BY DEF NoMessages
  <2> QED
    BY <2>1 DEF In, Out, Elems
<1>2. ASSUME \A e \in Engines : Paused(e)
      PROVE  ~running /\ \A e \in Engines : engineWave[e] = wave
  <2>1. \A e \in Engines : ~Pausing(e) /\ ~On(e)
    BY <1>2 DEF Paused, HasRequests, On, Pausing
  <2>2. ~Known
    BY <1>1, <2>1 DEF WavesInv, WaveKnown, KnownBusy, Busy
  <2>3. wave = WaveOf(0)
    BY <1>1, <2>1, ZeroIsEngine DEF WavesInv, WavesAgree, ClientLearns
  <2>4. \A e \in Engines : engineWave[e] = WaveOf(e)
    BY <2>1 DEF WavesInv, WavesTyped, WaveOf
  <2>5. \A e \in Engines : WaveOf(e) = WaveOf(0)
    BY DEF WavesInv, WavesAgree, SameWave
  <2> QED
    BY <2>2, <2>3, <2>4, <2>5 DEF Known
<1>3. ASSUME ~running, NEW e \in Engines PROVE Unfinished(e) = {}
  <2>1. ~Known
    BY <1>1, <1>3 DEF Known
  <2>2. ~On(e)
    BY <2>1 DEF WavesInv, WaveKnown, OnKnown
  <2> QED
    BY <2>2 DEF On, WavesInv, Decided
<1> QED
  BY <1>2, <1>3

\* Once the messages of a pause have arrived the client and the engines agree
\* on it and on the next wave (process_engine_outputs of DPAsyncMPClient,
\* add_request and run_busy_loop of DPEngineCoreProc), for any number of
\* engines and requests, whether or not a step may come to nothing, if a
\* request is not aborted before its first output.
THEOREM PauseIsKnownAlways == ASSUME ~EarlyAborts PROVE Spec => []PauseIsKnown
<1>1. Init => WavesInv
  BY InitWavesTyped, InitWavesAgree, InitRequests, InitWaveKnown DEF WavesInv
<1>2. WavesInv /\ [Next]_vars => WavesInv'
  BY NextWavesInv
<1>3. WavesInv => PauseIsKnown
  BY WavesInvGivesPause
<1> QED
  BY <1>1, <1>2, <1>3, PTL DEF Spec
=============================================================================
