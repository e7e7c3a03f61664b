----------------------- MODULE MultiprocExecutor_proofs -----------------------
(***************************************************************************)
(* The answers collective_rpc collects answer the call it sent, for any    *)
(* number of workers and calls, as long as the calls to all of the workers *)
(* neither fail nor time out.                                              *)
(***************************************************************************)
EXTENDS MultiprocExecutor, SequenceTheorems, TLAPS

AnyCall == [id : Int, rank0Only : BOOLEAN, timeout : BOOLEAN]

EngineState == [pc : EngineSteps, calls : Nat, call : AnyCall, rank : Nat, answers : Seq(Int)]

Shapes == /\ broadcast \in [Ranks -> Seq(AnyCall)]
          /\ responses \in [Ranks -> Seq([ok : BOOLEAN, id : Int])]
          /\ worker \in [Ranks -> [pc : {"idle", "run", "dead"}, call : AnyCall]]
          /\ engine \in EngineState
          /\ engine.pc = "dequeue" => engine.rank \in Ranks

\* Queues are given up only by an executor that has failed, or for good.
GivenUp ==
  /\ shutdownEvent \/ responsesGone \/ rpcGone => isFailed \/ engine.pc = "over"
  /\ monitor \in {"shutdown", "terminate", "callback"} => isFailed

\* What the engine keeps between and during its calls
CallInOrder ==
  /\ engine.pc \notin {"next", "dequeue"} => engine.rank = 0 /\ engine.answers = << >>
  /\ engine.pc \in {"check", "enqueue", "next", "dequeue"} /\ engine.call.timeout
       => engine.call.rank0Only

WillReply(k) == worker[k].pc = "run" /\ Replies(k, worker[k].call)

\* Nothing that worker k has been asked is still to be taken by the engine.
Quiet(k) == /\ responses[k] = << >>
            /\ ~WillReply(k)
            /\ \A n \in DOMAIN broadcast[k] : ~Replies(k, broadcast[k][n])

\* Worker k owes the engine one answer at most, in one of the three places,
\* and to the engine's present call.
OwesOwn(k) ==
  /\ responses[k] # << >> =>
       /\ Len(responses[k]) = 1 /\ responses[k][1].id = engine.call.id
       /\ responses[k][1].ok \/ engine.call.rank0Only
       /\ Replies(k, engine.call) /\ ~WillReply(k)
  /\ WillReply(k) => worker[k].call = engine.call
  /\ \A n \in DOMAIN broadcast[k] : Replies(k, broadcast[k][n]) =>
       /\ n = Len(broadcast[k]) /\ broadcast[k][n] = engine.call
       /\ ~WillReply(k) /\ responses[k] = << >>

Mail ==
  \A k \in Ranks :
    /\ engine.pc \in {"register", "set_callback", "enqueue"} => Quiet(k)
    /\ engine.pc \in {"idle", "check"} => isFailed \/ Quiet(k)
    /\ engine.pc \in {"next", "dequeue"} => OwesOwn(k) /\ (k < engine.rank => Quiet(k))

CallInv == Shapes /\ GivenUp /\ CallInOrder /\ Mail /\ AnswersOwnCall

-----------------------------------------------------------------------------
LEMMA CallFacts == /\ Calls \subseteq AnyCall /\ NoCall \in AnyCall
                   /\ WorldSize \in Nat \ {0} /\ Ranks \subseteq Nat /\ 0 \in Ranks
BY ExecutorAssumption DEF Calls, AnyCall, NoCall, Ranks

\* Nothing is under way before the first call.
LEMMA InitCallInv == Init => CallInv
<1> SUFFICES ASSUME Init PROVE CallInv
  OBVIOUS
<1>1. Shapes
  BY CallFacts DEF Init, Shapes, EngineState, EngineSteps
<1>2. GivenUp /\ CallInOrder /\ AnswersOwnCall
  BY DEF Init, GivenUp, CallInOrder, AnswersOwnCall
<1>3. Mail
  BY DEF Init, Mail, Quiet, WillReply
<1> QED
  BY <1>1, <1>2, <1>3 DEF CallInv

\* A worker from which nothing is to come owes no answer of an older call.
LEMMA QuietOwesOwn == ASSUME NEW k \in Ranks, Quiet(k) PROVE OwesOwn(k)
BY DEF Quiet, OwesOwn

-----------------------------------------------------------------------------
(* The workers *)

\* Taking a call moves what the worker owes from the broadcast to the worker.
LEMMA TakeKeeps ==
  ASSUME Shapes, NEW j \in Ranks, TakeCall(j)
  PROVE  Shapes' /\ \A k \in Ranks : /\ Quiet(k) => Quiet(k)'
                                     /\ OwesOwn(k) => OwesOwn(k)'
<1>1. /\ broadcast[j] \in Seq(AnyCall) /\ broadcast[j] # << >>
      /\ Head(broadcast[j]) \in AnyCall /\ Head(broadcast[j]) = broadcast[j][1]
      /\ Tail(broadcast[j]) \in Seq(AnyCall)
      /\ Len(broadcast[j]) > 0 /\ Len(Tail(broadcast[j])) = Len(broadcast[j]) - 1
      /\ \A n \in DOMAIN Tail(broadcast[j]) :
           n + 1 \in DOMAIN broadcast[j] /\ Tail(broadcast[j])[n] = broadcast[j][n + 1]
  BY DEF Shapes, TakeCall
<1>2. /\ broadcast' = [broadcast EXCEPT ![j] = Tail(broadcast[j])]
      /\ worker' = [worker EXCEPT ![j] = [pc |-> "run", call |-> Head(broadcast[j])]]
      /\ worker[j].pc = "idle" /\ UNCHANGED <<responses, engine>>
  BY DEF TakeCall
<1>3. Shapes'
  BY <1>1, <1>2 DEF Shapes
<1>4. ASSUME NEW k \in Ranks, k # j
      PROVE  (Quiet(k) => Quiet(k)') /\ (OwesOwn(k) => OwesOwn(k)')
  BY <1>2, <1>4 DEF Shapes, Quiet, OwesOwn, WillReply, Replies
<1>5. /\ broadcast'[j] = Tail(broadcast[j])
      /\ worker'[j].pc = "run" /\ worker'[j].call = broadcast[j][1]
      /\ 1 \in DOMAIN broadcast[j]
  BY <1>1, <1>2 DEF Shapes
<1>6. Quiet(j) => Quiet(j)'
  BY <1>1, <1>2, <1>5 DEF Quiet, WillReply, Replies
<1>7. ASSUME OwesOwn(j) PROVE OwesOwn(j)'
  <2>1. CASE Replies(j, broadcast[j][1])
    <3>1. /\ Len(broadcast[j]) = 1 /\ broadcast[j][1] = engine.call /\ responses[j] = << >>
      BY <1>5, <1>7, <2>1 DEF OwesOwn
    <3>2. DOMAIN broadcast'[j] = {}
      BY <1>1, <1>5, <3>1
    <3> QED
      BY <1>2, <1>5, <3>1, <3>2 DEF OwesOwn, WillReply, Replies
  <2>2. CASE ~Replies(j, broadcast[j][1])
    <3>1. ~WillReply(j)' /\ ~WillReply(j)
      BY <1>2, <1>5, <2>2 DEF WillReply, Replies
    <3>2. \A n \in DOMAIN broadcast'[j] : Replies(j, broadcast'[j][n]) =>
            /\ n = Len(broadcast'[j]) /\ broadcast'[j][n] = engine.call
            /\ responses[j] = << >>
      BY <1>1, <1>5, <1>7, SMTT(30) DEF OwesOwn
    <3> QED
      BY <1>2, <1>7, <3>1, <3>2 DEF OwesOwn, Replies
  <2> QED
    BY <2>1, <2>2
<1> QED
  BY <1>3, <1>4, <1>6, <1>7

\* The answer goes where the engine takes it from.
LEMMA FinishKeeps ==
  ASSUME ~UtilitiesRaise, Shapes, NEW j \in Ranks, FinishCall(j)
  PROVE  Shapes' /\ \A k \in Ranks : /\ Quiet(k) => Quiet(k)'
                                     /\ OwesOwn(k) => OwesOwn(k)'
<1> DEFINE call == worker[j].call
<1>1. PICK ok \in BOOLEAN :
        /\ ok \/ call.rank0Only
        /\ responses' = IF Replies(j, call)
                        THEN [responses EXCEPT ![j] = Append(@, [ok |-> ok, id |-> call.id])]
                        ELSE responses
  BY DEF FinishCall, MayFail
<1>2. /\ worker' = [worker EXCEPT ![j] = [pc |-> "idle", call |-> NoCall]]
      /\ worker[j].pc = "run" /\ UNCHANGED <<broadcast, engine>>
  BY DEF FinishCall
<1>3. call \in AnyCall /\ [ok |-> ok, id |-> call.id] \in [ok : BOOLEAN, id : Int]
  BY DEF Shapes, AnyCall
<1>4. Shapes'
  <2>1. Append(responses[j], [ok |-> ok, id |-> call.id]) \in Seq([ok : BOOLEAN, id : Int])
    BY <1>3 DEF Shapes
  <2>2. responses' \in [Ranks -> Seq([ok : BOOLEAN, id : Int])]
    BY <1>1, <2>1 DEF Shapes
  <2>3. worker' \in [Ranks -> [pc : {"idle", "run", "dead"}, call : AnyCall]]
    BY <1>2, CallFacts DEF Shapes
  <2> QED
    BY <1>2, <2>2, <2>3 DEF Shapes
<1>5. ASSUME NEW k \in Ranks, k # j
      PROVE  (Quiet(k) => Quiet(k)') /\ (OwesOwn(k) => OwesOwn(k)')
  BY <1>1, <1>2, <1>5 DEF Shapes, Quiet, OwesOwn, WillReply, Replies
<1>6. ~WillReply(j)'
  BY <1>2 DEF Shapes, WillReply
<1>7. CASE ~Replies(j, call)
  BY <1>1, <1>2, <1>5, <1>6, <1>7, <1>4 DEF Quiet, OwesOwn, WillReply, Replies
<1>8. CASE Replies(j, call)
  <2>1. WillReply(j) /\ ~Quiet(j)
    BY <1>2, <1>8 DEF WillReply, Quiet
  <2>2. ASSUME OwesOwn(j) PROVE OwesOwn(j)'
    <3>1. /\ responses[j] = << >> /\ call = engine.call
          /\ \A n \in DOMAIN broadcast[j] : ~Replies(j, broadcast[j][n])
      BY <2>1, <2>2 DEF OwesOwn
    <3>2. responses'[j] = << [ok |-> ok, id |-> call.id] >>
      BY <1>1, <1>3, <1>8, <3>1 DEF Shapes
    <3>3. /\ Len(responses'[j]) = 1 /\ responses'[j][1].id = engine.call.id
          /\ responses'[j][1].ok \/ engine.call.rank0Only
      BY <1>1, <3>1, <3>2
    <3>4. \A n \in DOMAIN broadcast'[j] : ~Replies(j, broadcast'[j][n])
      BY <1>2, <3>1
    <3>5. Replies(j, engine'.call)
      BY <1>2, <1>8, <3>1
    <3> QED
      BY <1>2, <1>6, <3>3, <3>4, <3>5 DEF OwesOwn, Replies
  <2> QED
    BY <1>4, <1>5, <2>1, <2>2
<1> QED
  BY <1>7, <1>8

\* Workers that die owe less.
LEMMA DeathKeeps ==
  ASSUME Shapes, UNCHANGED <<broadcast, responses, engine>>,
         NEW Dead \in SUBSET Ranks,
         worker' = [k \in Ranks |-> IF k \in Dead THEN [pc |-> "dead", call |-> NoCall]
                                    ELSE worker[k]]
  PROVE  Shapes' /\ \A k \in Ranks : /\ Quiet(k) => Quiet(k)'
                                     /\ OwesOwn(k) => OwesOwn(k)'
<1>1. Shapes'
  BY CallFacts DEF Shapes
<1>2. \A k \in Ranks : WillReply(k)' => WillReply(k) /\ worker'[k] = worker[k]
  BY DEF WillReply, Replies
<1> QED
  BY <1>1, <1>2 DEF Quiet, OwesOwn, Replies

\* What the workers and the monitor do, seen by the engine
LEMMA OthersKeep ==
  ASSUME CallInv, Shapes', UNCHANGED engine, GivenUp', isFailed => isFailed',
         \A k \in Ranks : (Quiet(k) => Quiet(k)') /\ (OwesOwn(k) => OwesOwn(k)')
  PROVE  CallInv'
BY DEF CallInv, CallInOrder, Mail, AnswersOwnCall

\* Steps of the workers, and their end
LEMMA WorkersKeep ==
  ASSUME ~UtilitiesRaise, CallInv, NEW j \in Ranks, Worker(j) \/ Die(j)
  PROVE  CallInv'
<1>1. UNCHANGED <<engine, monitor, flags>>
  BY DEF Worker, Die, TakeCall, FinishCall
<1>2. GivenUp'
  BY <1>1 DEF CallInv, GivenUp, flags
<1>3. Shapes' /\ \A k \in Ranks : (Quiet(k) => Quiet(k)') /\ (OwesOwn(k) => OwesOwn(k)')
  <2>1. CASE TakeCall(j)
    BY <2>1, TakeKeeps DEF CallInv
  <2>2. CASE FinishCall(j)
    BY <2>2, FinishKeeps DEF CallInv
  <2>3. CASE Die(j)
    <3>1. worker' = [k \in Ranks |-> IF k \in {j} THEN [pc |-> "dead", call |-> NoCall]
                                     ELSE worker[k]]
      BY <2>3 DEF Die, CallInv, Shapes
    <3> QED
      BY <2>3, <3>1, DeathKeeps DEF CallInv, Die
  <2> QED
    BY <2>1, <2>2, <2>3 DEF Worker
<1> QED
  BY <1>1, <1>2, <1>3, OthersKeep DEF flags

\* The monitor takes nothing out of the queues.
LEMMA MonitorKeeps == ASSUME CallInv, Monitor PROVE CallInv'
<1>1. GivenUp' /\ (isFailed => isFailed') /\ UNCHANGED <<engine, broadcast, responses>>
  BY DEF CallInv, GivenUp, Monitor, MonitorSees, MonitorShutsDown, MonitorTerminates,
         MonitorCallsBack, flags
<1>2. \/ UNCHANGED worker
      \/ worker' = [k \in Ranks |-> IF k \in Ranks THEN [pc |-> "dead", call |-> NoCall]
                                    ELSE worker[k]]
  BY DEF Monitor, MonitorSees, MonitorShutsDown, MonitorTerminates, MonitorCallsBack, Terminate
<1>3. Shapes' /\ \A k \in Ranks : (Quiet(k) => Quiet(k)') /\ (OwesOwn(k) => OwesOwn(k)')
  <2>1. CASE UNCHANGED worker
    BY <1>1, <2>1 DEF CallInv, Shapes, Quiet, OwesOwn, WillReply, Replies
  <2> QED
    BY <1>1, <1>2, <2>1, DeathKeeps DEF CallInv
<1> QED
  BY <1>1, <1>3, OthersKeep

-----------------------------------------------------------------------------
(* The engine core's thread *)

\* What the steps of the engine assign to its state keeps its type.
LEMMA EngineUpdates ==
  ASSUME NEW x \in EngineState, NEW p \in EngineSteps
  PROVE  /\ [x EXCEPT !.pc = p] \in EngineState
         /\ \A c \in AnyCall, n \in Nat :
              [x EXCEPT !.pc = p, !.calls = n, !.call = c] \in EngineState
         /\ \A n \in Nat, a \in Seq(Int) :
              [x EXCEPT !.pc = p, !.rank = n, !.answers = a] \in EngineState
         /\ \A c \in AnyCall, n \in Nat, a \in Seq(Int) :
              [x EXCEPT !.pc = p, !.call = c, !.rank = n, !.answers = a] \in EngineState
BY DEF EngineState

\* The engine's steps up to the last leave what is given up as it is.
LEMMA GivenUpStays ==
  ASSUME GivenUp, engine.pc # "over", UNCHANGED <<flags, monitor>>
  PROVE  GivenUp'
BY DEF GivenUp, flags

\* A call is over when nothing is left of it in the queues, or when there
\* will be no other one.
LEMMA EndKeeps ==
  ASSUME CallInv, NEW p \in {"idle", "dead"}, engine' = Raised(p),
         engine.pc # "over", UNCHANGED <<flags, monitor, worker, broadcast>>,
         responses' \in [Ranks -> Seq([ok : BOOLEAN, id : Int])],
         p = "idle" => isFailed \/ \A k \in Ranks : Quiet(k)'
  PROVE  CallInv'
<1>1. << >> \in Seq(Int) /\ 0 \in Nat /\ NoCall \in AnyCall /\ p \in EngineSteps
  BY CallFacts DEF EngineSteps
<1>2. engine \in EngineState /\ engine' = [engine EXCEPT !.pc = p, !.call = NoCall,
                                                         !.rank = 0, !.answers = << >>]
  BY DEF CallInv, Shapes, Raised
<1>3. engine' \in EngineState
  <2>1. \A c \in AnyCall, n \in Nat, a \in Seq(Int) :
          [engine EXCEPT !.pc = p, !.call = c, !.rank = n, !.answers = a] \in EngineState
    BY <1>1, <1>2, EngineUpdates
  <2>2. \A n \in Nat, a \in Seq(Int) :
          [engine EXCEPT !.pc = p, !.call = NoCall, !.rank = n, !.answers = a] \in EngineState
    BY <1>1, <2>1
  <2>3. \A n \in Nat :
          [engine EXCEPT !.pc = p, !.call = NoCall, !.rank = n, !.answers = << >>]
            \in EngineState
    BY <1>1, <2>2
  <2> QED
    BY <1>1, <1>2, <2>3
<1>4. engine'.pc = p /\ engine'.rank = 0 /\ engine'.answers = << >>
  BY <1>2 DEF EngineState
<1>5. Shapes'
  BY <1>3, <1>4 DEF CallInv, Shapes
<1>6. GivenUp'
  BY GivenUpStays DEF CallInv
<1>7. CallInOrder' /\ AnswersOwnCall'
  BY <1>4 DEF CallInOrder, AnswersOwnCall
<1>8. Mail'
  BY <1>4 DEF Mail, flags
<1> QED
  BY <1>5, <1>6, <1>7, <1>8 DEF CallInv

\* A call that raises ends the engine, or finds an executor that has failed.
LEMMA RaiseKeeps ==
  ASSUME CallInv, Raise, engine.call.rank0Only \/ isFailed,
         engine.pc # "over", UNCHANGED <<flags, monitor, worker, broadcast>>,
         responses' \in [Ranks -> Seq([ok : BOOLEAN, id : Int])]
  PROVE  CallInv'
<1> DEFINE p == IF engine.call.rank0Only THEN "dead" ELSE "idle"
<1>1. p \in {"idle", "dead"} /\ engine' = Raised(p)
  BY DEF Raise
<1>2. p = "idle" => isFailed
  OBVIOUS
<1> HIDE DEF p
<1> QED
  BY <1>1, <1>2, EndKeeps

\* Steps that only move the engine on, with nothing in the queues changed
LEMMA MoveKeeps ==
  ASSUME CallInv, NEW p \in EngineSteps, engine' = [engine EXCEPT !.pc = p],
         UNCHANGED <<flags, monitor, worker, broadcast, responses>>,
         \/ engine.pc = "register" /\ p \in {"idle", "set_callback"}
         \/ engine.pc = "set_callback" /\ p = "idle"
         \/ engine.pc = "check" /\ p = "enqueue" /\ ~isFailed
         \/ engine.pc = "next" /\ p = "dequeue" /\ engine.rank \in Ranks
  PROVE  CallInv'
<1>1. engine \in EngineState
  BY DEF CallInv, Shapes
<1>2. /\ engine' \in EngineState
      /\ engine'.pc = p /\ engine'.rank = engine.rank /\ engine'.call = engine.call
      /\ engine'.answers = engine.answers
  BY <1>1, EngineUpdates DEF EngineState
<1>3. Shapes' /\ GivenUp'
  BY <1>2, GivenUpStays DEF CallInv, Shapes
<1>4. CallInOrder' /\ AnswersOwnCall'
  BY <1>2 DEF CallInv, CallInOrder, AnswersOwnCall
<1>5. \A k \in Ranks : (Quiet(k) => Quiet(k)') /\ (OwesOwn(k) => OwesOwn(k)')
  BY <1>2 DEF Quiet, OwesOwn, WillReply, Replies
<1>6. Mail'
  BY <1>2, <1>5 DEF CallInv, Mail, flags
<1> QED
  BY <1>3, <1>4, <1>6 DEF CallInv

\* A call begins with nothing owed, or on an executor that has failed.
LEMMA BeginKeeps == ASSUME ~UtilitiesRaise, CallInv, BeginCall PROVE CallInv'
<1>1. PICK call \in Calls :
        /\ call.timeout => call.rank0Only
        /\ engine' = [engine EXCEPT !.pc = "check", !.calls = engine.calls + 1, !.call = call]
  BY DEF BeginCall
<1>2. /\ UNCHANGED <<flags, monitor, worker, broadcast, responses>> /\ engine.pc = "idle"
      /\ engine \in EngineState /\ call \in AnyCall
  BY CallFacts DEF BeginCall, CallInv, Shapes
<1>3. engine' \in EngineState
  <2>1. "check" \in EngineSteps /\ engine.calls + 1 \in Nat
    BY <1>2 DEF EngineSteps, EngineState
  <2> QED
    BY <1>1, <1>2, <2>1, EngineUpdates
<1>4. /\ engine'.pc = "check" /\ engine'.rank = engine.rank
      /\ engine'.answers = engine.answers /\ engine'.call = call
  BY <1>1, <1>2 DEF EngineState
<1>5. Shapes' /\ GivenUp'
  BY <1>2, <1>3, <1>4, GivenUpStays DEF CallInv, Shapes
<1>6. CallInOrder' /\ AnswersOwnCall'
  BY <1>1, <1>2, <1>4 DEF CallInv, CallInOrder, AnswersOwnCall
<1>7. \A k \in Ranks : Quiet(k) => Quiet(k)'
  BY <1>2 DEF Quiet, WillReply, Replies
<1>8. Mail'
  BY <1>2, <1>4, <1>7 DEF CallInv, Mail, flags
<1> QED
  BY <1>5, <1>6, <1>8 DEF CallInv

\* Sending makes each worker that replies owe one answer, to this call.
LEMMA SendKeeps == ASSUME CallInv, SendCall PROVE CallInv'
<1>1. CASE rpcGone
  BY <1>1, RaiseKeeps DEF SendCall, CallInv, GivenUp, Shapes
<1>2. CASE ~rpcGone
  <2>1. /\ broadcast' = [k \in Ranks |-> Append(broadcast[k], engine.call)]
        /\ engine' = [engine EXCEPT !.pc = "next"]
        /\ UNCHANGED <<flags, monitor, worker, responses>>
        /\ engine.pc = "enqueue" /\ engine \in EngineState
    BY <1>2 DEF SendCall, CallInv, Shapes
  <2>2. /\ engine' \in EngineState
        /\ engine'.pc = "next" /\ engine'.rank = 0 /\ engine'.call = engine.call
        /\ engine'.answers = << >>
    <3>1. "next" \in EngineSteps
      BY DEF EngineSteps
    <3>2. engine' \in EngineState
      BY <2>1, <3>1, EngineUpdates
    <3>3. engine.rank = 0 /\ engine.answers = << >>
      BY <2>1 DEF CallInv, CallInOrder
    <3> QED
      BY <2>1, <3>2, <3>3 DEF EngineState
  <2>3. engine.call \in AnyCall
    BY <2>1 DEF EngineState
  <2>4. Shapes'
    <3>1. broadcast' \in [Ranks -> Seq(AnyCall)]
      BY <2>1, <2>3 DEF CallInv, Shapes
    <3> QED
      BY <2>1, <2>2, <3>1 DEF CallInv, Shapes
  <2>5. GivenUp' /\ CallInOrder' /\ AnswersOwnCall'
    BY <2>1, <2>2, GivenUpStays DEF CallInv, CallInOrder, AnswersOwnCall
  <2>6. ASSUME NEW k \in Ranks PROVE OwesOwn(k)'
    <3>1. Quiet(k) /\ broadcast[k] \in Seq(AnyCall)
      BY <2>1 DEF CallInv, Mail, Shapes
    <3>2. /\ DOMAIN broadcast'[k] = 1 .. Len(broadcast[k]) + 1
          /\ Len(broadcast'[k]) = Len(broadcast[k]) + 1
          /\ broadcast'[k][Len(broadcast[k]) + 1] = engine.call
          /\ \A n \in 1 .. Len(broadcast[k]) :
               n \in DOMAIN broadcast[k] /\ broadcast'[k][n] = broadcast[k][n]
      BY <2>1, <2>3, <3>1
    <3>3. responses'[k] = << >> /\ ~WillReply(k)'
      BY <2>1, <3>1 DEF Quiet, WillReply, Replies
    <3>4. \A n \in DOMAIN broadcast'[k] : Replies(k, broadcast'[k][n]) =>
            n = Len(broadcast'[k]) /\ broadcast'[k][n] = engine.call
      BY <3>1, <3>2 DEF Quiet
    <3> QED
      BY <2>2, <3>3, <3>4 DEF OwesOwn, Replies
  <2>7. Mail'
    BY <2>2, <2>6, CallFacts DEF Mail
  <2> QED
    BY <2>4, <2>5, <2>7 DEF CallInv
<1> QED
  BY <1>1, <1>2

\* After the last rank that is asked nothing is owed.
LEMMA NextKeeps == ASSUME CallInv, NextWorker PROVE CallInv'
<1>0. /\ UNCHANGED <<flags, monitor, worker, broadcast, responses>> /\ engine.pc = "next"
      /\ engine \in EngineState /\ engine.rank \in Nat
      /\ responses' \in [Ranks -> Seq([ok : BOOLEAN, id : Int])]
  BY DEF NextWorker, CallInv, Shapes, EngineState
<1>1. CASE engine.rank > LastRank
  <2>1. engine' = Raised("idle")
    BY <1>1 DEF NextWorker
  <2>2. ASSUME NEW k \in Ranks PROVE Quiet(k)
    <3>1. OwesOwn(k) /\ (k < engine.rank => Quiet(k))
      BY <1>0 DEF CallInv, Mail
    <3>2. CASE k < engine.rank
      BY <3>1, <3>2
    <3>3. CASE ~(k < engine.rank)
      <4>1. engine.call.rank0Only /\ k # 0
        BY <1>0, <1>1, <3>3, CallFacts DEF LastRank, Ranks
      <4>2. ~Replies(k, engine.call)
        BY <4>1 DEF Replies
      <4> QED
        BY <3>1, <4>2 DEF OwesOwn, Quiet, WillReply
    <3> QED
      BY <3>2, <3>3
  <2>3. \A k \in Ranks : Quiet(k)'
    BY <1>0, <2>2 DEF Quiet, WillReply, Replies
  <2> QED
    BY <1>0, <2>1, <2>3, EndKeeps
<1>2. CASE ~(engine.rank > LastRank) /\ responsesGone
  BY <1>0, <1>2, RaiseKeeps DEF NextWorker, CallInv, GivenUp
<1>3. CASE ~(engine.rank > LastRank) /\ ~responsesGone
  <2>1. engine' = [engine EXCEPT !.pc = "dequeue"]
    BY <1>3 DEF NextWorker
  <2>2. engine.rank \in Ranks
    BY <1>0, <1>3, CallFacts DEF LastRank, Ranks
  <2> QED
    BY <1>0, <2>1, <2>2, MoveKeeps DEF EngineSteps
<1> QED
  BY <1>1, <1>2, <1>3

\* The first and the rest of a sequence of one element
LEMMA OneElement ==
  ASSUME NEW T, NEW s \in Seq(T), Len(s) = 1
  PROVE  Head(s) = s[1] /\ s[1] \in T /\ Tail(s) = << >>
<1>1. s # << >> /\ Head(s) = s[1] /\ s[1] \in T
  OBVIOUS
<1>2. Tail(s) \in Seq(T) /\ Len(Tail(s)) = 0
  BY <1>1
<1>3. Tail(s) = << >>
  BY <1>2, EmptySeq
<1> QED
  BY <1>1, <1>3

\* The answer that is taken is the one this worker owed.
LEMMA DequeueKeeps == ASSUME CallInv, Dequeue PROVE CallInv'
<1>k. PICK k \in Ranks : k = engine.rank
  BY DEF Dequeue, CallInv, Shapes
<1> DEFINE answer == Head(responses[k])
<1>0. /\ UNCHANGED <<flags, monitor, worker, broadcast>> /\ engine.pc = "dequeue"
      /\ k \in Nat /\ engine \in EngineState
      /\ responses[k] # << >> /\ responses[k] \in Seq([ok : BOOLEAN, id : Int])
      /\ responses' = [responses EXCEPT ![k] = Tail(responses[k])]
  BY <1>k DEF Dequeue, CallInv, Shapes, EngineState
<1>1. /\ answer = responses[k][1] /\ answer.id = engine.call.id /\ answer.id \in Int
      /\ answer.ok \/ engine.call.rank0Only
      /\ Tail(responses[k]) = << >>
  <2>1. OwesOwn(k)
    BY <1>0 DEF CallInv, Mail
  <2>2. /\ Len(responses[k]) = 1 /\ responses[k][1].id = engine.call.id
        /\ responses[k][1].ok \/ engine.call.rank0Only
    BY <1>0, <2>1 DEF OwesOwn
  <2>3. /\ answer = responses[k][1] /\ answer \in [ok : BOOLEAN, id : Int]
        /\ Tail(responses[k]) = << >>
    BY <1>0, <2>2, OneElement
  <2> QED
    BY <2>2, <2>3
<1>2. responses' \in [Ranks -> Seq([ok : BOOLEAN, id : Int])]
  BY <1>0 DEF CallInv, Shapes
<1>3. CASE ~answer.ok
  BY <1>k, <1>0, <1>1, <1>2, <1>3, RaiseKeeps DEF Dequeue
<1>4. CASE answer.ok
  <2>1. engine' = [engine EXCEPT !.pc = "next", !.rank = k + 1,
                                 !.answers = Append(engine.answers, answer.id)]
    BY <1>k, <1>4 DEF Dequeue
  <2>2. engine.answers \in Seq(Int) /\ Append(engine.answers, answer.id) \in Seq(Int)
    BY <1>0, <1>1 DEF EngineState
  <2>3. engine' \in EngineState
    <3>1. "next" \in EngineSteps /\ k + 1 \in Nat
      BY <1>0 DEF EngineSteps
    <3> QED
      BY <1>0, <2>1, <2>2, <3>1, EngineUpdates
  <2>4. /\ engine'.pc = "next" /\ engine'.rank = k + 1 /\ engine'.call = engine.call
        /\ engine'.answers = Append(engine.answers, engine.call.id)
    BY <1>0, <1>1, <2>1 DEF EngineState
  <2>5. Shapes'
    BY <1>0, <1>2, <2>3, <2>4 DEF CallInv, Shapes
  <2>6. GivenUp' /\ CallInOrder'
    BY <1>0, <2>4, GivenUpStays DEF CallInv, CallInOrder
  <2>7. AnswersOwnCall'
    BY <2>2, <2>4, <1>1 DEF CallInv, AnswersOwnCall
  <2>8. Quiet(k)'
    <3>1. OwesOwn(k)
      BY <1>0 DEF CallInv, Mail
    <3>2. ~WillReply(k) /\ \A n \in DOMAIN broadcast[k] : ~Replies(k, broadcast[k][n])
      BY <1>0, <3>1 DEF OwesOwn
    <3>3. responses'[k] = << >>
      BY <1>0, <1>1 DEF CallInv, Shapes
    <3> QED
      BY <1>0, <3>2, <3>3 DEF Quiet, WillReply, Replies
  <2>9. ASSUME NEW j \in Ranks, j # k
        PROVE  (Quiet(j) => Quiet(j)') /\ (OwesOwn(j) => OwesOwn(j)')
    BY <1>0, <2>4, <2>9 DEF CallInv, Shapes, Quiet, OwesOwn, WillReply, Replies
  <2>10. Mail'
    <3>1. ASSUME NEW j \in Ranks PROVE OwesOwn(j)' /\ (j < k + 1 => Quiet(j)')
      <4>1. CASE j = k
        <5>1. OwesOwn(k)'
          BY <2>8 DEF Quiet, OwesOwn
        <5> QED
          BY <2>8, <4>1, <5>1
      <4>2. CASE j # k
        BY <1>k, <1>0, <2>9, <4>2, CallFacts DEF CallInv, Mail
      <4> QED
        BY <4>1, <4>2
    <3> QED
      BY <2>4, <3>1 DEF Mail
  <2> QED
    BY <2>5, <2>6, <2>7, <2>10 DEF CallInv
<1> QED
  BY <1>3, <1>4

\* What the engine's thread does
LEMMA EngineKeeps == ASSUME CallInv, Engine PROVE CallInv'
<1>0. responses \in [Ranks -> Seq([ok : BOOLEAN, id : Int])]
  BY DEF CallInv, Shapes
<1>1. CASE Register
  BY <1>1, MoveKeeps DEF Register, EngineSteps
<1>2. CASE SetCallback
  BY <1>2, MoveKeeps DEF SetCallback, EngineSteps
<1>3. CASE CheckFailed
  <2>1. CASE isFailed
    BY <1>0, <1>3, <2>1, RaiseKeeps DEF CheckFailed
  <2>2. CASE ~isFailed
    BY <1>3, <2>2, MoveKeeps DEF CheckFailed, EngineSteps
  <2> QED
    BY <2>1, <2>2
<1>4. CASE SendCall
  BY <1>4, SendKeeps
<1>5. CASE NextWorker
  BY <1>5, NextKeeps
<1>6. CASE Dequeue
  BY <1>6, DequeueKeeps
<1>7. CASE DequeueFails
  <2>1. engine.call.rank0Only \/ isFailed
    BY <1>7 DEF DequeueFails, GivesUp, CallInv, GivenUp, CallInOrder
  <2> QED
    BY <1>0, <1>7, <2>1, RaiseKeeps DEF DequeueFails
<1>8. CASE HandleFailed
  BY <1>0, <1>8, EndKeeps DEF HandleFailed
<1>9. CASE EngineShutdown
  <2>1. /\ engine' = [engine EXCEPT !.pc = "over"] /\ engine.pc = "dead"
        /\ UNCHANGED <<broadcast, responses, monitor, isFailed>>
        /\ engine \in EngineState
    BY <1>9 DEF EngineShutdown, CallInv, Shapes
  <2>2. /\ engine' \in EngineState
        /\ engine'.pc = "over" /\ engine'.rank = engine.rank
        /\ engine'.answers = engine.answers /\ engine'.call = engine.call
    <3>1. "over" \in EngineSteps
      BY DEF EngineSteps
    <3>2. engine' \in EngineState
      BY <2>1, <3>1, EngineUpdates
    <3> QED
      BY <2>1, <3>2 DEF EngineState
  <2>3. worker' \in [Ranks -> [pc : {"idle", "run", "dead"}, call : AnyCall]]
    BY <1>9, CallFacts DEF EngineShutdown, Terminate, CallInv, Shapes
  <2>4. Shapes'
    BY <2>1, <2>2, <2>3 DEF CallInv, Shapes
  <2>5. GivenUp' /\ CallInOrder' /\ AnswersOwnCall' /\ Mail'
    BY <2>1, <2>2 DEF CallInv, GivenUp, CallInOrder, AnswersOwnCall, Mail
  <2> QED
    BY <2>4, <2>5 DEF CallInv
<1> QED
  BY <1>1, <1>2, <1>3, <1>4, <1>5, <1>6, <1>7, <1>8, <1>9 DEF Engine

-----------------------------------------------------------------------------
\* Every step keeps the answers with their calls.
LEMMA NextCallInv == ASSUME ~UtilitiesRaise PROVE CallInv /\ [Next]_vars => CallInv'
<1> SUFFICES ASSUME CallInv, [Next]_vars PROVE CallInv'
  OBVIOUS
<1>1. CASE UNCHANGED vars
  BY <1>1 DEF vars, flags, CallInv, Shapes, GivenUp, CallInOrder, Mail, AnswersOwnCall,
              Quiet, OwesOwn, WillReply, Replies
<1> QED
  BY <1>1, EngineKeeps, MonitorKeeps, BeginKeeps, WorkersKeep DEF Next

\* collective_rpc never takes the answer to an earlier call for one to its
\* own, for any number of workers and whichever of them die when, if the
\* calls to all of the workers neither fail in a worker nor time out.
THEOREM AnswersOwnCallAlways == ASSUME ~UtilitiesRaise PROVE Spec => []AnswersOwnCall
<1>1. CallInv => AnswersOwnCall
  BY DEF CallInv
<1>2. CallInv /\ [Next]_vars => CallInv'
  BY NextCallInv
<1> QED
  BY <1>1, <1>2, InitCallInv, PTL DEF Spec
=============================================================================
