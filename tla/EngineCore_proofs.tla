-------------------------- MODULE EngineCore_proofs --------------------------
(***************************************************************************)
(* The queues of the scheduler and the KV cache behind them, for every     *)
(* instance: any requests, pool, budget, pipeline depth and speculation;   *)
(* the KV cache for full attention; the assertions of both without drafts  *)
(* and LoRA limits; and, for an engine that waits for every batch, that    *)
(* the worker reads each request's own KV entries only.                    *)
(***************************************************************************)
EXTENDS EngineCore, KVCacheManager_proofs

Queued == {"waiting_fsm", "waiting", "preempted"}

\* The requests update_from_output has not reached yet
Remaining == {running[j] : j \in step.i .. Len(running)}

\* The requests that run: inside update_from_output the ones kept so far and
\* those still to come.
Live == IF step.pc = "update" THEN Range(step.keep) \cup Remaining
        ELSE Range(running)

\* The requests that wait, put aside or not
InLine == Range(waiting) \cup Range(step.skipped)

StepShape ==
  /\ {"pc", "i", "budget", "out", "preempted", "skipped", "keep"} \subseteq DOMAIN step
  /\ step.pc \in Pcs /\ step.i \in Nat
  /\ step.pc \in {"running", "update"} => step.i # 0
  /\ step.skipped \in Seq(Reqs) /\ step.keep \in Seq(Reqs)

Shapes ==
  /\ waiting \in Seq(Reqs) /\ running \in Seq(Reqs)
  /\ StepShape
  /\ DOMAIN req = Reqs
  /\ \A r \in Reqs : {"status", "tokens", "computed", "spec"} \subseteq DOMAIN req[r]
  /\ ManagerShape(kv)

NoRepetition ==
  /\ IsInjective(running) /\ IsInjective(waiting)
  /\ IsInjective(step.skipped) /\ IsInjective(step.keep)
  /\ Range(waiting) \cap Range(step.skipped) = {}
  /\ step.pc \notin {"waiting", "end"} => step.skipped = << >>

StatusesMatch ==
  \A r \in Reqs : /\ r \in Live <=> req[r].status = "running"
                  /\ r \in InLine <=> req[r].status \in Queued

\* Who does not run holds no blocks.
BlocksHeldByLive ==
  \A r \in Reqs : r \notin Live => kv.blocks[r] = << >> /\ kv.ncached[r] = Absent

\* update_from_output only drops requests from self.running.
UpdateKeeps ==
  /\ step.pc = "update" => /\ Range(step.keep) \subseteq Range(running)
                           /\ Range(step.keep) \cap Remaining = {}
  /\ \A r \in Range(running) : req[r].status \notin Queued

\* QueuesMatchStatus is not inductive: inside a call of schedule() or
\* update_from_output() the requests put aside and the ones already updated
\* are in local lists, and in the middle of update_from_output self.running
\* still lists requests that are gone.
QueueInv == /\ Shapes
            /\ NoRepetition
            /\ StatusesMatch
            /\ BlocksHeldByLive
            /\ UpdateKeeps

\* No request has come yet and both queues are empty.
LEMMA InitQueueInv == Init => QueueInv
<1> SUFFICES ASSUME Init PROVE QueueInv
  OBVIOUS
<1>1. /\ waiting = << >> /\ running = << >> /\ step = NoStep
      /\ req = [r \in Reqs |-> Gone("unborn")] /\ kv = InitManager
  BY DEF Init, SchedInit
<1>2. Range(<< >>) = {} /\ IsInjective(<< >>) /\ << >> \in Seq(Reqs)
  BY DEF Range, IsInjective
<1>3. Live = {} /\ InLine = {}
  BY <1>1, <1>2 DEF Live, InLine, NoStep
<1>4. Shapes
  BY <1>1, <1>2, InitManagerShape DEF Shapes, StepShape, NoStep, Gone, Pcs
<1>5. StatusesMatch
  BY <1>1, <1>3 DEF StatusesMatch, Gone, Queued
<1>6. BlocksHeldByLive
  BY <1>1, InitManagerShape DEF BlocksHeldByLive
<1> QED BY <1>1, <1>2, <1>4, <1>5, <1>6
   DEF QueueInv, NoRepetition, UpdateKeeps, NoStep

-----------------------------------------------------------------------------
\* Steps that change nothing but the locals of schedule()

\* A step that only moves on in the call keeps the invariant.
LEMMA StepOnly ==
  ASSUME QueueInv, UNCHANGED <<kv, req, waiting, running>>,
         step.pc # "update", step'.pc # "update", StepShape',
         step'.skipped = step.skipped, IsInjective(step'.keep),
         step'.pc \notin {"waiting", "end"} => step'.skipped = << >>
  PROVE  QueueInv'
<1>1. Live' = Live /\ InLine' = InLine
  BY DEF Live, InLine
<1> QED BY <1>1
   DEF QueueInv, Shapes, NoRepetition, StatusesMatch, BlocksHeldByLive, UpdateKeeps

\* The record between two calls of schedule().
LEMMA NoStepShape ==
  /\ NoStep.pc = "idle" /\ NoStep.i = 0
  /\ NoStep.skipped = << >> /\ NoStep.keep = << >>
  /\ DOMAIN NoStep = {"pc", "i", "budget", "out", "preempted", "skipped", "keep"}
  /\ << >> \in Seq(Reqs) /\ IsInjective(<< >>) /\ Range(<< >>) = {}
  BY DEF NoStep, IsInjective, Range

\* The start of schedule().
LEMMA BeginScheduleKeeps == ASSUME QueueInv, BeginSchedule PROVE QueueInv'
<1>1. /\ UNCHANGED <<kv, req, waiting, running>>
      /\ step' = [NoStep EXCEPT !.pc = "running", !.i = 1,
                                !.budget = MaxNumScheduledTokens]
      /\ step.pc = "idle"
  BY DEF BeginSchedule, Idle
<1>2. /\ step'.pc = "running" /\ step'.i = 1
      /\ step'.skipped = << >> /\ step'.keep = << >>
      /\ DOMAIN step' = DOMAIN NoStep
  BY <1>1, NoStepShape
<1>3. StepShape'
  BY <1>2, NoStepShape DEF StepShape, Pcs
<1>4. step.skipped = << >>
  BY <1>1 DEF QueueInv, NoRepetition
<1> QED BY <1>1, <1>2, <1>3, <1>4, NoStepShape, StepOnly

\* A running request passed over by the first loop of schedule().
LEMMA SkipRunningKeeps == ASSUME QueueInv, SkipRunning PROVE QueueInv'
<1>1. /\ UNCHANGED <<kv, req, waiting, running>>
      /\ step' = [step EXCEPT !.i = @ + 1] /\ step.pc = "running"
  BY DEF SkipRunning, InRunningLoop
<1>2. /\ step'.pc = step.pc /\ step'.i = step.i + 1
      /\ step'.skipped = step.skipped /\ step'.keep = step.keep
      /\ DOMAIN step' = DOMAIN step
  BY <1>1 DEF QueueInv, Shapes, StepShape
<1>3. StepShape'
  BY <1>2 DEF QueueInv, Shapes, StepShape
<1> QED BY <1>1, <1>2, <1>3, StepOnly DEF QueueInv, NoRepetition

\* The loop over the running requests and the one over the waiting ones end.
LEMMA EndLoopKeeps ==
  ASSUME QueueInv, EndRunningLoop \/ EndWaitingLoop
  PROVE  QueueInv'
<1>1. /\ UNCHANGED <<kv, req, waiting, running>>
      /\ \E p \in {"waiting", "end"} : step' = [step EXCEPT !.pc = p]
      /\ step.pc \in {"running", "waiting"}
  BY DEF EndRunningLoop, EndWaitingLoop
<1>2. /\ step'.pc \in {"waiting", "end"} /\ step'.i = step.i
      /\ step'.skipped = step.skipped /\ step'.keep = step.keep
      /\ DOMAIN step' = DOMAIN step
  BY <1>1 DEF QueueInv, Shapes, StepShape
<1>3. StepShape'
  BY <1>2 DEF QueueInv, Shapes, StepShape, Pcs
<1> QED BY <1>1, <1>2, <1>3, StepOnly DEF QueueInv, NoRepetition

-----------------------------------------------------------------------------
\* schedule(): steps that allocate blocks or move requests

\* The request a loop of schedule() or update_from_output() is at
LEMMA CurrentRuns ==
  ASSUME QueueInv, step.pc \in {"running", "update"}, step.i <= Len(running)
  PROVE  /\ Current \in Reqs /\ Current \in Range(running)
         /\ Current \in Live /\ req[Current].status = "running"
<1>1. running \in Seq(Reqs) /\ step.i \in 1 .. Len(running)
  BY DEF QueueInv, Shapes, StepShape
<1>2. Current \in Reqs /\ Current \in Range(running)
  BY <1>1, RangeFacts DEF Current
<1>3. Current \in Live
  BY <1>1, <1>2 DEF Live, Remaining, Current
<1> QED BY <1>2, <1>3 DEF QueueInv, StatusesMatch

\* A running request scheduled by the first loop, after the preemptions that
\* make room for it.
LEMMA ScheduleRunningKeeps == ASSUME QueueInv, ScheduleRunning PROVE QueueInv'
<1> DEFINE r == Current
<1>1. step.pc = "running" /\ step.i <= Len(running)
  BY DEF ScheduleRunning, InRunningLoop
<1>2. r \in Reqs /\ r \in Live
  BY <1>1, CurrentRuns
<1> HIDE DEF r
<1>3. /\ UNCHANGED <<waiting, running>>
      /\ \E spec : req' = IF spec = << >> THEN req ELSE [req EXCEPT ![r].spec = spec]
      /\ \E e, n : step' = [step EXCEPT !.i = @ + 1, !.budget = @ - n, !.out = e]
      /\ kv' = RunningAllocation.m
  <2>1. kv' = RunningAllocation.m /\ UNCHANGED <<waiting, running>>
    BY DEF ScheduleRunning, ScheduleCurrent
  <2> QED BY <2>1, Zenon DEF ScheduleRunning, ScheduleCurrent, r
<1>4. /\ DOMAIN req' = Reqs
      /\ \A s \in Reqs : /\ {"status", "tokens", "computed", "spec"} \subseteq DOMAIN req'[s]
                         /\ req'[s].status = req[s].status
  BY <1>3 DEF QueueInv, Shapes
<1>5. /\ step'.pc = step.pc /\ step'.i = step.i + 1
      /\ step'.skipped = step.skipped /\ step'.keep = step.keep
      /\ DOMAIN step' = DOMAIN step
  BY <1>3 DEF QueueInv, Shapes, StepShape
<1>6. OnlyOf(r, kv, kv')
  BY <1>2, <1>3, AllocateSlotsOnlyOf DEF QueueInv, Shapes, RunningAllocation, r
<1>7. Live' = Live /\ InLine' = InLine
  BY <1>1, <1>3, <1>5 DEF Live, InLine
<1>8. Shapes'
  BY <1>1, <1>3, <1>4, <1>5, <1>6 DEF QueueInv, Shapes, StepShape, OnlyOf
<1>9. BlocksHeldByLive'
  BY <1>2, <1>6, <1>7 DEF QueueInv, BlocksHeldByLive, OnlyOf
<1>10. StatusesMatch'
  BY <1>4, <1>7 DEF QueueInv, StatusesMatch
<1>11. NoRepetition'
  BY <1>3, <1>5 DEF QueueInv, NoRepetition
<1>12. UpdateKeeps'
  <2>1. Range(running) \subseteq Reqs
    BY RangeFacts DEF QueueInv, Shapes
  <2> QED BY <2>1, <1>1, <1>3, <1>4, <1>5 DEF QueueInv, UpdateKeeps
<1> QED BY <1>8, <1>9, <1>10, <1>11, <1>12 DEF QueueInv

\* A preempted request goes from the end of running to the front of waiting.
LEMMA PreemptKeeps == ASSUME QueueInv, Preempt PROVE QueueInv'
<1> DEFINE v == Victim
<1>1. /\ step.pc = "running" /\ step.i <= Len(running)
      /\ waiting' = <<v>> \o waiting
      /\ running' = Without(running, {v})
      /\ req' = [req EXCEPT ![v] = Preempted(@)]
      /\ kv' = Free(RunningAllocation.m, v)
      /\ step' = [step EXCEPT !.preempted = TRUE]
  BY DEF Preempt, InRunningLoop
<1>2. running \in Seq(Reqs) /\ waiting \in Seq(Reqs) /\ ManagerShape(kv)
  BY DEF QueueInv, Shapes
<1>3. v \in Range(running) /\ v \in Reqs
  <2>1. Len(running) \in 1 .. Len(running)
    BY <1>1, <1>2 DEF QueueInv, Shapes, StepShape
  <2> QED BY <2>1, <1>2, RangeFacts DEF Victim
<1>4. Live = Range(running) /\ step.skipped = << >>
  BY <1>1 DEF Live, QueueInv, NoRepetition
<1>5. v \in Live /\ v \notin Range(waiting) /\ Current \in Reqs
  <2>1. v \notin InLine
    BY <1>3, <1>4 DEF QueueInv, StatusesMatch, Queued
  <2> QED BY <2>1, <1>1, <1>3, <1>4, CurrentRuns DEF InLine
<1> HIDE DEF v
<1>6. /\ step'.pc \in {"running", "end"} /\ step'.i = step.i
      /\ step'.skipped = << >> /\ step'.keep = step.keep
      /\ DOMAIN step' = DOMAIN step
  BY <1>1, <1>4 DEF QueueInv, Shapes, StepShape
<1>7. /\ DOMAIN req' = Reqs
      /\ req'[v].status = "preempted"
      /\ \A s \in Reqs : /\ {"status", "tokens", "computed", "spec"} \subseteq DOMAIN req'[s]
                         /\ s # v => req'[s].status = req[s].status
  BY <1>1, <1>3 DEF QueueInv, Shapes, Preempted
<1>8. /\ ManagerShape(kv')
      /\ kv'.blocks[v] = << >> /\ kv'.ncached[v] = Absent
      /\ \A s \in Reqs \ {v, Current} :
            kv'.blocks[s] = kv.blocks[s] /\ kv'.ncached[s] = kv.ncached[s]
  <2>1. OnlyOf(Current, kv, RunningAllocation.m)
    BY <1>2, <1>5, AllocateSlotsOnlyOf DEF RunningAllocation
  <2>2. OnlyOf(v, RunningAllocation.m, kv') /\ kv'.blocks[v] = << >>
        /\ kv'.ncached[v] = Absent
    BY <2>1, <1>1, <1>3, FreeOnlyOf DEF OnlyOf
  <2> QED BY <2>1, <2>2 DEF OnlyOf
<1>9. /\ running' \in Seq(Reqs) /\ Range(running') = Range(running) \ {v}
      /\ IsInjective(running')
  BY <1>1, <1>2, WithoutFacts DEF QueueInv, NoRepetition
<1>10. /\ waiting' \in Seq(Reqs) /\ Range(waiting') = {v} \cup Range(waiting)
       /\ IsInjective(waiting')
  BY <1>1, <1>2, <1>3, <1>5, ConsFacts DEF QueueInv, NoRepetition
<1>11. Live' = Live \ {v} /\ InLine' = InLine \cup {v}
  BY <1>4, <1>6, <1>9, <1>10 DEF Live, InLine
<1>12. Shapes'
  BY <1>1, <1>6, <1>7, <1>8, <1>9, <1>10, NoStepShape
     DEF QueueInv, Shapes, StepShape, Pcs
<1>13. NoRepetition'
  BY <1>4, <1>6, <1>9, <1>10, NoStepShape DEF QueueInv, NoRepetition
<1>14. StatusesMatch'
  BY <1>3, <1>7, <1>11 DEF QueueInv, StatusesMatch, Queued
<1>15. BlocksHeldByLive'
  <2>1. Current = v \/ Current \in Live'
    BY <1>1, <1>11, CurrentRuns
  <2> QED BY <2>1, <1>8, <1>11 DEF QueueInv, BlocksHeldByLive
<1>16. UpdateKeeps'
  <2>1. Range(running) \subseteq Reqs
    BY <1>2, RangeFacts
  <2> QED BY <2>1, <1>6, <1>7, <1>9 DEF QueueInv, UpdateKeeps
<1> QED BY <1>12, <1>13, <1>14, <1>15, <1>16 DEF QueueInv

\* The request at the front of the waiting queue
LEMMA FirstWaits ==
  ASSUME QueueInv, InWaitingLoop
  PROVE  /\ First \in Reqs
         /\ req[First].status \in Queued /\ First \notin Live
         /\ Tail(waiting) \in Seq(Reqs) /\ IsInjective(Tail(waiting))
         /\ Range(waiting) = {First} \cup Range(Tail(waiting))
         /\ First \notin Range(Tail(waiting)) /\ First \notin Range(step.skipped)
         /\ Live = Range(running)
<1>1. waiting \in Seq(Reqs) /\ waiting # << >> /\ step.pc = "waiting"
  BY DEF QueueInv, Shapes, InWaitingLoop
<1>2. /\ First \in Range(waiting)
      /\ Tail(waiting) \in Seq(Reqs) /\ IsInjective(Tail(waiting))
      /\ Range(waiting) = {First} \cup Range(Tail(waiting))
      /\ First \notin Range(Tail(waiting))
  BY <1>1, TailFacts DEF QueueInv, NoRepetition, First
<1>3. First \in Reqs
  BY <1>1, <1>2, RangeFacts
<1>4. req[First].status \in Queued /\ First \notin Range(step.skipped)
  BY <1>2, <1>3 DEF QueueInv, StatusesMatch, NoRepetition, InLine
<1>5. First \notin Live
  BY <1>3, <1>4 DEF QueueInv, StatusesMatch, Queued
<1>6. Live = Range(running)
  BY <1>1 DEF Live
<1> QED BY <1>2, <1>3, <1>4, <1>5, <1>6

\* A request put aside stays in line.
LEMMA SkipWaitingKeeps == ASSUME QueueInv, SkipWaiting PROVE QueueInv'
<1> DEFINE f == First
<1>1. /\ step.pc = "waiting" /\ InWaitingLoop
      /\ UNCHANGED <<kv, running>>
      /\ waiting' = Tail(waiting)
      /\ step' = [step EXCEPT !.skipped = <<f>> \o @]
      /\ req' = IF req[f].status = "waiting_fsm" /\ f \in grammarReady
                THEN [req EXCEPT ![f].status = "waiting"] ELSE req
  BY DEF SkipWaiting, InWaitingLoop
<1>2. /\ f \in Reqs /\ req[f].status \in Queued /\ f \notin Live
      /\ Tail(waiting) \in Seq(Reqs) /\ IsInjective(Tail(waiting))
      /\ Range(waiting) = {f} \cup Range(Tail(waiting))
      /\ f \notin Range(Tail(waiting)) /\ f \notin Range(step.skipped)
  BY <1>1, FirstWaits
<1> HIDE DEF f
<1>3. /\ step'.pc = step.pc /\ step'.i = step.i /\ step'.keep = step.keep
      /\ step'.skipped = <<f>> \o step.skipped
      /\ DOMAIN step' = DOMAIN step
  BY <1>1 DEF QueueInv, Shapes, StepShape
<1>4. /\ step'.skipped \in Seq(Reqs) /\ IsInjective(step'.skipped)
      /\ Range(step'.skipped) = {f} \cup Range(step.skipped)
  BY <1>2, <1>3, ConsFacts DEF QueueInv, Shapes, StepShape, NoRepetition
<1>5. /\ DOMAIN req' = Reqs
      /\ req'[f].status \in Queued
      /\ \A s \in Reqs : /\ {"status", "tokens", "computed", "spec"} \subseteq DOMAIN req'[s]
                         /\ s # f => req'[s].status = req[s].status
  BY <1>1, <1>2 DEF QueueInv, Shapes, Queued
<1>6. Live' = Live /\ InLine' = InLine
  BY <1>1, <1>2, <1>3, <1>4 DEF Live, InLine
<1>7. Shapes'
  BY <1>1, <1>2, <1>3, <1>4, <1>5 DEF QueueInv, Shapes, StepShape
<1>8. NoRepetition'
  BY <1>1, <1>2, <1>3, <1>4 DEF QueueInv, NoRepetition
<1>9. StatusesMatch'
  <2>1. req'[f].status # "running" /\ f \in InLine
    BY <1>2, <1>5 DEF Queued, InLine
  <2> QED BY <2>1, <1>2, <1>5, <1>6 DEF QueueInv, StatusesMatch
<1>10. BlocksHeldByLive'
  BY <1>1, <1>6 DEF QueueInv, BlocksHeldByLive
<1>11. UpdateKeeps'
  <2>1. Range(running) \subseteq Reqs /\ f \notin Range(running)
    BY <1>1, <1>2, RangeFacts DEF QueueInv, Shapes, Live
  <2> QED BY <2>1, <1>1, <1>3, <1>5 DEF QueueInv, UpdateKeeps
<1> QED BY <1>7, <1>8, <1>9, <1>10, <1>11 DEF QueueInv

\* What the lookup and the allocation for an admission leave
LEMMA WaitingAllocationOnlyOf ==
  ASSUME QueueInv, First \in Reqs
  PROVE  OnlyOf(First, kv, WaitingAllocation.m)
<1>1. ManagerShape(kv)
  BY DEF QueueInv, Shapes
<1>2. OnlyOf(First, kv, AfterLookup(kv, First, req[First]))
  BY <1>1, AfterLookupOnlyOf
<1>3. OnlyOf(First, AfterLookup(kv, First, req[First]), WaitingAllocation.m)
  BY <1>2, AllocateSlotsOnlyOf DEF OnlyOf, WaitingAllocation
<1> QED BY <1>2, <1>3, OnlyOfTransitive

\* A waiting request admitted by the second loop.
LEMMA AdmitWaitingKeeps == ASSUME QueueInv, AdmitWaiting PROVE QueueInv'
<1> DEFINE f == First
<1>1. /\ step.pc = "waiting" /\ InWaitingLoop
      /\ waiting' = Tail(waiting)
      /\ running' = Append(running, f)
      /\ kv' = WaitingAllocation.m
      /\ \E c : req' = [req EXCEPT ![f].status = "running", ![f].computed = c]
      /\ \E n, e : step' = [step EXCEPT !.budget = @ - n, !.out = e]
  <2>1. /\ InWaitingLoop /\ waiting' = Tail(waiting)
        /\ running' = Append(running, f) /\ kv' = WaitingAllocation.m
    BY DEF AdmitWaiting, AdmitFirst, Admissible
  <2>2. \E c : req' = [req EXCEPT ![f].status = "running", ![f].computed = c]
    BY Zenon DEF AdmitWaiting, AdmitFirst
  <2>3. \E n, e : step' = [step EXCEPT !.budget = @ - n, !.out = e]
    BY Zenon DEF AdmitWaiting, AdmitFirst
  <2> QED BY <2>1, <2>2, <2>3 DEF InWaitingLoop
<1>2. /\ f \in Reqs /\ req[f].status \in Queued /\ f \notin Live
      /\ Tail(waiting) \in Seq(Reqs) /\ IsInjective(Tail(waiting))
      /\ Range(waiting) = {f} \cup Range(Tail(waiting))
      /\ f \notin Range(Tail(waiting)) /\ f \notin Range(step.skipped)
      /\ Live = Range(running)
  BY <1>1, FirstWaits
<1>3. OnlyOf(f, kv, kv')
  BY <1>1, <1>2, WaitingAllocationOnlyOf
<1> HIDE DEF f
<1>4. /\ step'.pc = step.pc /\ step'.i = step.i /\ step'.keep = step.keep
      /\ step'.skipped = step.skipped
      /\ DOMAIN step' = DOMAIN step
  BY <1>1 DEF QueueInv, Shapes, StepShape
<1>5. /\ DOMAIN req' = Reqs
      /\ req'[f].status = "running"
      /\ \A s \in Reqs : /\ {"status", "tokens", "computed", "spec"} \subseteq DOMAIN req'[s]
                         /\ s # f => req'[s].status = req[s].status
  BY <1>1, <1>2 DEF QueueInv, Shapes
<1>6. /\ running' \in Seq(Reqs) /\ IsInjective(running')
      /\ Range(running') = Range(running) \cup {f}
  BY <1>1, <1>2, AppendFacts DEF QueueInv, Shapes, NoRepetition
<1>7. Live' = Live \cup {f} /\ InLine' = InLine \ {f}
  BY <1>1, <1>2, <1>4, <1>6 DEF Live, InLine
<1>8. Shapes'
  BY <1>1, <1>2, <1>3, <1>4, <1>5, <1>6 DEF QueueInv, Shapes, StepShape, OnlyOf
<1>9. NoRepetition'
  BY <1>1, <1>2, <1>4, <1>6 DEF QueueInv, NoRepetition
<1>10. StatusesMatch'
  BY <1>2, <1>5, <1>7 DEF QueueInv, StatusesMatch, Queued
<1>11. BlocksHeldByLive'
  BY <1>3, <1>7 DEF QueueInv, BlocksHeldByLive, OnlyOf
<1>12. UpdateKeeps'
  <2>1. Range(running) \subseteq Reqs
    BY RangeFacts DEF QueueInv, Shapes
  <2> QED BY <2>1, <1>1, <1>4, <1>5, <1>6 DEF QueueInv, UpdateKeeps, Queued
<1> QED BY <1>8, <1>9, <1>10, <1>11, <1>12 DEF QueueInv

\* A request that is not admitted keeps its place and holds nothing.
LEMMA NotAdmittedKeeps ==
  ASSUME QueueInv, InWaitingLoop,
         UNCHANGED <<waiting, running>>,
         req' = IF req[First].status = "waiting_fsm"
                THEN [req EXCEPT ![First].status = "waiting"] ELSE req,
         step' = [step EXCEPT !.pc = "end"],
         OnlyOf(First, kv, kv'),
         kv'.blocks[First] = << >>, kv'.ncached[First] = Absent
  PROVE  QueueInv'
<1> DEFINE f == First
<1>1. /\ step.pc = "waiting" /\ InWaitingLoop
      /\ UNCHANGED <<waiting, running>>
      /\ req' = IF req[f].status = "waiting_fsm"
                THEN [req EXCEPT ![f].status = "waiting"] ELSE req
      /\ step' = [step EXCEPT !.pc = "end"]
  BY DEF InWaitingLoop
<1>2. /\ f \in Reqs /\ req[f].status \in Queued /\ f \notin Live
      /\ Live = Range(running) /\ f \in Range(waiting)
  BY <1>1, FirstWaits
<1>3. /\ OnlyOf(f, kv, kv')
      /\ kv'.blocks[f] = << >> /\ kv'.ncached[f] = Absent
  OBVIOUS
<1> HIDE DEF f
<1>4. /\ step'.pc = "end" /\ step'.i = step.i /\ step'.keep = step.keep
      /\ step'.skipped = step.skipped
      /\ DOMAIN step' = DOMAIN step
  BY <1>1 DEF QueueInv, Shapes, StepShape
<1>5. /\ DOMAIN req' = Reqs
      /\ req'[f].status \in Queued
      /\ \A s \in Reqs : /\ {"status", "tokens", "computed", "spec"} \subseteq DOMAIN req'[s]
                         /\ s # f => req'[s].status = req[s].status
  BY <1>1, <1>2 DEF QueueInv, Shapes, Queued
<1>6. Live' = Live /\ InLine' = InLine
  BY <1>1, <1>4 DEF Live, InLine
<1>7. Shapes'
  BY <1>1, <1>3, <1>4, <1>5 DEF QueueInv, Shapes, StepShape, OnlyOf, Pcs
<1>8. NoRepetition'
  BY <1>1, <1>4 DEF QueueInv, NoRepetition
<1>9. StatusesMatch'
  <2>1. req'[f].status # "running" /\ f \in InLine
    BY <1>2, <1>5 DEF Queued, InLine
  <2> QED BY <2>1, <1>2, <1>5, <1>6 DEF QueueInv, StatusesMatch
<1>10. BlocksHeldByLive'
  BY <1>3, <1>6 DEF QueueInv, BlocksHeldByLive, OnlyOf
<1>11. UpdateKeeps'
  <2>1. Range(running) \subseteq Reqs /\ f \notin Range(running)
    BY <1>2, RangeFacts DEF QueueInv, Shapes
  <2> QED BY <2>1, <1>1, <1>4, <1>5 DEF QueueInv, UpdateKeeps
<1> QED BY <1>7, <1>8, <1>9, <1>10, <1>11 DEF QueueInv

\* The lookup for a waiting request gives it nothing.
LEMMA LookupHoldsNothing ==
  ASSUME QueueInv, InWaitingLoop
  PROVE  LET m == AfterLookup(kv, First, req[First])
         IN  /\ First \in Reqs
             /\ OnlyOf(First, kv, m)
             /\ m.blocks[First] = << >> /\ m.ncached[First] = Absent
<1>1. First \in Reqs /\ First \notin Live
  BY FirstWaits DEF InWaitingLoop
<1>2. /\ ManagerShape(kv)
      /\ kv.blocks[First] = << >> /\ kv.ncached[First] = Absent
  BY <1>1 DEF QueueInv, Shapes, BlocksHeldByLive
<1> QED BY <1>1, <1>2, AfterLookupOnlyOf DEF OnlyOf

\* No blocks for the first waiting request
LEMMA AdmissionFullKeeps == ASSUME QueueInv, AdmissionFull PROVE QueueInv'
<1> DEFINE m == AfterLookup(kv, First, req[First])
<1>1. /\ InWaitingLoop
      /\ UNCHANGED <<waiting, running>>
      /\ kv' = WaitingAllocation.m /\ WaitingAllocation.outcome = "full"
      /\ req' = IF req[First].status = "waiting_fsm"
                THEN [req EXCEPT ![First].status = "waiting"] ELSE req
      /\ step' = [step EXCEPT !.pc = "end"]
  BY DEF AdmissionFull, Admissible
<1>2. /\ First \in Reqs /\ ManagerShape(m)
      /\ m.blocks[First] = << >> /\ m.ncached[First] = Absent
  BY <1>1, LookupHoldsNothing DEF OnlyOf
<1> HIDE DEF m
<1>3. kv'.blocks[First] = << >> /\ kv'.ncached[First] = Absent
  BY <1>1, <1>2, AllocateSlotsFull DEF WaitingAllocation, m
<1>4. OnlyOf(First, kv, kv')
  BY <1>1, <1>2, WaitingAllocationOnlyOf
<1> QED BY <1>1, <1>3, <1>4, NotAdmittedKeeps

\* No room for its image
LEMMA AdmissionAwaitsEncoderKeeps ==
  ASSUME QueueInv, AdmissionAwaitsEncoder PROVE QueueInv'
<1>1. /\ InWaitingLoop
      /\ UNCHANGED <<waiting, running>>
      /\ kv' = AfterLookup(kv, First, req[First])
      /\ req' = IF req[First].status = "waiting_fsm"
                THEN [req EXCEPT ![First].status = "waiting"] ELSE req
      /\ step' = [step EXCEPT !.pc = "end"]
  BY DEF AdmissionAwaitsEncoder, Admissible
<1> QED BY <1>1, LookupHoldsNothing, NotAdmittedKeeps

\* The end of schedule() puts the requests back that were put aside.
LEMMA EndScheduleKeeps ==
  ASSUME QueueInv, NEW p \in {"idle", "update"}, EndSchedule(p)
  PROVE  QueueInv'
<1>1. /\ step.pc = "end" /\ UNCHANGED <<kv, running>>
      /\ waiting' = Reversed(step.skipped) \o waiting
      /\ req' = [r \in Reqs |-> IF r \in DOMAIN step.out
                                THEN Advanced(req[r], step.out[r].n) ELSE req[r]]
      /\ step' = [NoStep EXCEPT !.pc = p, !.i = 1]
  BY DEF EndSchedule, PutBack
<1>2. /\ step'.pc = p /\ step'.i = 1
      /\ step'.skipped = << >> /\ step'.keep = << >>
      /\ DOMAIN step' = DOMAIN NoStep
  BY <1>1, NoStepShape
<1>3. /\ DOMAIN req' = Reqs
      /\ \A s \in Reqs : /\ {"status", "tokens", "computed", "spec"} \subseteq DOMAIN req'[s]
                         /\ req'[s].status = req[s].status
  BY <1>1 DEF QueueInv, Shapes, Advanced
<1>4. /\ waiting' \in Seq(Reqs) /\ IsInjective(waiting')
      /\ Range(waiting') = InLine
  <2> DEFINE back == Reversed(step.skipped)
  <2>1. back \in Seq(Reqs) /\ Range(back) = Range(step.skipped) /\ IsInjective(back)
    BY ReversedFacts DEF QueueInv, Shapes, StepShape, NoRepetition
  <2> HIDE DEF back
  <2>2. Range(back) \cap Range(waiting) = {}
    BY <2>1 DEF QueueInv, NoRepetition
  <2>3. waiting' = back \o waiting
    BY <1>1 DEF back
  <2> QED BY <2>1, <2>2, <2>3, ConcatFacts
     DEF QueueInv, Shapes, NoRepetition, InLine
<1>5. Live = Range(running) /\ Live' = Live /\ InLine' = InLine
  <2>1. p = "update" => Remaining' = Range(running)
    BY <1>1, <1>2, RangeFacts DEF Remaining, QueueInv, Shapes
  <2>2. Live = Range(running)
    BY <1>1 DEF Live
  <2>3. Range(step'.keep) = {} /\ Range(step'.skipped) = {}
    BY <1>2, NoStepShape
  <2>4. Live' = IF p = "update" THEN Remaining' ELSE Range(running)
    BY <1>1, <1>2, <2>3 DEF Live
  <2>5. InLine' = InLine
    BY <1>4, <2>3 DEF InLine
  <2> QED BY <2>1, <2>2, <2>4, <2>5
<1>6. Shapes'
  <2>1. StepShape'
    BY <1>2, NoStepShape DEF StepShape, Pcs
  <2> QED BY <2>1, <1>1, <1>3, <1>4 DEF QueueInv, Shapes
<1>7. NoRepetition'
  BY <1>1, <1>2, <1>4, NoStepShape DEF QueueInv, NoRepetition
<1>8. StatusesMatch' /\ BlocksHeldByLive'
  BY <1>1, <1>3, <1>5 DEF QueueInv, StatusesMatch, BlocksHeldByLive
<1>9. UpdateKeeps'
  <2>1. Range(running) \subseteq Reqs
    BY RangeFacts DEF QueueInv, Shapes
  <2> QED BY <2>1, <1>1, <1>2, <1>3, NoStepShape DEF QueueInv, UpdateKeeps
<1> QED BY <1>6, <1>7, <1>8, <1>9 DEF QueueInv

-----------------------------------------------------------------------------
\* update_from_output()

\* The start of update_from_output.
LEMMA StartUpdateKeeps == ASSUME QueueInv, StartUpdate PROVE QueueInv'
<1>1. /\ UNCHANGED <<kv, req, waiting, running>>
      /\ step' = [NoStep EXCEPT !.pc = "update", !.i = 1]
      /\ step.pc = "idle" /\ step.skipped = << >>
  BY DEF StartUpdate, Idle, QueueInv, NoRepetition
<1>2. /\ step'.pc = "update" /\ step'.i = 1
      /\ step'.skipped = << >> /\ step'.keep = << >>
      /\ DOMAIN step' = DOMAIN NoStep
  BY <1>1, NoStepShape
<1>3. Live' = Live /\ InLine' = InLine
  <2>1. Remaining' = Range(running)
    BY <1>1, <1>2, RangeFacts DEF Remaining, QueueInv, Shapes
  <2>2. Range(step'.keep) = {}
    BY <1>2, NoStepShape
  <2> QED BY <2>1, <2>2, <1>1, <1>2 DEF Live, InLine
<1>4. StepShape'
  BY <1>2, NoStepShape DEF StepShape, Pcs
<1>5. NoRepetition' /\ UpdateKeeps'
  BY <1>1, <1>2, NoStepShape DEF QueueInv, NoRepetition, UpdateKeeps
<1> QED BY <1>1, <1>3, <1>4, <1>5
   DEF QueueInv, Shapes, StatusesMatch, BlocksHeldByLive

\* One request further in the loop over self.running
LEMMA RemainingAfter ==
  ASSUME QueueInv, step.pc = "update", step.i <= Len(running),
         running' = running, step'.i = step.i + 1
  PROVE  Remaining' = Remaining \ {Current} /\ Current \in Remaining
<1> DEFINE n == Len(running)
<1>1. n \in Nat /\ step.i \in 1 .. n /\ \A j, k \in 1 .. n : running[j] = running[k] => j = k
  BY RangeFacts DEF QueueInv, Shapes, StepShape, NoRepetition
<1>2. Remaining = {running[j] : j \in step.i .. n}
  BY DEF Remaining
<1>3. Remaining' = {running[j] : j \in step.i + 1 .. n}
  BY DEF Remaining
<1> HIDE DEF n
<1>4. /\ step.i \in step.i .. n
      /\ \A j \in step.i .. n : j = step.i \/ j \in step.i + 1 .. n
      /\ \A j \in step.i + 1 .. n : j \in step.i .. n /\ j # step.i
                                    /\ j \in 1 .. n
  BY <1>1
<1>5. \A j \in step.i + 1 .. n : running[j] # running[step.i]
  BY <1>1, <1>4
<1> QED BY <1>2, <1>3, <1>4, <1>5 DEF Current

\* A request that stays in self.running
LEMMA KeptStays ==
  ASSUME QueueInv, step.pc = "update", step.i <= Len(running),
         UNCHANGED <<kv, waiting, running>>,
         step' = [step EXCEPT !.i = @ + 1, !.keep = Append(@, Current)],
         DOMAIN req' = Reqs,
         \A s \in Reqs : /\ {"status", "tokens", "computed", "spec"} \subseteq DOMAIN req'[s]
                         /\ req'[s].status = req[s].status
  PROVE  QueueInv'
<1>1. /\ step'.pc = "update" /\ step'.i = step.i + 1
      /\ step'.skipped = step.skipped /\ step'.keep = Append(step.keep, Current)
      /\ DOMAIN step' = DOMAIN step
  BY DEF QueueInv, Shapes, StepShape
<1>2. Current \in Reqs /\ Current \in Range(running)
  BY CurrentRuns
<1>3. Remaining' = Remaining \ {Current} /\ Current \in Remaining
  BY <1>1, RemainingAfter
<1>4. /\ step'.keep \in Seq(Reqs) /\ IsInjective(step'.keep)
      /\ Range(step'.keep) = Range(step.keep) \cup {Current}
  BY <1>1, <1>2, <1>3, AppendFacts
     DEF QueueInv, Shapes, StepShape, NoRepetition, UpdateKeeps
<1>5. Live' = Live /\ InLine' = InLine
  BY <1>1, <1>3, <1>4 DEF Live, InLine
<1>6. StepShape'
  BY <1>1, <1>4 DEF QueueInv, Shapes, StepShape
<1>7. NoRepetition'
  BY <1>1, <1>4 DEF QueueInv, NoRepetition
<1>8. UpdateKeeps'
  <2>1. Range(running) \subseteq Reqs
    BY RangeFacts DEF QueueInv, Shapes
  <2> QED BY <2>1, <1>1, <1>2, <1>3, <1>4 DEF QueueInv, UpdateKeeps
<1> QED BY <1>5, <1>6, <1>7, <1>8
   DEF QueueInv, Shapes, StatusesMatch, BlocksHeldByLive

\* A request that is gone leaves its blocks.
LEMMA ReleasedOnlyOf ==
  ASSUME NEW m, ManagerShape(m), NEW r \in Reqs
  PROVE  /\ OnlyOf(r, m, Released(m, r))
         /\ Released(m, r).blocks[r] = << >>
         /\ Released(m, r).ncached[r] = Absent
<1>1. /\ OnlyOf(r, m, Free(m, r)) /\ Free(m, r).blocks[r] = << >>
      /\ Free(m, r).ncached[r] = Absent
  BY FreeOnlyOf
<1>2. /\ ManagerShape(Released(m, r))
      /\ Released(m, r).blocks = Free(m, r).blocks
      /\ Released(m, r).ncached = Free(m, r).ncached
  BY <1>1, FreeBlockHashesOnlyOf DEF OnlyOf, Released
<1> QED BY <1>1, <1>2 DEF OnlyOf

\* One round of the loop of update_from_output, the request kept or stopped.
LEMMA UpdateRequestKeeps ==
  ASSUME QueueInv, InUpdateLoop, NEW e, NEW g, NEW d, UpdateRequest(e, g, d)
  PROVE  QueueInv'
<1> DEFINE r == Current
           q == [Verified(req[r], e, g) EXCEPT !.spec = d]
<1>1. /\ step.pc = "update" /\ step.i <= Len(running)
      /\ UNCHANGED <<waiting, running>>
  BY DEF InUpdateLoop, UpdateRequest
<1>2. r \in Reqs /\ r \in Range(running) /\ r \in Live
  BY <1>1, CurrentRuns
<1>3. /\ {"status", "tokens", "computed", "spec"} \subseteq DOMAIN q
      /\ q.status = req[r].status
  BY <1>2 DEF QueueInv, Shapes, Verified
<1> HIDE DEF q
<1>4. CASE StopAt(r, q, g) = {}
  <2>1. /\ req' = [req EXCEPT ![r] = [q EXCEPT !.tokens = @ \o g]]
        /\ step' = [step EXCEPT !.i = @ + 1, !.keep = Append(@, r)]
        /\ UNCHANGED kv
    BY <1>4 DEF UpdateRequest, q
  <2>2. /\ DOMAIN req' = Reqs
        /\ \A s \in Reqs : /\ {"status", "tokens", "computed", "spec"} \subseteq DOMAIN req'[s]
                           /\ req'[s].status = req[s].status
    BY <2>1, <1>2, <1>3 DEF QueueInv, Shapes
  <2> QED BY <2>1, <2>2, <1>1, KeptStays
<1>5. CASE StopAt(r, q, g) # {}
  <2>1. /\ req' = [req EXCEPT ![r] = Gone("finished")]
        /\ step' = [step EXCEPT !.i = @ + 1]
        /\ kv' = Released(kv, r)
    BY <1>5 DEF UpdateRequest, q
  <2> HIDE DEF r
  <2>2. /\ step'.pc = "update" /\ step'.i = step.i + 1
        /\ step'.skipped = step.skipped /\ step'.keep = step.keep
        /\ DOMAIN step' = DOMAIN step
    BY <2>1, <1>1 DEF QueueInv, Shapes, StepShape
  <2>3. /\ DOMAIN req' = Reqs /\ req'[r].status = "finished"
        /\ \A s \in Reqs : /\ {"status", "tokens", "computed", "spec"} \subseteq DOMAIN req'[s]
                           /\ s # r => req'[s].status = req[s].status
    BY <2>1, <1>2 DEF QueueInv, Shapes, Gone
  <2>4. Remaining' = Remaining \ {r} /\ r \in Remaining
    BY <2>2, <1>1, RemainingAfter DEF r
  <2>5. Live' = Live \ {r} /\ InLine' = InLine /\ r \notin Range(step.keep)
    BY <2>2, <2>4, <1>1 DEF Live, InLine, QueueInv, UpdateKeeps
  <2>6. /\ OnlyOf(r, kv, kv')
        /\ kv'.blocks[r] = << >> /\ kv'.ncached[r] = Absent
    BY <2>1, <1>2, ReleasedOnlyOf DEF QueueInv, Shapes
  <2>7. Shapes'
    BY <2>2, <2>3, <2>6, <1>1 DEF QueueInv, Shapes, StepShape, OnlyOf
  <2>8. NoRepetition'
    BY <2>2, <1>1 DEF QueueInv, NoRepetition
  <2>9. StatusesMatch'
    <3>1. r \notin InLine
      BY <1>2 DEF QueueInv, StatusesMatch, Queued
    <3> QED BY <3>1, <2>3, <2>5, <1>2 DEF QueueInv, StatusesMatch, Queued
  <2>10. BlocksHeldByLive'
    BY <2>5, <2>6 DEF QueueInv, BlocksHeldByLive, OnlyOf
  <2>11. UpdateKeeps'
    <3>1. Range(running) \subseteq Reqs
      BY RangeFacts DEF QueueInv, Shapes
    <3> QED BY <3>1, <2>2, <2>3, <2>4, <1>1 DEF QueueInv, UpdateKeeps, Queued
  <2> QED BY <2>7, <2>8, <2>9, <2>10, <2>11 DEF QueueInv
<1> QED BY <1>4, <1>5

\* The end of update_from_output, which replaces self.running.
LEMMA EndUpdateKeeps ==
  ASSUME QueueInv, NEW b, EndUpdate(b)
  PROVE  QueueInv'
<1>1. /\ step.pc = "update" /\ step.i > Len(running)
      /\ UNCHANGED <<kv, req, waiting>>
      /\ running' = step.keep /\ step' = NoStep
  BY DEF EndUpdate
<1>2. Remaining = {}
  <2>1. \A j \in step.i .. Len(running) : FALSE
    BY <1>1 DEF QueueInv, Shapes, StepShape
  <2> QED BY <2>1 DEF Remaining
<1>3. Live' = Live
  BY <1>1, <1>2, NoStepShape DEF Live
<1>4. InLine' = InLine
  BY <1>1, NoStepShape DEF InLine, QueueInv, NoRepetition
<1>5. Shapes'
  BY <1>1, NoStepShape DEF QueueInv, Shapes, StepShape, Pcs
<1>6. NoRepetition'
  BY <1>1, NoStepShape DEF QueueInv, NoRepetition
<1>7. UpdateKeeps'
  BY <1>1, NoStepShape DEF QueueInv, UpdateKeeps
<1> QED BY <1>1, <1>3, <1>4, <1>5, <1>6, <1>7
   DEF QueueInv, StatusesMatch, BlocksHeldByLive

-----------------------------------------------------------------------------
\* Calls from outside

\* Between two calls the queues hold all requests.
LEMMA IdleFacts ==
  ASSUME QueueInv, Idle
  PROVE  /\ step.pc = "idle" /\ step.skipped = << >> /\ Range(step.skipped) = {}
         /\ Live = Range(running) /\ InLine = Range(waiting)
         /\ running \in Seq(Reqs) /\ waiting \in Seq(Reqs)
         /\ IsInjective(running) /\ IsInjective(waiting)
         /\ Range(running) \subseteq Reqs /\ Range(waiting) \subseteq Reqs
<1>1. step.pc = "idle" /\ step.skipped = << >>
  BY DEF Idle, QueueInv, NoRepetition
<1>2. Live = Range(running) /\ InLine = Range(waiting) /\ Range(step.skipped) = {}
  BY <1>1, NoStepShape DEF Live, InLine
<1> QED BY <1>1, <1>2, RangeFacts DEF QueueInv, Shapes, NoRepetition

\* add_request appends the request to the waiting queue.
LEMMA AddRequestKeeps ==
  ASSUME QueueInv, NEW r \in Reqs, AddRequest(r)
  PROVE  QueueInv'
<1>1. /\ UNCHANGED <<kv, running, step>> /\ waiting' = Append(waiting, r)
      /\ req[r].status = "unborn"
      /\ \E w \in {"waiting", "waiting_fsm"} : \E t :
            req' = [req EXCEPT ![r] =
                      [status |-> w, tokens |-> t, computed |-> 0, spec |-> << >>]]
  <2>1. /\ UNCHANGED <<kv, running, step>> /\ waiting' = Append(waiting, r)
        /\ req[r].status = "unborn"
    BY DEF AddRequest
  <2> DEFINE w == IF r \in FsmReqs THEN "waiting_fsm" ELSE "waiting"
  <2>2. req' = [req EXCEPT ![r] = [status |-> w, tokens |-> Prompt[r],
                                   computed |-> 0, spec |-> << >>]]
    BY DEF AddRequest
  <2>3. w \in {"waiting", "waiting_fsm"}
    OBVIOUS
  <2> HIDE DEF w
  <2> QED BY <2>1, <2>2, <2>3
<1>2. /\ step.pc = "idle" /\ step.skipped = << >> /\ Range(step.skipped) = {}
      /\ Live = Range(running) /\ InLine = Range(waiting)
      /\ waiting \in Seq(Reqs) /\ IsInjective(waiting)
      /\ Range(running) \subseteq Reqs
  BY IdleFacts DEF AddRequest
<1>3. r \notin Range(running) /\ r \notin Range(waiting)
  BY <1>1, <1>2 DEF QueueInv, StatusesMatch, Queued
<1>4. /\ DOMAIN req' = Reqs
      /\ req'[r].status \in Queued
      /\ \A s \in Reqs : /\ {"status", "tokens", "computed", "spec"} \subseteq DOMAIN req'[s]
                         /\ s # r => req'[s].status = req[s].status
  BY <1>1 DEF QueueInv, Shapes, Queued
<1>5. /\ waiting' \in Seq(Reqs) /\ Range(waiting') = Range(waiting) \cup {r}
      /\ IsInjective(waiting')
  BY <1>1, <1>2, <1>3, AppendFacts
<1>6. Live' = Live /\ InLine' = InLine \cup {r}
  BY <1>1, <1>2, <1>5 DEF Live, InLine
<1>7. Shapes'
  BY <1>1, <1>4, <1>5 DEF QueueInv, Shapes, StepShape
<1>8. NoRepetition'
  BY <1>1, <1>2, <1>5 DEF QueueInv, NoRepetition
<1>9. StatusesMatch'
  BY <1>2, <1>3, <1>4, <1>6 DEF QueueInv, StatusesMatch, Queued
<1>10. BlocksHeldByLive'
  BY <1>1, <1>6 DEF QueueInv, BlocksHeldByLive
<1>11. UpdateKeeps'
  BY <1>1, <1>2, <1>3, <1>4 DEF QueueInv, UpdateKeeps
<1> QED BY <1>7, <1>8, <1>9, <1>10, <1>11 DEF QueueInv

\* finish_requests takes the request out of the queue its status says.
LEMMA FinishRequestsKeeps ==
  ASSUME QueueInv, NEW r \in Reqs, FinishRequests(r)
  PROVE  QueueInv'
<1>1. /\ UNCHANGED step
      /\ req' = [req EXCEPT ![r] = Gone("aborted")]
      /\ kv' = Released(kv, r)
      /\ IF req[r].status = "running"
         THEN running' = Without(running, {r}) /\ waiting' = waiting
         ELSE waiting' = Without(waiting, {r}) /\ running' = running
  BY DEF FinishRequests
<1>2. /\ step.pc = "idle" /\ step.skipped = << >> /\ Range(step.skipped) = {}
      /\ Live = Range(running) /\ InLine = Range(waiting)
      /\ running \in Seq(Reqs) /\ waiting \in Seq(Reqs)
      /\ IsInjective(running) /\ IsInjective(waiting)
      /\ Range(running) \subseteq Reqs /\ Range(waiting) \subseteq Reqs
  BY IdleFacts DEF FinishRequests
<1>3. /\ running' \in Seq(Reqs) /\ Range(running') = Range(running) \ {r}
      /\ waiting' \in Seq(Reqs) /\ Range(waiting') = Range(waiting) \ {r}
      /\ IsInjective(running') /\ IsInjective(waiting')
  <2>1. CASE req[r].status = "running"
    <3>1. r \notin Range(waiting)
      BY <2>1, <1>2 DEF QueueInv, StatusesMatch, Queued
    <3> QED BY <3>1, <2>1, <1>1, <1>2, WithoutFacts
  <2>2. CASE req[r].status # "running"
    <3>1. r \notin Range(running)
      BY <2>2, <1>2 DEF QueueInv, StatusesMatch
    <3> QED BY <3>1, <2>2, <1>1, <1>2, WithoutFacts
  <2> QED BY <2>1, <2>2
<1>4. /\ DOMAIN req' = Reqs
      /\ req'[r].status = "aborted"
      /\ \A s \in Reqs : /\ {"status", "tokens", "computed", "spec"} \subseteq DOMAIN req'[s]
                         /\ s # r => req'[s].status = req[s].status
  BY <1>1 DEF QueueInv, Shapes, Gone
<1>5. /\ OnlyOf(r, kv, kv')
      /\ kv'.blocks[r] = << >> /\ kv'.ncached[r] = Absent
  BY <1>1, ReleasedOnlyOf DEF QueueInv, Shapes
<1>6. Live' = Live \ {r} /\ InLine' = InLine \ {r}
  BY <1>1, <1>2, <1>3 DEF Live, InLine
<1>7. Shapes'
  BY <1>1, <1>3, <1>4, <1>5 DEF QueueInv, Shapes, StepShape, OnlyOf
<1>8. NoRepetition'
  BY <1>1, <1>2, <1>3 DEF QueueInv, NoRepetition
<1>9. StatusesMatch'
  BY <1>4, <1>6 DEF QueueInv, StatusesMatch, Queued
<1>10. BlocksHeldByLive'
  BY <1>5, <1>6 DEF QueueInv, BlocksHeldByLive, OnlyOf
<1>11. UpdateKeeps'
  BY <1>1, <1>2, <1>3, <1>4 DEF QueueInv, UpdateKeeps, Queued
<1> QED BY <1>7, <1>8, <1>9, <1>10, <1>11 DEF QueueInv

\* reset_prefix_cache leaves the queues alone.
LEMMA ResetKeeps == ASSUME QueueInv, ResetPrefixCacheCall PROVE QueueInv'
<1>1. kv' = ResetCache(kv) /\ UNCHANGED <<req, waiting, running, step>>
  BY DEF ResetPrefixCacheCall
<1>2. /\ ManagerShape(kv')
      /\ kv'.blocks = kv.blocks /\ kv'.ncached = kv.ncached
  BY <1>1, ResetCacheOnlyOf DEF QueueInv, Shapes
<1> QED BY <1>1, <1>2
   DEF QueueInv, Shapes, StepShape, NoRepetition, StatusesMatch,
       BlocksHeldByLive, UpdateKeeps, Live, InLine, Remaining

\* The invariant reads nothing but these variables.
LEMMA UnchangedKeeps ==
  ASSUME QueueInv, UNCHANGED <<kv, req, waiting, running, step>>
  PROVE  QueueInv'
BY DEF QueueInv, Shapes, StepShape, NoRepetition, StatusesMatch,
       BlocksHeldByLive, UpdateKeeps, Live, InLine, Remaining

-----------------------------------------------------------------------------
\* The steps of the engine are the scheduler's.

\* Every step of schedule().
LEMMA ScheduleStepKeeps == ASSUME QueueInv, ScheduleStep PROVE QueueInv'
<1>1. CASE SkipRunning  BY <1>1, SkipRunningKeeps
<1>2. CASE ScheduleRunning  BY <1>2, ScheduleRunningKeeps
<1>3. CASE Preempt  BY <1>3, PreemptKeeps
<1>4. CASE EndRunningLoop \/ EndWaitingLoop  BY <1>4, EndLoopKeeps
<1>5. CASE SkipWaiting  BY <1>5, SkipWaitingKeeps
<1>6. CASE AdmitWaiting  BY <1>6, AdmitWaitingKeeps
<1>7. CASE AdmissionFull  BY <1>7, AdmissionFullKeeps
<1>8. CASE AdmissionAwaitsEncoder  BY <1>8, AdmissionAwaitsEncoderKeeps
<1> QED BY <1>1, <1>2, <1>3, <1>4, <1>5, <1>6, <1>7, <1>8 DEF ScheduleStep

\* A request the batch did not schedule is kept as it is.
LEMMA UpdateUnscheduledKeeps == ASSUME QueueInv, UpdateUnscheduled PROVE QueueInv'
<1>1. /\ step.pc = "update" /\ step.i <= Len(running)
      /\ UNCHANGED <<kv, req, waiting, running>>
      /\ step' = [step EXCEPT !.i = @ + 1, !.keep = Append(@, Current)]
  BY DEF UpdateUnscheduled, UpdateSkip, InUpdateLoop
<1> QED BY <1>1, KeptStays DEF QueueInv, Shapes

\* Every step of the engine.
LEMMA EngineStepKeeps == ASSUME QueueInv, EngineStep PROVE QueueInv'
<1>1. CASE StartStep  BY <1>1, BeginScheduleKeeps DEF StartStep
<1>2. CASE StartUpdate  BY <1>2, StartUpdateKeeps
<1>3. CASE Scheduling  BY <1>3, ScheduleStepKeeps DEF Scheduling
<1>4. CASE SubmitAndWait  BY <1>4, EndScheduleKeeps DEF SubmitAndWait
<1>5. CASE Submit  BY <1>5, EndScheduleKeeps DEF Submit
<1>6. CASE NothingScheduled
  <2>1. PICK p \in {"idle", "update"} : EndSchedule(p)
    BY <1>6, Zenon DEF NothingScheduled
  <2> QED BY <2>1, EndScheduleKeeps
<1>7. CASE UpdateUnscheduled  BY <1>7, UpdateUnscheduledKeeps
<1>8. CASE UpdateScheduled
  <2>1. InUpdateLoop /\ \E e, g, d : UpdateRequest(e, g, d)
    BY <1>8, Zenon DEF UpdateScheduled
  <2> QED BY <2>1, UpdateRequestKeeps
<1>9. CASE FinishUpdate  BY <1>9, EndUpdateKeeps DEF FinishUpdate
<1> QED BY <1>1, <1>2, <1>3, <1>4, <1>5, <1>6, <1>7, <1>8, <1>9 DEF EngineStep

\* Every step of the engine and of its clients.
LEMMA NextKeeps == ASSUME QueueInv, [Next]_vars PROVE QueueInv'
<1>1. CASE External
  <2>1. PICK r \in Reqs : AddRequest(r) \/ GrammarCompiled(r) \/ FinishRequests(r)
    BY <1>1 DEF External
  <2>2. CASE AddRequest(r)  BY <2>2, AddRequestKeeps
  <2>3. CASE GrammarCompiled(r)  BY <2>3, UnchangedKeeps DEF GrammarCompiled
  <2>4. CASE FinishRequests(r)  BY <2>4, FinishRequestsKeeps
  <2> QED BY <2>1, <2>2, <2>3, <2>4
<1>2. CASE Reset  BY <1>2, ResetKeeps DEF Reset
<1>3. CASE EngineStep  BY <1>3, EngineStepKeeps
<1>4. CASE UNCHANGED vars  BY <1>4, UnchangedKeeps DEF vars
<1> QED BY <1>1, <1>2, <1>3, <1>4 DEF Next

\* The invariant says what is promised of the queues.
LEMMA QueueInvImplies == ASSUME QueueInv PROVE QueuesMatchStatus
<1>1. Range(running) \cap Range(waiting) = {}
  <2>1. SUFFICES ASSUME NEW r \in Range(running), r \in Range(waiting)
                 PROVE  FALSE
    OBVIOUS
  <2>2. r \in Reqs
    BY RangeFacts DEF QueueInv, Shapes
  <2> QED BY <2>1, <2>2 DEF QueueInv, StatusesMatch, UpdateKeeps, InLine
<1>2. ASSUME NEW r \in Reqs, r \notin Range(running)
      PROVE  kv.blocks[r] = << >> /\ kv.ncached[r] = Absent
  <2>1. r \notin Live
    <3>1. running \in Seq(Reqs) /\ step.pc = "update" => step.i \in Nat \ {0}
      BY DEF QueueInv, Shapes, StepShape
    <3>2. step.pc = "update" => Remaining \subseteq Range(running)
      BY <3>1, RangeFacts DEF Remaining, QueueInv, Shapes
    <3> QED BY <3>2, <1>2 DEF Live, QueueInv, UpdateKeeps
  <2> QED BY <2>1 DEF QueueInv, BlocksHeldByLive
<1>3. step.pc = "idle" => Live = Range(running) /\ InLine = Range(waiting)
  BY NoStepShape DEF Live, InLine, QueueInv, NoRepetition
<1> QED BY <1>1, <1>2, <1>3
   DEF QueuesMatchStatus, QueueInv, NoRepetition, StatusesMatch, Queued

\* A request is in the queue its status says, in one queue at most and once,
\* and only the running ones hold KV blocks: for any set of requests, pool,
\* budgets, pipeline depth and speculation, whatever is added, preempted, put
\* aside, aborted or finished (schedule(), update_from_output() and
\* finish_requests() of scheduler.py).
THEOREM QueuesMatchStatusAlways == Spec => []QueuesMatchStatus
<1>1. Init => QueueInv
  BY InitQueueInv
<1>2. QueueInv /\ [Next]_vars => QueueInv'
  BY NextKeeps
<1>3. QueueInv => QueuesMatchStatus
  BY QueueInvImplies
<1> QED BY <1>1, <1>2, <1>3, PTL DEF Spec

-----------------------------------------------------------------------------
(***************************************************************************)
(* Nobody overtakes.                                                       *)
(***************************************************************************)

\* x is before y in s.
Ordered(s, x, y) == \E i, j \in DOMAIN s : i < j /\ s[i] = x /\ s[j] = y

\* Those that are in both are in t in the order they are in s.
KeepsOrder(s, t) ==
  \A x, y \in Range(s) \cap Range(t) : Ordered(s, x, y) => Ordered(t, x, y)

\* The order in two sequences one after the other
LEMMA OrderedConcat ==
  ASSUME NEW S, NEW a \in Seq(S), NEW b \in Seq(S), NEW x, NEW y
  PROVE  Ordered(a \o b, x, y)
           <=> Ordered(a, x, y) \/ Ordered(b, x, y) \/ (x \in Range(a) /\ y \in Range(b))
<1> DEFINE c == a \o b
           m == Len(a)
           n == Len(b)
<1>1. m \in Nat /\ n \in Nat /\ DOMAIN a = 1 .. m /\ DOMAIN b = 1 .. n
  OBVIOUS
<1>2. /\ c \in Seq(S) /\ Len(c) = m + n
      /\ \A i \in 1 .. m + n : c[i] = IF i <= m THEN a[i] ELSE b[i - m]
  BY ConcatProperties
<1>3. DOMAIN c = 1 .. m + n
  <2> HIDE DEF c, m, n
  <2> QED BY <1>2
<1>4. Range(a) = {a[i] : i \in 1 .. m} /\ Range(b) = {b[i] : i \in 1 .. n}
  BY RangeFacts
<1> HIDE DEF c, m, n
<1>5. \A i \in 1 .. m : i \in 1 .. m + n /\ c[i] = a[i]
  BY <1>1, <1>2
<1>6. \A i \in 1 .. n : i + m \in 1 .. m + n /\ c[i + m] = b[i]
  BY <1>1, <1>2
<1>7. ASSUME Ordered(a, x, y) PROVE Ordered(c, x, y)
  BY <1>1, <1>3, <1>5, <1>7 DEF Ordered
<1>8. ASSUME Ordered(b, x, y) PROVE Ordered(c, x, y)
  <2>1. PICK i \in 1 .. n, j \in 1 .. n : i < j /\ b[i] = x /\ b[j] = y
    BY <1>1, <1>8 DEF Ordered
  <2>2. i + m < j + m
    BY <1>1, <2>1
  <2> QED BY <1>3, <1>6, <2>1, <2>2 DEF Ordered
<1>9. ASSUME x \in Range(a), y \in Range(b) PROVE Ordered(c, x, y)
  <2>1. PICK i \in 1 .. m, j \in 1 .. n : a[i] = x /\ b[j] = y
    BY <1>4, <1>9
  <2>2. i < j + m
    BY <1>1
  <2> QED BY <1>3, <1>5, <1>6, <2>1, <2>2 DEF Ordered
<1>10. ASSUME Ordered(c, x, y)
       PROVE  Ordered(a, x, y) \/ Ordered(b, x, y) \/ (x \in Range(a) /\ y \in Range(b))
  <2>1. PICK i \in 1 .. m + n, j \in 1 .. m + n : i < j /\ c[i] = x /\ c[j] = y
    BY <1>3, <1>10 DEF Ordered
  <2>2. CASE j <= m
    <3>1. i \in 1 .. m /\ j \in 1 .. m
      BY <1>1, <2>1, <2>2
    <3> QED BY <1>1, <1>5, <2>1, <3>1 DEF Ordered
  <2>3. CASE i <= m /\ ~ (j <= m)
    <3>1. i \in 1 .. m /\ j - m \in 1 .. n /\ (j - m) + m = j
      BY <1>1, <2>1, <2>3
    <3>2. x = a[i] /\ y = b[j - m]
      BY <1>2, <2>1, <2>3
    <3> QED BY <1>4, <3>1, <3>2
  <2>4. CASE ~ (i <= m) /\ ~ (j <= m)
    <3>1. i - m \in 1 .. n /\ j - m \in 1 .. n /\ i - m < j - m
      BY <1>1, <2>1, <2>4
    <3>2. b[i - m] = x /\ b[j - m] = y
      BY <1>2, <2>1, <2>4
    <3> QED BY <1>1, <3>1, <3>2 DEF Ordered
  <2>5. i <= m \/ ~ (j <= m)
    BY <1>1, <2>1
  <2> QED BY <2>2, <2>3, <2>4, <2>5
<1> QED BY <1>7, <1>8, <1>9, <1>10 DEF c

\* Who is before somebody is in the sequence.
LEMMA OrderedInRange ==
  ASSUME NEW S, NEW s \in Seq(S), NEW x, NEW y, Ordered(s, x, y)
  PROVE  x \in Range(s) /\ y \in Range(s)
BY RangeFacts DEF Ordered

\* A sequence without repetitions has one order.
LEMMA OrderedOnce ==
  ASSUME NEW S, NEW s \in Seq(S), IsInjective(s), NEW x, NEW y, Ordered(s, x, y)
  PROVE  ~ Ordered(s, y, x)
<1>1. PICK i \in 1 .. Len(s), j \in 1 .. Len(s) : i < j /\ s[i] = x /\ s[j] = y
  BY DEF Ordered
<1> SUFFICES ASSUME NEW k \in 1 .. Len(s), NEW l \in 1 .. Len(s), k < l, s[k] = y, s[l] = x
             PROVE  FALSE
  BY DEF Ordered
<1>2. k = j /\ l = i
  BY <1>1, RangeFacts
<1> QED BY <1>1, <1>2

\* Two parts that keep their orders
LEMMA ConcatKeeps ==
  ASSUME NEW S, NEW a \in Seq(S), NEW b \in Seq(S), NEW c \in Seq(S), NEW d \in Seq(S),
         Range(c) \subseteq Range(a), Range(d) \subseteq Range(b),
         Range(a) \cap Range(b) = {}, KeepsOrder(a, c), KeepsOrder(b, d)
  PROVE  KeepsOrder(a \o b, c \o d)
<1> SUFFICES ASSUME NEW x \in Range(c \o d), NEW y \in Range(c \o d), Ordered(a \o b, x, y)
             PROVE  Ordered(c \o d, x, y)
  BY DEF KeepsOrder
<1>1. Range(c \o d) = Range(c) \cup Range(d)
  BY ConcatFacts
<1>2. Ordered(a, x, y) \/ Ordered(b, x, y) \/ (x \in Range(a) /\ y \in Range(b))
  BY OrderedConcat
<1>3. CASE Ordered(a, x, y)
  <2>1. x \in Range(a) /\ y \in Range(a)
    BY <1>3, OrderedInRange
  <2>2. Ordered(c, x, y)
    BY <1>1, <1>3, <2>1 DEF KeepsOrder
  <2> QED BY <2>2, OrderedConcat
<1>4. CASE Ordered(b, x, y)
  <2>1. x \in Range(b) /\ y \in Range(b)
    BY <1>4, OrderedInRange
  <2>2. Ordered(d, x, y)
    BY <1>1, <1>4, <2>1 DEF KeepsOrder
  <2> QED BY <2>2, OrderedConcat
<1>5. CASE x \in Range(a) /\ y \in Range(b)
  <2>1. x \in Range(c) /\ y \in Range(d)
    BY <1>1, <1>5
  <2> QED BY <2>1, OrderedConcat
<1> QED BY <1>2, <1>3, <1>4, <1>5

\* What is added at either end leaves the order.
LEMMA AddedKeeps ==
  ASSUME NEW S, NEW a \in Seq(S), NEW b \in Seq(S)
  PROVE  /\ KeepsOrder(a, a \o b) /\ KeepsOrder(b, a \o b)
         /\ Range(a) \cap Range(b) = {} => KeepsOrder(a \o b, b)
BY OrderedConcat, OrderedInRange DEF KeepsOrder

\* Removing elements leaves the others in their order.
LEMMA WithoutKeeps ==
  ASSUME NEW S, NEW s \in Seq(S), NEW E
  PROVE  KeepsOrder(s, Without(s, E))
<1> DEFINE k == Kept(s, E)
           Ok(n) == /\ k[n] \in Seq(S)
                    /\ Range(k[n]) = {s[j] : j \in 1 .. n} \ E
                    /\ \A i, j \in 1 .. n :
                          i < j /\ s[i] \notin E /\ s[j] \notin E
                            => Ordered(k[n], s[i], s[j])
           T == {n \in Nat : n <= Len(s) => Ok(n)}
<1>1. Len(s) \in Nat
  OBVIOUS
<1>2. k[0] = << >>
  BY <1>1, KeptDef
<1>3. ASSUME NEW i \in 1 .. Len(s)
      PROVE  k[i] = IF s[i] \in E THEN k[i-1] ELSE Append(k[i-1], s[i])
  <2>1. k = [j \in 0 .. Len(s) |->
               IF j = 0 THEN << >>
               ELSE IF s[j] \in E THEN k[j-1] ELSE Append(k[j-1], s[j])]
    BY KeptDef
  <2>2. i \in 0 .. Len(s) /\ i # 0
    BY <1>1
  <2> HIDE DEF k
  <2> QED BY <2>1, <2>2
<1> HIDE DEF k
<1>4. 0 \in T
  <2>1. Range(<< >>) = {} /\ << >> \in Seq(S)
    BY DEF Range
  <2>2. 1 .. 0 = {}
    OBVIOUS
  <2>3. Ok(0)
    BY <1>2, <2>1, <2>2
  <2> QED BY <2>3
<1>5. ASSUME NEW n \in T PROVE n + 1 \in T
  <2>1. SUFFICES ASSUME n + 1 <= Len(s) PROVE Ok(n + 1)
    OBVIOUS
  <2>2. n \in Nat /\ n + 1 \in 1 .. Len(s) /\ n <= Len(s)
    BY <1>1, <2>1
  <2>3. Ok(n)
    BY <2>2
  <2> DEFINE t == k[n]
             x == s[n + 1]
             P == {s[j] : j \in 1 .. n}
             Q == {s[j] : j \in 1 .. n + 1}
  <2>4. k[n + 1] = IF x \in E THEN t ELSE Append(t, x)
    BY <1>3, <2>2
  <2>5. Q = P \cup {x}
    BY <2>2
  <2>6. x \in S
    BY <2>2
  <2>7. \A i, j \in 1 .. n + 1 : i < j => i \in 1 .. n /\ (j \in 1 .. n \/ j = n + 1)
    BY <2>2
  <2>8. /\ t \in Seq(S) /\ Range(t) = P \ E
        /\ \A i, j \in 1 .. n : i < j /\ s[i] \notin E /\ s[j] \notin E
                                  => Ordered(t, s[i], s[j])
    BY <2>3
  <2>9. CASE x \in E
    <3>1. k[n + 1] = t /\ Q \ E = P \ E
      BY <2>4, <2>5, <2>9
    <3>2. ASSUME NEW i \in 1 .. n + 1, NEW j \in 1 .. n + 1,
                 i < j, s[i] \notin E, s[j] \notin E
          PROVE  Ordered(t, s[i], s[j])
      BY <2>7, <2>8, <2>9, <3>2
    <3> QED BY <2>8, <3>1, <3>2
  <2>10. CASE x \notin E
    <3> DEFINE u == <<x>>
    <3>1. u \in Seq(S) /\ Range(u) = {x} /\ Append(t, x) = t \o u
      <4>1. t \in Seq(S) /\ x \in S
        BY <2>6, <2>8
      <4> HIDE DEF t, x
      <4>2. Append(t, x) = t \o <<x>>
        BY <4>1, AppendIsConcat
      <4> QED BY <4>1, <4>2 DEF Range
    <3> HIDE DEF t, u
    <3>2. k[n + 1] = t \o u /\ Range(t) = P \ E
      BY <2>4, <2>8, <2>10, <3>1
    <3>3. t \o u \in Seq(S) /\ Range(t \o u) = Range(t) \cup {x}
      BY <2>8, <3>1, ConcatFacts
    <3>4. Range(t \o u) = Q \ E
      BY <2>5, <2>10, <3>2, <3>3
    <3>5. ASSUME NEW i \in 1 .. n + 1, NEW j \in 1 .. n + 1,
                 i < j, s[i] \notin E, s[j] \notin E
          PROVE  Ordered(t \o u, s[i], s[j])
      <4>1. CASE j \in 1 .. n
        <5>1. Ordered(t, s[i], s[j])
          BY <2>7, <2>8, <3>5, <4>1
        <5> QED BY <2>8, <3>1, <5>1, OrderedConcat
      <4>2. CASE j = n + 1
        <5>1. s[i] \in Range(t) /\ s[j] \in Range(u)
          BY <2>7, <3>1, <3>2, <3>5, <4>2
        <5> QED BY <2>8, <3>1, <5>1, OrderedConcat
      <4> QED BY <2>7, <3>5, <4>1, <4>2
    <3> QED BY <3>2, <3>3, <3>4, <3>5
  <2> QED BY <2>9, <2>10
<1>6. T = Nat
  <2> HIDE DEF T
  <2>1. T \in SUBSET Nat
    BY DEF T
  <2> QED BY <1>4, <1>5, <2>1, NatSetInduction
<1>7. Ok(Len(s))
  <2>1. Len(s) \in T
    BY <1>1, <1>6
  <2>2. Len(s) <= Len(s)
    BY <1>1
  <2> HIDE DEF Ok
  <2> QED BY <2>1, <2>2
<1>8. Without(s, E) = k[Len(s)]
  BY DEF Without, k
<1> SUFFICES ASSUME NEW x \in Range(k[Len(s)]), NEW y \in Range(k[Len(s)]), Ordered(s, x, y)
             PROVE  Ordered(k[Len(s)], x, y)
  BY <1>8 DEF KeepsOrder
<1>9. PICK i \in 1 .. Len(s), j \in 1 .. Len(s) : i < j /\ s[i] = x /\ s[j] = y
  BY DEF Ordered
<1> QED BY <1>7, <1>9

-----------------------------------------------------------------------------
\* What a step does to the queues

\* The steps that move requests, and all the others
QueueMove ==
  \/ UNCHANGED <<running, waiting>> /\ step'.skipped = step.skipped
  \/ Preempt \/ SkipWaiting \/ AdmitWaiting
  \/ \E p \in {"idle", "update"} : EndSchedule(p)
  \/ \E r \in Reqs : AddRequest(r) \/ FinishRequests(r)
  \/ \E b : EndUpdate(b)

\* No step does anything else to the queues.
LEMMA Moves == ASSUME QueueInv, [Next]_vars PROVE QueueMove
<1>1. CASE External
  <2>1. PICK r \in Reqs : AddRequest(r) \/ GrammarCompiled(r) \/ FinishRequests(r)
    BY <1>1 DEF External
  <2>2. CASE GrammarCompiled(r)
    BY <2>2 DEF GrammarCompiled, QueueMove
  <2> QED BY <2>1, <2>2 DEF QueueMove
<1>2. CASE Reset \/ UNCHANGED vars
  BY <1>2 DEF Reset, ResetPrefixCacheCall, vars, QueueMove
<1>3. CASE StartStep \/ StartUpdate
  <2>1. /\ UNCHANGED <<running, waiting>> /\ step.pc = "idle"
        /\ \/ step' = [NoStep EXCEPT !.pc = "running", !.i = 1,
                                     !.budget = MaxNumScheduledTokens]
           \/ step' = [NoStep EXCEPT !.pc = "update", !.i = 1]
    BY <1>3 DEF StartStep, BeginSchedule, StartUpdate, Idle
  <2>2. step'.skipped = << >> /\ step.skipped = << >>
    BY <2>1, NoStepShape DEF QueueInv, NoRepetition
  <2> QED BY <2>1, <2>2 DEF QueueMove
<1>4. CASE Scheduling
  <2>1. ScheduleStep
    BY <1>4 DEF Scheduling
  <2>2. CASE SkipRunning \/ EndRunningLoop \/ EndWaitingLoop
             \/ AdmissionFull \/ AdmissionAwaitsEncoder
    <3>1. /\ UNCHANGED <<running, waiting>>
          /\ \/ step' = [step EXCEPT !.i = @ + 1]
             \/ \E p : step' = [step EXCEPT !.pc = p]
      BY <2>2 DEF SkipRunning, EndRunningLoop, EndWaitingLoop, AdmissionFull,
                  AdmissionAwaitsEncoder
    <3>2. step'.skipped = step.skipped
      BY <3>1 DEF QueueInv, Shapes, StepShape
    <3> QED BY <3>1, <3>2 DEF QueueMove
  <2>3. CASE ScheduleRunning
    <3>1. UNCHANGED <<running, waiting>>
      BY <2>3 DEF ScheduleRunning, ScheduleCurrent
    <3>2. \E e, n : step' = [step EXCEPT !.i = @ + 1, !.budget = @ - n, !.out = e]
      BY <2>3, Zenon DEF ScheduleRunning, ScheduleCurrent
    <3>3. step'.skipped = step.skipped
      BY <3>2 DEF QueueInv, Shapes, StepShape
    <3> QED BY <3>1, <3>3 DEF QueueMove
  <2> QED BY <2>1, <2>2, <2>3 DEF ScheduleStep, QueueMove
<1>5. CASE SubmitAndWait \/ Submit \/ NothingScheduled
  <2>1. \E p \in {"idle", "update"} : EndSchedule(p)
    <3>1. CASE SubmitAndWait  BY <3>1 DEF SubmitAndWait
    <3>2. CASE Submit  BY <3>2 DEF Submit
    <3>3. CASE NothingScheduled  BY <3>3, Zenon DEF NothingScheduled
    <3> QED BY <3>1, <3>2, <3>3, <1>5
  <2> QED BY <2>1 DEF QueueMove
<1>6. CASE UpdateUnscheduled \/ UpdateScheduled
  <2>1. /\ UNCHANGED <<running, waiting>>
        /\ \/ step' = [step EXCEPT !.i = @ + 1, !.keep = Append(@, Current)]
           \/ step' = [step EXCEPT !.i = @ + 1]
    <3>1. CASE UpdateUnscheduled
      BY <3>1 DEF UpdateUnscheduled, UpdateSkip
    <3>2. CASE UpdateScheduled
      <4>1. \E e, g, d : UpdateRequest(e, g, d)
        BY <3>2, Zenon DEF UpdateScheduled
      <4> QED BY <4>1 DEF UpdateRequest
    <3> QED BY <3>1, <3>2, <1>6
  <2>2. step'.skipped = step.skipped
    BY <2>1 DEF QueueInv, Shapes, StepShape
  <2> QED BY <2>1, <2>2 DEF QueueMove
<1>7. CASE FinishUpdate
  BY <1>7, Zenon DEF FinishUpdate, QueueMove
<1> QED BY <1>1, <1>2, <1>3, <1>4, <1>5, <1>6, <1>7 DEF Next, EngineStep

-----------------------------------------------------------------------------
\* Nobody waits for a grammar.
NoGrammar == \A r \in Reqs : req[r].status # "waiting_fsm"

\* Without requests that need one nobody ever does.
LEMMA NextNoGrammar ==
  ASSUME FsmReqs = {}, QueueInv, NoGrammar, [Next]_vars
  PROVE  NoGrammar'
<1> USE DEF NoGrammar
<1>1. DOMAIN req = Reqs /\ \A r \in Reqs : {"status", "spec", "computed"} \subseteq DOMAIN req[r]
  BY DEF QueueInv, Shapes
<1>2. CASE External
  <2>1. PICK r \in Reqs : AddRequest(r) \/ GrammarCompiled(r) \/ FinishRequests(r)
    BY <1>2 DEF External
  <2>2. CASE AddRequest(r)
    BY <2>2, <1>1 DEF AddRequest
  <2>3. CASE GrammarCompiled(r)
    BY <2>3 DEF GrammarCompiled
  <2>4. CASE FinishRequests(r)
    BY <2>4, <1>1 DEF FinishRequests, Gone
  <2> QED BY <2>1, <2>2, <2>3, <2>4
<1>3. CASE Reset \/ UNCHANGED vars \/ StartStep \/ StartUpdate \/ UpdateUnscheduled
           \/ FinishUpdate
  BY <1>3 DEF Reset, ResetPrefixCacheCall, vars, StartStep, BeginSchedule, StartUpdate,
              UpdateUnscheduled, UpdateSkip, FinishUpdate, EndUpdate
<1>4. CASE Scheduling
  <2>1. ScheduleStep
    BY <1>4 DEF Scheduling
  <2>2. CASE SkipRunning \/ EndRunningLoop \/ EndWaitingLoop
    BY <2>2 DEF SkipRunning, EndRunningLoop, EndWaitingLoop
  <2>3. CASE ScheduleRunning
    <3>1. \E r, spec : req' = IF spec = << >> THEN req ELSE [req EXCEPT ![r].spec = spec]
      BY <2>3, Zenon DEF ScheduleRunning, ScheduleCurrent
    <3> QED BY <3>1, <1>1
  <2>4. CASE Preempt
    <3>1. \E v : req' = [req EXCEPT ![v] = Preempted(@)]
      BY <2>4 DEF Preempt
    <3> QED BY <3>1, <1>1 DEF Preempted
  <2>5. CASE SkipWaiting \/ AdmissionFull \/ AdmissionAwaitsEncoder
    <3>1. \E r : req' = req \/ req' = [req EXCEPT ![r].status = "waiting"]
      BY <2>5, Zenon DEF SkipWaiting, AdmissionFull, AdmissionAwaitsEncoder
    <3> QED BY <3>1, <1>1
  <2>6. CASE AdmitWaiting
    <3>1. \E r, c : req' = [req EXCEPT ![r].status = "running", ![r].computed = c]
      BY <2>6, Zenon DEF AdmitWaiting, AdmitFirst
    <3> QED BY <3>1, <1>1
  <2> QED BY <2>1, <2>2, <2>3, <2>4, <2>5, <2>6 DEF ScheduleStep
<1>5. CASE SubmitAndWait \/ Submit \/ NothingScheduled
  <2>1. \E p : EndSchedule(p)
    <3>1. CASE SubmitAndWait  BY <3>1 DEF SubmitAndWait
    <3>2. CASE Submit  BY <3>2 DEF Submit
    <3>3. CASE NothingScheduled  BY <3>3, Zenon DEF NothingScheduled
    <3> QED BY <3>1, <3>2, <3>3, <1>5
  <2>2. req' = [r \in Reqs |-> IF r \in DOMAIN step.out
                               THEN Advanced(req[r], step.out[r].n) ELSE req[r]]
    BY <2>1 DEF EndSchedule
  <2> QED BY <2>2, <1>1 DEF Advanced
<1>6. CASE UpdateScheduled
  <2>1. PICK e, g, d : UpdateRequest(e, g, d)
    BY <1>6, Zenon DEF UpdateScheduled
  <2> DEFINE q == [Verified(req[Current], e, g) EXCEPT !.spec = d]
  <2>2. \/ req' = [req EXCEPT ![Current] = [q EXCEPT !.tokens = @ \o g]]
        \/ req' = [req EXCEPT ![Current] = Gone("finished")]
    BY <2>1 DEF UpdateRequest
  <2>3. Current \in Reqs /\ "status" \in DOMAIN q /\ q.status = req[Current].status
    <3>1. Current \in Reqs
      BY <1>6, CurrentRuns DEF UpdateScheduled, InUpdateLoop
    <3> QED BY <3>1, <1>1 DEF Verified
  <2> HIDE DEF q
  <2> QED BY <2>2, <2>3, <1>1 DEF Gone
<1> QED BY <1>2, <1>3, <1>4, <1>5, <1>6 DEF Next, EngineStep

-----------------------------------------------------------------------------
\* The requests update_from_output keeps stay in their order.
KeptInOrder == step.pc = "update" => KeepsOrder(running, step.keep)

\* A request is kept behind those that were before it in self.running.
LEMMA KeepsOneMore ==
  ASSUME QueueInv, KeptInOrder, step.pc = "update", step.i <= Len(running)
  PROVE  KeepsOrder(running, Append(step.keep, Current))
<1> DEFINE c == Current
           k == step.keep
           n == Len(running)
           u == <<c>>
<1>1. /\ running \in Seq(Reqs) /\ IsInjective(running) /\ n \in Nat
      /\ k \in Seq(Reqs) /\ Range(k) \cap Remaining = {}
      /\ step.i \in 1 .. n
  BY DEF QueueInv, Shapes, StepShape, NoRepetition, UpdateKeeps
<1>2. c \in Reqs /\ c = running[step.i] /\ Remaining = {running[j] : j \in step.i .. n}
  BY CurrentRuns DEF Current, Remaining
<1>3. KeepsOrder(running, k)
  BY DEF KeptInOrder
<1> HIDE DEF c, k, n
<1>4. u \in Seq(Reqs) /\ Range(u) = {c} /\ Append(k, c) = k \o u
  BY <1>1, <1>2, AppendIsConcat DEF Range
<1> HIDE DEF u
<1>5. Range(k \o u) = Range(k) \cup {c}
  BY <1>1, <1>4, ConcatFacts
<1>6. ASSUME NEW y \in Range(k) \cup {c}, Ordered(running, c, y) PROVE FALSE
  <2>1. PICK i \in 1 .. n, j \in 1 .. n : i < j /\ running[i] = c /\ running[j] = y
    BY <1>6 DEF Ordered, n
  <2>2. i = step.i
    BY <1>1, <1>2, <2>1, RangeFacts DEF n
  <2>3. j \in step.i .. n
    BY <1>1, <2>1, <2>2
  <2>4. y \in Remaining
    BY <1>2, <2>1, <2>3
  <2>5. y = c
    BY <1>1, <1>6, <2>4
  <2>6. j = i
    BY <1>1, <2>1, <2>5, RangeFacts DEF n
  <2> QED BY <2>1, <2>6
<1>7. ASSUME NEW x \in Range(k) \cup {c}, NEW y \in Range(k) \cup {c}, Ordered(running, x, y)
      PROVE  Ordered(k \o u, x, y)
  <2>1. x \in Range(k)
    BY <1>6, <1>7
  <2>2. CASE y \in Range(k)
    <3>1. x \in Range(running) /\ y \in Range(running)
      BY <1>1, <1>7, OrderedInRange
    <3>2. Ordered(k, x, y)
      BY <1>3, <1>7, <2>1, <2>2, <3>1 DEF KeepsOrder
    <3> QED BY <1>1, <1>4, <3>2, OrderedConcat
  <2>3. CASE y = c
    <3>1. y \in Range(u)
      BY <1>4, <2>3
    <3> QED BY <1>1, <1>4, <2>1, <3>1, OrderedConcat
  <2> QED BY <1>7, <2>2, <2>3
<1>8. KeepsOrder(running, k \o u)
  BY <1>5, <1>7 DEF KeepsOrder
<1> QED BY <1>4, <1>8 DEF c, k

\* Nothing else is kept.
LEMMA NextKeptInOrder ==
  ASSUME QueueInv, KeptInOrder, [Next]_vars
  PROVE  KeptInOrder'
<1> SUFFICES ASSUME step'.pc = "update" PROVE KeepsOrder(running, step.keep)'
  BY DEF KeptInOrder
<1>1. CASE UNCHANGED <<running, step>>
  BY <1>1 DEF KeptInOrder, KeepsOrder
<1>2. CASE step'.keep = << >>
  BY <1>2 DEF KeepsOrder, Range
<1>3. CASE External \/ Reset \/ UNCHANGED vars
  <2>1. step'.pc = "idle" \/ UNCHANGED <<running, step>>
    BY <1>3 DEF External, AddRequest, GrammarCompiled, FinishRequests, Idle, Reset,
                ResetPrefixCacheCall, vars
  <2> QED BY <1>1, <2>1
<1>4. CASE StartStep \/ StartUpdate \/ SubmitAndWait \/ Submit \/ NothingScheduled
  <2>1. \/ \E b : step' = [NoStep EXCEPT !.pc = "running", !.i = 1, !.budget = b]
        \/ \E p : step' = [NoStep EXCEPT !.pc = p, !.i = 1]
    <3>1. CASE StartStep  BY <3>1 DEF StartStep, BeginSchedule
    <3>2. CASE StartUpdate  BY <3>2 DEF StartUpdate
    <3>3. CASE SubmitAndWait  BY <3>3 DEF SubmitAndWait, EndSchedule
    <3>4. CASE Submit  BY <3>4 DEF Submit, EndSchedule
    <3>5. CASE NothingScheduled
      <4>1. PICK p : EndSchedule(p)
        BY <3>5, Zenon DEF NothingScheduled
      <4> QED BY <4>1 DEF EndSchedule
    <3> QED BY <1>4, <3>1, <3>2, <3>3, <3>4, <3>5
  <2>2. step'.keep = << >>
    BY <2>1 DEF NoStep
  <2> QED BY <1>2, <2>2
<1>5. CASE Scheduling
  <2>1. ScheduleStep /\ step.pc \in {"running", "waiting"}
    BY <1>5 DEF Scheduling, ScheduleStep, SkipRunning, ScheduleRunning, InRunningLoop, Preempt,
                EndRunningLoop, SkipWaiting, AdmitWaiting, AdmissionFull, Admissible,
                AdmissionAwaitsEncoder, EndWaitingLoop, InWaitingLoop
  <2>2. step'.pc # "update"
    <3>1. CASE SkipRunning \/ EndRunningLoop \/ EndWaitingLoop \/ AdmissionFull
               \/ AdmissionAwaitsEncoder
      <4>1. \/ step' = [step EXCEPT !.i = @ + 1]
            \/ \E p \in {"end", "waiting"} : step' = [step EXCEPT !.pc = p]
        BY <3>1 DEF SkipRunning, EndRunningLoop, EndWaitingLoop, AdmissionFull,
                    AdmissionAwaitsEncoder
      <4> QED BY <2>1, <4>1 DEF QueueInv, Shapes, StepShape
    <3>2. CASE ScheduleRunning
      <4>1. \E e, n : step' = [step EXCEPT !.i = @ + 1, !.budget = @ - n, !.out = e]
        BY <3>2, Zenon DEF ScheduleRunning, ScheduleCurrent
      <4> QED BY <2>1, <4>1 DEF QueueInv, Shapes, StepShape
    <3>3. CASE Preempt
      <4>1. step' = [step EXCEPT !.preempted = TRUE]
        BY <3>3 DEF Preempt
      <4> QED BY <2>1, <4>1 DEF QueueInv, Shapes, StepShape
    <3>4. CASE SkipWaiting
      <4>1. \E s : step' = [step EXCEPT !.skipped = s]
        BY <3>4 DEF SkipWaiting
      <4> QED BY <2>1, <4>1 DEF QueueInv, Shapes, StepShape
    <3>5. CASE AdmitWaiting
      <4>1. \E n, e : step' = [step EXCEPT !.budget = @ - n, !.out = e]
        BY <3>5, Zenon DEF AdmitWaiting, AdmitFirst
      <4> QED BY <2>1, <4>1 DEF QueueInv, Shapes, StepShape
    <3> QED BY <2>1, <3>1, <3>2, <3>3, <3>4, <3>5 DEF ScheduleStep
  <2> QED BY <2>2
<1>6. CASE UpdateUnscheduled \/ UpdateScheduled
  <2>1. /\ step.pc = "update" /\ step.i <= Len(running) /\ running' = running
        /\ \/ step' = [step EXCEPT !.i = @ + 1, !.keep = Append(@, Current)]
           \/ step' = [step EXCEPT !.i = @ + 1]
    <3>1. CASE UpdateUnscheduled
      BY <3>1 DEF UpdateUnscheduled, UpdateSkip, InUpdateLoop
    <3>2. CASE UpdateScheduled
      <4>1. InUpdateLoop /\ \E e, g, d : UpdateRequest(e, g, d)
        BY <3>2, Zenon DEF UpdateScheduled
      <4> QED BY <4>1 DEF UpdateRequest, InUpdateLoop
    <3> QED BY <3>1, <3>2, <1>6
  <2>2. step'.keep \in {step.keep, Append(step.keep, Current)}
    BY <2>1 DEF QueueInv, Shapes, StepShape
  <2>3. KeepsOrder(running, step.keep) /\ KeepsOrder(running, Append(step.keep, Current))
    BY <2>1, KeepsOneMore DEF KeptInOrder
  <2>4. KeepsOrder(running, step'.keep)
    BY <2>2, <2>3
  <2> QED BY <2>1, <2>4 DEF KeepsOrder
<1>7. CASE FinishUpdate
  <2>1. step'.pc = "idle"
    BY <1>7, NoStepShape DEF FinishUpdate, EndUpdate
  <2> QED BY <2>1
<1> QED BY <1>3, <1>4, <1>5, <1>6, <1>7 DEF Next, EngineStep

-----------------------------------------------------------------------------
\* The order of the two queues together

\* NoOvertaking is about the order in Queue.
LEMMA BeforeIsOrdered ==
  (\A r, s \in Range(Queue) \cap Range(Queue') : Before(r, s) => Before(r, s)')
    <=> KeepsOrder(Queue, Queue')
BY DEF Before, KeepsOrder, Ordered

\* A sequence is its part without its last element and the last one.
LEMMA LastApart ==
  ASSUME NEW S, NEW s \in Seq(S), s # << >>, IsInjective(s), NEW v, v = s[Len(s)]
  PROVE  s = Without(s, {v}) \o <<v>>
<1> DEFINE n == Len(s)
           a == Without(s, {v})
           t == a \o <<v>>
<1>1. n \in Nat \ {0} /\ \A i \in 1 .. n : s[i] \in S
  OBVIOUS
<1>2. v \in S /\ <<v>> \in Seq(S) /\ Len(<<v>>) = 1 /\ <<v>>[1] = v
  BY <1>1
<1>3. a \in Seq(S) /\ Len(a) = n - 1 /\ \A i \in 1 .. n - 1 : a[i] = s[i]
  BY WithoutFacts, WithoutLast
<1> HIDE DEF a, n
<1>4. /\ t \in Seq(S) /\ Len(t) = n
      /\ \A i \in 1 .. n : t[i] = IF i <= n - 1 THEN a[i] ELSE <<v>>[i - (n - 1)]
  BY <1>1, <1>2, <1>3, ConcatProperties
<1>5. \A i \in 1 .. n : t[i] = s[i]
  <2>1. \A i \in 1 .. n : i \in 1 .. n - 1 \/ (i = n /\ i - (n - 1) = 1)
    BY <1>1
  <2>2. s[n] = v /\ \A i \in 1 .. n - 1 : i <= n - 1
    BY <1>1 DEF n
  <2>3. ~ (n <= n - 1)
    BY <1>1
  <2> HIDE DEF t
  <2> QED BY <1>2, <1>3, <1>4, <2>1, <2>2, <2>3
<1> HIDE DEF t
<1>6. t = s
  BY <1>4, <1>5, SeqEqual DEF n
<1> QED BY <1>6 DEF a, t

\* The queues of a step without requests put aside
LEMMA MoveKeepsQueue ==
  ASSUME QueueInv, KeptInOrder, NoGrammar, MaxLoras = 0, step.skipped = << >>, QueueMove
  PROVE  KeepsOrder(Queue, Queue')
<1>1. /\ running \in Seq(Reqs) /\ waiting \in Seq(Reqs)
      /\ IsInjective(running) /\ IsInjective(waiting)
      /\ Range(running) \cap Range(waiting) = {}
  BY QueueInvImplies DEF QueuesMatchStatus, QueueInv, Shapes
<1>2. running \o waiting \in Seq(Reqs)
  BY <1>1, ConcatFacts
<1>3. CASE Queue' = Queue
  BY <1>3 DEF KeepsOrder
<1>4. CASE UNCHANGED <<running, waiting>>
  BY <1>3, <1>4 DEF Queue
<1>5. CASE Preempt
  <2> DEFINE v == Victim
             a == Without(running, {v})
  <2>1. /\ running # << >> /\ running' = a /\ waiting' = <<v>> \o waiting
    <3>1. step.pc = "running" /\ step.i <= Len(running)
      BY <1>5 DEF Preempt, InRunningLoop
    <3>2. running # << >>
      BY <3>1 DEF QueueInv, Shapes, StepShape
    <3>3. running' = a /\ waiting' = <<v>> \o waiting
      BY <1>5 DEF Preempt
    <3> QED BY <3>2, <3>3
  <2>2. running = a \o <<v>>
    BY <1>1, <2>1, LastApart DEF Victim
  <2>3. v \in Reqs /\ a \in Seq(Reqs)
    <3>1. Len(running) \in 1 .. Len(running)
      BY <1>1, <2>1
    <3> QED BY <1>1, <3>1, WithoutFacts DEF Victim
  <2> HIDE DEF v, a
  <2>4. <<v>> \in Seq(Reqs)
    BY <2>3
  <2>5. (a \o <<v>>) \o waiting = a \o (<<v>> \o waiting)
    BY <1>1, <2>3, <2>4, ConcatAssociative
  <2>6. Queue' = Queue
    BY <2>1, <2>2, <2>5 DEF Queue
  <2> QED BY <1>3, <2>6
<1>6. CASE SkipWaiting
  <2>1. First \in Reqs
    BY <1>6, FirstWaits DEF SkipWaiting
  <2> QED BY <1>6, <2>1 DEF SkipWaiting, AwaitsGrammar, ExceedsLoras, NoGrammar
<1>7. CASE AdmitWaiting
  <2> DEFINE f == First
             t == Tail(waiting)
  <2>1. /\ waiting # << >> /\ waiting' = t /\ running' = Append(running, f)
    BY <1>7 DEF AdmitWaiting, AdmitFirst, Admissible, InWaitingLoop
  <2>2. f \in Reqs /\ t \in Seq(Reqs) /\ waiting = <<f>> \o t
    <3>1. f \in Range(waiting) /\ t \in Seq(Reqs)
      BY <1>1, <2>1, TailFacts DEF First
    <3>2. waiting = <<f>> \o t
      BY <1>1, <2>1 DEF First
    <3> QED BY <1>1, <3>1, <3>2, RangeFacts
  <2> HIDE DEF f, t
  <2>3. <<f>> \in Seq(Reqs) /\ Append(running, f) = running \o <<f>>
    BY <1>1, <2>2, AppendIsConcat
  <2>4. (running \o <<f>>) \o t = running \o (<<f>> \o t)
    BY <1>1, <2>2, <2>3, ConcatAssociative
  <2>5. Queue' = Queue
    BY <2>1, <2>2, <2>3, <2>4 DEF Queue
  <2> QED BY <1>3, <2>5
<1>8. ASSUME NEW p, EndSchedule(p) PROVE KeepsOrder(Queue, Queue')
  <2>1. Reversed(step.skipped) = << >>
    BY DEF Reversed
  <2>2. /\ running' = running /\ waiting' = << >> \o waiting
    BY <1>8, <2>1 DEF EndSchedule, PutBack
  <2>3. waiting' = waiting
    BY <1>1, <2>2, ConcatEmptySeq
  <2> QED BY <1>4, <2>2, <2>3
<1>9. ASSUME NEW r \in Reqs, AddRequest(r) PROVE KeepsOrder(Queue, Queue')
  <2> DEFINE u == <<r>>
  <2>1. u \in Seq(Reqs) /\ running' = running /\ waiting' = waiting \o u
    BY <1>1, <1>9, AppendIsConcat DEF AddRequest
  <2> HIDE DEF u
  <2>2. Queue' = (running \o waiting) \o u
    BY <1>1, <2>1, ConcatAssociative DEF Queue
  <2> QED BY <1>2, <2>1, <2>2, AddedKeeps DEF Queue
<1>10. ASSUME NEW r \in Reqs, FinishRequests(r) PROVE KeepsOrder(Queue, Queue')
  <2>1. \/ running' = Without(running, {r}) /\ waiting' = waiting
        \/ running' = running /\ waiting' = Without(waiting, {r})
    BY <1>10 DEF FinishRequests
  <2>2. /\ \A s \in {running, waiting} : KeepsOrder(s, s)
        /\ KeepsOrder(running, Without(running, {r}))
        /\ KeepsOrder(waiting, Without(waiting, {r}))
    BY <1>1, WithoutKeeps DEF KeepsOrder
  <2>3. /\ running' \in Seq(Reqs) /\ waiting' \in Seq(Reqs)
        /\ Range(running') \subseteq Range(running) /\ Range(waiting') \subseteq Range(waiting)
        /\ KeepsOrder(running, running') /\ KeepsOrder(waiting, waiting')
    BY <1>1, <2>1, <2>2, WithoutFacts
  <2> QED BY <1>1, <2>3, ConcatKeeps DEF Queue
<1>11. ASSUME NEW b, EndUpdate(b) PROVE KeepsOrder(Queue, Queue')
  <2>1. /\ running' = step.keep /\ waiting' = waiting /\ step.keep \in Seq(Reqs)
        /\ Range(step.keep) \subseteq Range(running) /\ KeepsOrder(running, step.keep)
    BY <1>11 DEF EndUpdate, KeptInOrder, QueueInv, Shapes, StepShape, UpdateKeeps
  <2>2. KeepsOrder(waiting, waiting)
    BY DEF KeepsOrder
  <2> QED BY <1>1, <2>1, <2>2, ConcatKeeps DEF Queue
<1> QED BY <1>4, <1>5, <1>6, <1>7, <1>8, <1>9, <1>10, <1>11 DEF QueueMove

\* ... and none is put aside by it.
LEMMA MoveSkipsNone ==
  ASSUME QueueInv, NoGrammar, MaxLoras = 0, step.skipped = << >>, QueueMove
  PROVE  step'.skipped = << >>
<1>1. CASE step'.skipped = step.skipped
  BY <1>1
<1>2. CASE Preempt
  <2>1. step' = [step EXCEPT !.preempted = TRUE]
    BY <1>2 DEF Preempt
  <2> QED BY <2>1 DEF QueueInv, Shapes, StepShape
<1>3. CASE SkipWaiting
  <2>1. First \in Reqs
    BY <1>3, FirstWaits DEF SkipWaiting
  <2> QED BY <1>3, <2>1 DEF SkipWaiting, AwaitsGrammar, ExceedsLoras, NoGrammar
<1>4. CASE AdmitWaiting
  <2>1. \E n, e : step' = [step EXCEPT !.budget = @ - n, !.out = e]
    BY <1>4, Zenon DEF AdmitWaiting, AdmitFirst
  <2> QED BY <2>1 DEF QueueInv, Shapes, StepShape
<1>5. ASSUME NEW p, EndSchedule(p) PROVE step'.skipped = << >>
  BY <1>5 DEF EndSchedule, NoStep
<1>6. ASSUME NEW r \in Reqs, AddRequest(r) \/ FinishRequests(r) PROVE step'.skipped = step.skipped
  BY <1>6 DEF AddRequest, FinishRequests
<1>7. ASSUME NEW b, EndUpdate(b) PROVE step'.skipped = << >>
  BY <1>7 DEF EndUpdate, NoStep
<1> QED BY <1>1, <1>2, <1>3, <1>4, <1>5, <1>6, <1>7 DEF QueueMove

\* First come, first served: among requests that need no grammar and without a
\* limit of LoRAs no request overtakes another one, whatever the pool, the
\* budgets, the pipeline depth and the drafts (schedule() of scheduler.py takes
\* the last running request for preemption and puts it before all waiting ones).
THEOREM NoOvertakingAlways ==
  ASSUME FsmReqs = {}, MaxLoras = 0
  PROVE  Spec => NoOvertaking
<1> DEFINE I == QueueInv /\ KeptInOrder /\ NoGrammar /\ step.skipped = << >>
           A == \A r, s \in Range(Queue) \cap Range(Queue') : Before(r, s) => Before(r, s)'
<1>1. Init => I
  <2>1. Init => KeptInOrder /\ NoGrammar /\ step.skipped = << >>
    BY DEF Init, SchedInit, NoStep, KeptInOrder, NoGrammar, Gone
  <2> QED BY <2>1, InitQueueInv
<1>2. I /\ [Next]_vars => I'
  BY NextKeeps, NextKeptInOrder, NextNoGrammar, Moves, MoveSkipsNone
<1>3. I /\ [Next]_vars => A
  BY Moves, MoveKeepsQueue, BeforeIsOrdered
<1>4. Spec => [][A]_vars
  <2> HIDE DEF I, A
  <2> QED BY <1>1, <1>2, <1>3, PTL DEF Spec
<1> QED BY <1>4 DEF NoOvertaking

-----------------------------------------------------------------------------
\* The order of the waiting requests, those put aside among them

\* The last to be put aside is the last of the line.
LEMMA ReversedCons ==
  ASSUME NEW S, NEW s \in Seq(S), NEW x \in S
  PROVE  Reversed(<<x>> \o s) = Reversed(s) \o <<x>>
<1> DEFINE n == Len(s)
           u == <<x>>
           a == u \o s
           b == Reversed(s)
           c == b \o u
           d == Reversed(a)
<1>1. n \in Nat /\ u \in Seq(S) /\ Len(u) = 1 /\ u[1] = x
  OBVIOUS
<1>2. b \in Seq(S) /\ Len(b) = n /\ \A i \in 1 .. n : b[i] = s[n + 1 - i]
  BY ReversedFacts DEF Reversed
<1> HIDE DEF b, n, u
<1>3. /\ a \in Seq(S) /\ Len(a) = n + 1
      /\ \A i \in 1 .. n + 1 : a[i] = IF i <= 1 THEN u[i] ELSE s[i - 1]
  <2>1. Len(a) = Len(u) + Len(s) /\ a \in Seq(S)
        /\ \A i \in 1 .. Len(u) + Len(s) : a[i] = IF i <= Len(u) THEN u[i] ELSE s[i - Len(u)]
    BY <1>1, ConcatProperties
  <2> HIDE DEF a
  <2> QED BY <1>1, <2>1 DEF n
<1>4. /\ c \in Seq(S) /\ Len(c) = n + 1
      /\ \A i \in 1 .. n + 1 : c[i] = IF i <= n THEN b[i] ELSE u[i - n]
  <2>1. Len(c) = Len(b) + Len(u) /\ c \in Seq(S)
        /\ \A i \in 1 .. Len(b) + Len(u) : c[i] = IF i <= Len(b) THEN b[i] ELSE u[i - Len(b)]
    BY <1>1, <1>2, ConcatProperties
  <2> HIDE DEF c
  <2> QED BY <1>1, <1>2, <2>1
<1> HIDE DEF a
<1>5. d \in Seq(S) /\ Len(d) = n + 1 /\ \A i \in 1 .. n + 1 : d[i] = a[n + 2 - i]
  <2>1. d \in Seq(S)
    BY <1>3, ReversedFacts
  <2>2. Len(a) = n + 1 /\ n \in Nat
    BY <1>1, <1>3
  <2> QED BY <2>1, <2>2 DEF Reversed
<1> HIDE DEF c, d
<1>6. ASSUME NEW i \in 1 .. n + 1 PROVE c[i] = d[i]
  <2>1. CASE i <= n
    <3>1. /\ i \in 1 .. n /\ n + 2 - i \in 1 .. n + 1 /\ ~ (n + 2 - i <= 1)
          /\ (n + 2 - i) - 1 = n + 1 - i
      BY <1>1, <2>1
    <3>2. d[i] = s[n + 1 - i]
      BY <1>3, <1>5, <3>1
    <3> QED BY <1>2, <1>4, <2>1, <3>1, <3>2
  <2>2. CASE ~ (i <= n)
    <3>1. i = n + 1 /\ n + 2 - i = 1 /\ i - n = 1 /\ 1 \in 1 .. n + 1
      BY <1>1, <2>2
    <3> QED BY <1>3, <1>4, <1>5, <2>2, <3>1
  <2> QED BY <2>1, <2>2
<1>7. c = d
  BY <1>4, <1>5, <1>6, SeqEqual
<1> QED BY <1>7 DEF a, b, c, d, u

\* The line of a step
LEMMA MoveKeepsLine ==
  ASSUME QueueInv, QueueMove
  PROVE  KeepsOrder(Line, Line')
<1> DEFINE back == Reversed(step.skipped)
<1>1. /\ waiting \in Seq(Reqs) /\ IsInjective(waiting)
      /\ step.skipped \in Seq(Reqs) /\ IsInjective(step.skipped)
      /\ Range(waiting) \cap Range(step.skipped) = {}
  BY DEF QueueInv, Shapes, StepShape, NoRepetition
<1>2. back \in Seq(Reqs) /\ Range(back) = Range(step.skipped)
  BY <1>1, ReversedFacts
<1>3. Reversed(<< >>) = << >> /\ << >> \o waiting = waiting
  BY <1>1, ConcatEmptySeq DEF Reversed
<1>4. CASE Line' = Line
  BY <1>4 DEF KeepsOrder
<1>5. CASE waiting' = waiting /\ step'.skipped = step.skipped
  BY <1>4, <1>5 DEF Line
<1>6. CASE Preempt
  <2>1. /\ step.pc = "running" /\ waiting' = <<Victim>> \o waiting
        /\ step' = [step EXCEPT !.preempted = TRUE]
    BY <1>6 DEF Preempt, InRunningLoop
  <2>2. step.skipped = << >> /\ step'.skipped = << >>
    BY <2>1 DEF QueueInv, Shapes, StepShape, NoRepetition
  <2> DEFINE u == <<Victim>>
  <2>3. u \in Seq(Reqs)
    <3>1. running \in Seq(Reqs) /\ Len(running) \in 1 .. Len(running)
      BY <1>6 DEF Preempt, InRunningLoop, QueueInv, Shapes, StepShape
    <3> QED BY <3>1 DEF Victim
  <2> HIDE DEF u
  <2>4. KeepsOrder(waiting, u \o waiting) /\ u \o waiting \in Seq(Reqs)
    BY <1>1, <2>3, AddedKeeps, ConcatFacts
  <2>5. Line = waiting
    BY <1>3, <2>2 DEF Line
  <2>6. Line' = u \o waiting
    <3>1. Reversed(step'.skipped) = << >>
      BY <1>3, <2>2
    <3>2. Line' = << >> \o (u \o waiting)
      BY <2>1, <3>1 DEF Line, u
    <3> QED BY <2>4, <3>2, ConcatEmptySeq
  <2> QED BY <2>4, <2>5, <2>6
<1>7. CASE SkipWaiting \/ AdmitWaiting
  <2> DEFINE f == First
             t == Tail(waiting)
             u == <<f>>
  <2>1. waiting # << >> /\ waiting' = t
    BY <1>7 DEF SkipWaiting, AdmitWaiting, AdmitFirst, Admissible, InWaitingLoop
  <2>2. f \in Reqs /\ t \in Seq(Reqs) /\ waiting = u \o t /\ f \notin Range(t)
        /\ Range(t) \subseteq Range(waiting)
    <3>1. f \in Range(waiting) /\ t \in Seq(Reqs) /\ f \notin Range(t)
          /\ Range(t) \subseteq Range(waiting)
      BY <1>1, <2>1, TailFacts DEF First
    <3>2. waiting = u \o t
      BY <1>1, <2>1 DEF First
    <3> QED BY <1>1, <3>1, <3>2, RangeFacts
  <2>3. u \in Seq(Reqs) /\ Range(u) = {f}
    BY <2>2 DEF Range
  <2>4. CASE SkipWaiting
    <3>1. step'.skipped = u \o step.skipped
      BY <2>4 DEF SkipWaiting, QueueInv, Shapes, StepShape
    <3>2. Reversed(step'.skipped) = back \o u
      BY <1>1, <2>2, <3>1, ReversedCons
    <3> HIDE DEF back, u, t
    <3>3. (back \o u) \o t = back \o (u \o t)
      BY <1>2, <2>2, <2>3, ConcatAssociative
    <3>4. Line' = Line
      BY <2>1, <2>2, <3>2, <3>3 DEF Line, back
    <3> QED BY <1>4, <3>4
  <2>5. CASE AdmitWaiting
    <3>1. \E n, e : step' = [step EXCEPT !.budget = @ - n, !.out = e]
      BY <2>5, Zenon DEF AdmitWaiting, AdmitFirst
    <3>2. step'.skipped = step.skipped
      BY <3>1 DEF QueueInv, Shapes, StepShape
    <3> HIDE DEF back, u, t
    <3>3. Line = back \o waiting /\ Line' = back \o t
      BY <2>1, <3>2 DEF Line, back
    <3>4. KeepsOrder(waiting, t)
      BY <2>2, <2>3, AddedKeeps
    <3>5. KeepsOrder(back, back)
      BY DEF KeepsOrder
    <3> QED BY <1>1, <1>2, <2>2, <3>3, <3>4, <3>5, ConcatKeeps
  <2> QED BY <1>7, <2>4, <2>5
<1>8. ASSUME NEW p, EndSchedule(p) PROVE KeepsOrder(Line, Line')
  <2>1. waiting' = back \o waiting /\ step'.skipped = << >>
    BY <1>8 DEF EndSchedule, PutBack, NoStep
  <2>2. back \o waiting \in Seq(Reqs)
    BY <1>1, <1>2, ConcatFacts
  <2>3. Reversed(step'.skipped) = << >>
    BY <1>3, <2>1
  <2>4. Line' = << >> \o (back \o waiting)
    BY <2>1, <2>3 DEF Line
  <2>5. Line' = Line
    BY <2>2, <2>4, ConcatEmptySeq DEF Line
  <2> QED BY <1>4, <2>5
<1>9. ASSUME NEW r \in Reqs, AddRequest(r) PROVE KeepsOrder(Line, Line')
  <2> DEFINE u == <<r>>
  <2>1. /\ u \in Seq(Reqs) /\ step'.skipped = step.skipped /\ waiting' = waiting \o u
    BY <1>1, <1>9, AppendIsConcat DEF AddRequest
  <2> HIDE DEF u, back
  <2>2. Line' = (back \o waiting) \o u
    BY <1>1, <1>2, <2>1, ConcatAssociative DEF Line, back
  <2>3. back \o waiting \in Seq(Reqs)
    BY <1>1, <1>2, ConcatFacts
  <2> QED BY <2>1, <2>2, <2>3, AddedKeeps DEF Line, back
<1>10. ASSUME NEW r \in Reqs, FinishRequests(r) PROVE KeepsOrder(Line, Line')
  <2>1. /\ step' = step /\ step.skipped = << >>
        /\ waiting' = waiting \/ waiting' = Without(waiting, {r})
    BY <1>10, IdleFacts DEF FinishRequests
  <2>2. KeepsOrder(waiting, waiting') /\ waiting' \in Seq(Reqs)
    BY <1>1, <2>1, WithoutKeeps, WithoutFacts DEF KeepsOrder
  <2>3. << >> \o waiting' = waiting'
    BY <2>2, ConcatEmptySeq
  <2> QED BY <1>3, <2>1, <2>2, <2>3 DEF Line
<1>11. ASSUME NEW b, EndUpdate(b) PROVE KeepsOrder(Line, Line')
  <2>1. waiting' = waiting /\ step'.skipped = step.skipped
    BY <1>11, NoStepShape DEF EndUpdate, QueueInv, NoRepetition
  <2> QED BY <1>5, <2>1
<1> QED BY <1>5, <1>6, <1>7, <1>8, <1>9, <1>10, <1>11 DEF QueueMove

\* Requests put aside for a grammar or a LoRA slot and the others that wait never
\* change their order, for any requests, adapters, pool and budgets: the list that
\* schedule() of scheduler.py puts them aside in goes back to the front as a whole.
THEOREM LineKeepsOrderAlways ==
  Spec => [][\A r, s \in Range(Line) \cap Range(Line') : Ahead(r, s) => Ahead(r, s)']_vars
<1> DEFINE A == \A r, s \in Range(Line) \cap Range(Line') : Ahead(r, s) => Ahead(r, s)'
<1>1. Init => QueueInv
  BY InitQueueInv
<1>2. QueueInv /\ [Next]_vars => QueueInv'
  BY NextKeeps
<1>3. QueueInv /\ [Next]_vars => A
  <2>1. A <=> KeepsOrder(Line, Line')
    BY DEF Ahead, KeepsOrder, Ordered
  <2> QED BY <2>1, Moves, MoveKeepsLine
<1> HIDE DEF A
<1>4. Spec => [][A]_vars
  BY <1>1, <1>2, <1>3, PTL DEF Spec
<1> QED BY <1>4 DEF A

-----------------------------------------------------------------------------
\* What a request that is gone leaves behind, without a batch queue

\* The requests that are no longer in self.requests
Over == {r \in Reqs : req[r].status \in {"finished", "aborted"}}

\* A request does not go while its batch is put together, and one that goes while
\* its batch is evaluated is named in finished_req_ids until the next batch.
BatchOfLive ==
  /\ step.pc \in {"running", "waiting", "end"} => DOMAIN step.out \subseteq Reqs \ Over
  /\ step.pc = "update" => \E b : batches = <<b>> /\ DOMAIN b \cap Over \subseteq finishedIds
  /\ step.pc # "update" => batches = << >>

\* NoReqDataLeak and FinishedReachWorker are not inductive: they need to know
\* that the batch being scheduled or evaluated is about no other requests.
GoneInv == /\ BatchOfLive
           /\ DOMAIN reqData = Reqs /\ \A r \in Over : reqData[r] = 0
           /\ DOMAIN runner.known \subseteq Reqs
           /\ DOMAIN runner.known \cap Over \subseteq finishedIds

\* Nothing is known of any request.
LEMMA InitGoneInv == Init => GoneInv
<1> SUFFICES ASSUME Init PROVE GoneInv
  OBVIOUS
<1>1. /\ step = NoStep /\ batches = << >> /\ runner = InitRunner
      /\ req = [r \in Reqs |-> Gone("unborn")] /\ reqData = [r \in Reqs |-> 0]
  BY DEF Init, SchedInit
<1>2. Over = {} /\ DOMAIN runner.known = {}
  BY <1>1 DEF Over, Gone, InitRunner
<1> QED BY <1>1, <1>2, NoStepShape DEF GoneInv, BatchOfLive

\* A step of schedule() that lets no request go, and adds to the batch only
\* requests that are there
LEMMA SchedulingKeepsGone ==
  ASSUME GoneInv, UNCHANGED <<finishedIds, reqData, runner, batches>>, Over' = Over,
         step.pc \in {"running", "waiting"}, step'.pc \in {"running", "waiting", "end"},
         DOMAIN step'.out \ DOMAIN step.out \subseteq Reqs \ Over
  PROVE  GoneInv'
BY DEF GoneInv, BatchOfLive

\* The first loop adds the current request, which runs.
LEMMA ScheduleRunningGone ==
  ASSUME QueueInv, GoneInv, ScheduleRunning, UNCHANGED <<runner, batches>>
  PROVE  GoneInv'
<1> DEFINE c == Current
<1>1. step.pc = "running" /\ step.i <= Len(running) /\ UNCHANGED <<finishedIds, reqData>>
  BY DEF ScheduleRunning, ScheduleCurrent, InRunningLoop
<1>2. c \in Reqs /\ req[c].status = "running"
  BY <1>1, CurrentRuns
<1> HIDE DEF c
<1>3. /\ \E spec : req' = IF spec = << >> THEN req ELSE [req EXCEPT ![c].spec = spec]
      /\ \E n, e : step' = [step EXCEPT !.i = @ + 1, !.budget = @ - n,
                                        !.out = WithScheduled(@, c, e)]
  BY Zenon DEF ScheduleRunning, ScheduleCurrent, c
<1>4. Over' = Over /\ c \notin Over
  BY <1>2, <1>3 DEF Over, QueueInv, Shapes
<1>5. step'.pc = "running" /\ DOMAIN step'.out = DOMAIN step.out \cup {c}
  BY <1>1, <1>3 DEF WithScheduled, QueueInv, Shapes, StepShape
<1> QED BY <1>1, <1>2, <1>4, <1>5, SchedulingKeepsGone

\* The second loop adds the first waiting request.
LEMMA AdmitWaitingGone ==
  ASSUME QueueInv, GoneInv, AdmitWaiting, UNCHANGED <<runner, batches>>
  PROVE  GoneInv'
<1> DEFINE f == First
<1>1. InWaitingLoop /\ step.pc = "waiting" /\ UNCHANGED <<finishedIds, reqData>>
  BY DEF AdmitWaiting, AdmitFirst, Admissible, InWaitingLoop
<1>2. f \in Reqs /\ req[f].status \in Queued
  BY <1>1, FirstWaits
<1> HIDE DEF f
<1>3. /\ \E p : req' = [req EXCEPT ![f].status = "running", ![f].computed = p]
      /\ \E n, e : step' = [step EXCEPT !.budget = @ - n, !.out = WithScheduled(@, f, e)]
  BY Zenon DEF AdmitWaiting, AdmitFirst, f
<1>4. Over' = Over /\ f \notin Over
  <2>1. req'[f].status = "running" /\ \A s \in Reqs \ {f} : req'[s].status = req[s].status
    BY <1>2, <1>3 DEF QueueInv, Shapes
  <2> QED BY <2>1, <1>2 DEF Over, Queued
<1>5. step'.pc = "waiting" /\ DOMAIN step'.out = DOMAIN step.out \cup {f}
  BY <1>1, <1>3 DEF WithScheduled, QueueInv, Shapes, StepShape
<1> QED BY <1>1, <1>2, <1>4, <1>5, SchedulingKeepsGone

\* The other steps of schedule() leave the batch as it is.
LEMMA ScheduleStepGone ==
  ASSUME QueueInv, GoneInv, Scheduling
  PROVE  GoneInv'
<1>1. ScheduleStep /\ UNCHANGED <<runner, batches>>
  BY DEF Scheduling
<1>2. CASE SkipRunning \/ EndRunningLoop \/ EndWaitingLoop
  <2>1. /\ UNCHANGED <<req, finishedIds, reqData>> /\ step.pc \in {"running", "waiting"}
        /\ \/ step' = [step EXCEPT !.i = @ + 1]
           \/ \E p \in {"waiting", "end"} : step' = [step EXCEPT !.pc = p]
    BY <1>2 DEF SkipRunning, InRunningLoop, EndRunningLoop, EndWaitingLoop
  <2>2. step'.out = step.out /\ step'.pc \in {"running", "waiting", "end"}
    BY <2>1 DEF QueueInv, Shapes, StepShape
  <2> QED BY <2>1, <2>2, <1>1, SchedulingKeepsGone DEF Over
<1>3. CASE Preempt
  <2> DEFINE v == Victim
  <2>1. /\ step.pc = "running" /\ step.i <= Len(running)
        /\ UNCHANGED <<finishedIds, reqData>>
        /\ req' = [req EXCEPT ![v] = Preempted(@)]
        /\ step' = [step EXCEPT !.preempted = TRUE]
    BY <1>3 DEF Preempt, InRunningLoop
  <2>2. v \in Reqs /\ req[v].status = "running"
    <3>1. running \in Seq(Reqs) /\ Len(running) \in 1 .. Len(running)
      BY <2>1 DEF QueueInv, Shapes, StepShape
    <3>2. v \in Range(running) /\ v \in Reqs
      BY <3>1, RangeFacts DEF Victim
    <3> QED BY <3>2, <2>1 DEF QueueInv, StatusesMatch, Live
  <2> HIDE DEF v
  <2>3. req'[v].status = "preempted" /\ \A s \in Reqs \ {v} : req'[s] = req[s]
    BY <2>1, <2>2 DEF QueueInv, Shapes, Preempted
  <2>4. Over' = Over
    BY <2>2, <2>3 DEF Over
  <2>5. step'.out = step.out /\ step'.pc \in {"running", "end"}
    BY <2>1 DEF QueueInv, Shapes, StepShape
  <2> QED BY <2>1, <2>4, <2>5, <1>1, SchedulingKeepsGone
<1>4. CASE SkipWaiting \/ AdmissionFull \/ AdmissionAwaitsEncoder
  <2> DEFINE f == First
  <2>1. /\ InWaitingLoop /\ UNCHANGED <<finishedIds, reqData>>
        /\ req' = req \/ (req[f].status = "waiting_fsm"
                            /\ req' = [req EXCEPT ![f].status = "waiting"])
        /\ step' = [step EXCEPT !.pc = "end"] \/ \E s : step' = [step EXCEPT !.skipped = s]
    BY <1>4 DEF SkipWaiting, AdmissionFull, AdmissionAwaitsEncoder, Admissible
  <2>2. f \in Reqs /\ step.pc = "waiting"
    BY <2>1, FirstWaits DEF InWaitingLoop
  <2> HIDE DEF f
  <2>3. Over' = Over
    BY <2>1, <2>2 DEF Over, QueueInv, Shapes
  <2>4. step'.out = step.out /\ step'.pc \in {"waiting", "end"}
    BY <2>1, <2>2 DEF QueueInv, Shapes, StepShape
  <2> QED BY <2>1, <2>2, <2>3, <2>4, <1>1, SchedulingKeepsGone
<1> QED BY <1>1, <1>2, <1>3, <1>4, ScheduleRunningGone, AdmitWaitingGone DEF ScheduleStep

\* The worker forgets the requests in finished_req_ids, and learns of those in the
\* batch, which are there.
LEMMA SubmitGone ==
  ASSUME QueueInv, GoneInv, SubmitAndWait
  PROVE  GoneInv'
<1> DEFINE b == Batch(SchedulerOutput)
<1>1. /\ step.pc = "end" /\ finishedIds' = {}
      /\ req' = [r \in Reqs |-> IF r \in DOMAIN step.out
                                THEN Advanced(req[r], step.out[r].n) ELSE req[r]]
      /\ reqData' = [r \in Reqs |-> IF r \in CachedEntries(step.out)
                                    THEN Larger(0, reqData[r] - 1) ELSE reqData[r]]
      /\ step' = [NoStep EXCEPT !.pc = "update", !.i = 1]
      /\ runner' = Execute(runner, SchedulerOutput) /\ batches' = <<b>>
  BY DEF SubmitAndWait, EndSchedule
<1>2. SchedulerOutput.out = step.out /\ SchedulerOutput.finished = finishedIds
  BY DEF SchedulerOutput
<1>3. DOMAIN b = DOMAIN step.out
  BY <1>2 DEF Batch
<1>4. DOMAIN runner'.known = (DOMAIN runner.known \ finishedIds) \cup DOMAIN step.out
  <2>1. runner'.known = KnownAfter(runner.known, SchedulerOutput)
    BY <1>1 DEF Execute
  <2> QED BY <2>1, <1>2 DEF KnownAfter
<1> HIDE DEF b
<1>5. Over' = Over
  <2>1. \A r \in Reqs : req'[r].status = req[r].status
    BY <1>1 DEF QueueInv, Shapes, Advanced
  <2> QED BY <2>1 DEF Over
<1>6. DOMAIN step.out \subseteq Reqs \ Over
  BY <1>1 DEF GoneInv, BatchOfLive
<1>7. \A r \in Over : reqData'[r] = 0
  BY <1>1, <1>6 DEF GoneInv, CachedEntries, Over
<1>8. step'.pc = "update"
  BY <1>1, NoStepShape
<1> QED BY <1>1, <1>3, <1>4, <1>5, <1>6, <1>7, <1>8 DEF GoneInv, BatchOfLive

\* A request that stops is put into finished_req_ids and its data objects go.
LEMMA UpdateRequestGone ==
  ASSUME QueueInv, GoneInv, InUpdateLoop, UNCHANGED <<runner, batches>>,
         NEW e, NEW g, NEW d, UpdateRequest(e, g, d)
  PROVE  GoneInv'
<1> DEFINE c == Current
           q == [Verified(req[c], e, g) EXCEPT !.spec = d]
<1>1. step.pc = "update" /\ step.i <= Len(running)
  BY DEF InUpdateLoop
<1>2. c \in Reqs /\ req[c].status = "running"
  BY <1>1, CurrentRuns
<1>3. {"status", "tokens", "computed", "spec"} \subseteq DOMAIN q /\ q.status = req[c].status
  BY <1>2 DEF QueueInv, Shapes, Verified
<1> HIDE DEF q
<1>4. CASE StopAt(c, q, g) = {}
  <2>1. /\ req' = [req EXCEPT ![c] = [q EXCEPT !.tokens = @ \o g]]
        /\ step' = [step EXCEPT !.i = @ + 1, !.keep = Append(@, c)]
        /\ UNCHANGED <<finishedIds, reqData>>
    BY <1>4 DEF UpdateRequest, q
  <2> HIDE DEF c
  <2>2. step'.pc = "update"
    BY <2>1, <1>1 DEF QueueInv, Shapes, StepShape
  <2>3. \A s \in Reqs : req'[s].status = req[s].status
    BY <2>1, <1>2, <1>3 DEF QueueInv, Shapes
  <2>4. Over' = Over
    BY <2>3 DEF Over
  <2> QED BY <2>1, <2>2, <2>4, <1>1 DEF GoneInv, BatchOfLive
<1>5. CASE StopAt(c, q, g) # {}
  <2>1. /\ req' = [req EXCEPT ![c] = Gone("finished")]
        /\ step' = [step EXCEPT !.i = @ + 1]
        /\ finishedIds' = finishedIds \cup {c}
        /\ reqData' = [reqData EXCEPT ![c] = 0]
    BY <1>5 DEF UpdateRequest, q
  <2> HIDE DEF c
  <2>2. step'.pc = "update"
    BY <2>1, <1>1 DEF QueueInv, Shapes, StepShape
  <2>3. Over' = Over \cup {c}
    BY <2>1, <1>2 DEF Over, QueueInv, Shapes, Gone
  <2> QED BY <2>1, <2>2, <2>3, <1>1, <1>2 DEF GoneInv, BatchOfLive
<1> QED BY <1>4, <1>5

\* The data objects of the requests in finished_req_ids are not put back.
LEMMA FinishUpdateGone ==
  ASSUME QueueInv, GoneInv, FinishUpdate
  PROVE  GoneInv'
<1>1. /\ step.pc = "update" /\ step' = NoStep /\ batches' = Tail(batches)
      /\ reqData' = [r \in Reqs |-> IF r \in Returned(Oldest) THEN reqData[r] + 1
                                    ELSE reqData[r]]
      /\ UNCHANGED <<req, finishedIds, runner>>
  BY DEF FinishUpdate, EndUpdate
<1>2. PICK b : batches = <<b>> /\ DOMAIN b \cap Over \subseteq finishedIds
  BY <1>1 DEF GoneInv, BatchOfLive
<1>3. Oldest = b /\ batches' = << >>
  BY <1>1, <1>2 DEF Oldest
<1>4. Over' = Over /\ \A r \in Over : r \in Reqs /\ r \notin Returned(Oldest)
  BY <1>1, <1>2, <1>3 DEF Over, Returned, CachedEntries
<1>5. step'.pc = "idle"
  BY <1>1, NoStepShape
<1> QED BY <1>1, <1>3, <1>4, <1>5 DEF GoneInv, BatchOfLive

\* An aborted request is put into finished_req_ids, and its data objects go.
LEMMA ExternalGone ==
  ASSUME QueueInv, GoneInv, External
  PROVE  GoneInv'
<1>1. PICK r \in Reqs : AddRequest(r) \/ GrammarCompiled(r) \/ FinishRequests(r)
  BY DEF External
<1>2. UNCHANGED <<step, runner, batches>>
  BY <1>1 DEF External, AddRequest, GrammarCompiled, FinishRequests
<1>3. CASE GrammarCompiled(r)
  BY <1>3, <1>2 DEF GrammarCompiled, GoneInv, BatchOfLive, Over
<1>4. CASE AddRequest(r)
  <2>1. /\ req[r].status = "unborn" /\ UNCHANGED <<finishedIds, reqData>>
        /\ \E w \in {"waiting", "waiting_fsm"} : \E t :
              req' = [req EXCEPT ![r] =
                        [status |-> w, tokens |-> t, computed |-> 0, spec |-> << >>]]
    <3> DEFINE w == IF r \in FsmReqs THEN "waiting_fsm" ELSE "waiting"
    <3>1. req' = [req EXCEPT ![r] = [status |-> w, tokens |-> Prompt[r],
                                     computed |-> 0, spec |-> << >>]]
      BY <1>4 DEF AddRequest
    <3>2. w \in {"waiting", "waiting_fsm"}
      OBVIOUS
    <3> HIDE DEF w
    <3> QED BY <3>1, <3>2, <1>4 DEF AddRequest
  <2>2. Over' = Over
    BY <2>1 DEF Over, QueueInv, Shapes
  <2> QED BY <2>1, <2>2, <1>2 DEF GoneInv, BatchOfLive
<1>5. CASE FinishRequests(r)
  <2>1. /\ step.pc = "idle" /\ req' = [req EXCEPT ![r] = Gone("aborted")]
        /\ finishedIds' = finishedIds \cup {r} /\ reqData' = [reqData EXCEPT ![r] = 0]
    BY <1>5 DEF FinishRequests, Idle
  <2>2. Over' = Over \cup {r}
    BY <2>1 DEF Over, QueueInv, Shapes, Gone
  <2> QED BY <2>1, <2>2, <1>2 DEF GoneInv, BatchOfLive
<1> QED BY <1>1, <1>3, <1>4, <1>5

\* Every step, without a batch queue
LEMMA NextGoneInv ==
  ASSUME MaxBatches = 1, QueueInv, GoneInv, [Next]_vars
  PROVE  GoneInv'
<1>1. CASE External  BY <1>1, ExternalGone
<1>2. CASE Reset \/ UNCHANGED vars
  <2>1. UNCHANGED <<req, step, finishedIds, reqData, runner, batches>>
    BY <1>2 DEF Reset, ResetPrefixCacheCall, vars
  <2> QED BY <2>1 DEF GoneInv, BatchOfLive, Over
<1>3. CASE EngineStep
  <2>1. CASE StartStep
    <3>1. /\ step.pc = "idle" /\ step' = [NoStep EXCEPT !.pc = "running", !.i = 1,
                                                       !.budget = MaxNumScheduledTokens]
          /\ UNCHANGED <<req, finishedIds, reqData, runner, batches>>
      BY <2>1 DEF StartStep, BeginSchedule, Idle
    <3>2. step'.pc = "running" /\ DOMAIN step'.out = {}
      BY <3>1 DEF NoStep
    <3> QED BY <3>1, <3>2 DEF GoneInv, BatchOfLive, Over
  <2>2. CASE Scheduling  BY <2>2, ScheduleStepGone
  <2>3. CASE SubmitAndWait  BY <2>3, SubmitGone
  <2>4. CASE UpdateUnscheduled
    <3>1. /\ step.pc = "update" /\ UNCHANGED <<req, finishedIds, reqData, runner, batches>>
          /\ step' = [step EXCEPT !.i = @ + 1, !.keep = Append(@, Current)]
      BY <2>4 DEF UpdateUnscheduled, UpdateSkip, InUpdateLoop
    <3>2. step'.pc = "update"
      BY <3>1 DEF QueueInv, Shapes, StepShape
    <3> QED BY <3>1, <3>2 DEF GoneInv, BatchOfLive, Over
  <2>5. CASE UpdateScheduled
    <3>1. InUpdateLoop /\ UNCHANGED <<runner, batches>> /\ \E e, g, d : UpdateRequest(e, g, d)
      BY <2>5, Zenon DEF UpdateScheduled
    <3> QED BY <3>1, UpdateRequestGone
  <2>6. CASE FinishUpdate  BY <2>6, FinishUpdateGone
  <2> QED BY <1>3, <2>1, <2>2, <2>3, <2>4, <2>5, <2>6
          DEF EngineStep, StartUpdate, Submit, NothingScheduled
<1> QED BY <1>1, <1>2, <1>3 DEF Next

\* Without a batch queue, for any requests, pool and budgets: what update_from_output
\* puts back into _cached_reqs_data belongs to a request that is there.
THEOREM NoReqDataLeakAlways == ASSUME MaxBatches = 1 PROVE Spec => []NoReqDataLeak
<1>1. Init => QueueInv /\ GoneInv
  BY InitQueueInv, InitGoneInv
<1>2. QueueInv /\ GoneInv /\ [Next]_vars => (QueueInv /\ GoneInv)'
  BY NextKeeps, NextGoneInv
<1>3. GoneInv => NoReqDataLeak
  BY DEF GoneInv, NoReqDataLeak, Over
<1> QED BY <1>1, <1>2, <1>3, PTL DEF Spec

\* Without a batch queue, for any requests, pool and budgets: a request that is
\* gone and that the worker still has a state of is named in the next scheduler
\* output, and the worker has none of it after that (schedule(), _update_states()).
THEOREM FinishedReachWorkerAlways ==
  ASSUME MaxBatches = 1 PROVE Spec => []FinishedReachWorker
<1>1. Init => QueueInv /\ GoneInv
  BY InitQueueInv, InitGoneInv
<1>2. QueueInv /\ GoneInv /\ [Next]_vars => (QueueInv /\ GoneInv)'
  BY NextKeeps, NextGoneInv
<1>3. GoneInv => FinishedReachWorker
  BY DEF GoneInv, FinishedReachWorker, Over
<1> QED BY <1>1, <1>2, <1>3, PTL DEF Spec

-----------------------------------------------------------------------------
\* The KV cache, without a sliding window

\* What the counts, tokens and drafts of requests and batches are
RequestNumbers ==
  \A r \in Reqs : /\ req[r].tokens \in Seq(Nat) /\ req[r].spec \in Seq(Nat)
                  /\ req[r].computed \in Int

OutNumbers ==
  /\ step.budget \in Int
  /\ \A r \in DOMAIN step.out : /\ step.out[r].start \in Int /\ step.out[r].n \in Int
                                /\ Len(step.out[r].spec) \in Nat

BatchNumbers ==
  /\ \E S : batches \in Seq(S)
  /\ step.pc = "update" => batches # << >>
  /\ \A k \in DOMAIN batches : \A r \in DOMAIN batches[k] : Len(batches[k][r].spec) \in Nat

Numbers == RequestNumbers /\ OutNumbers /\ BatchNumbers

\* The number of tokens of a plan
LEMMA PlanNumber ==
  ASSUME NEW r \in Reqs, NEW start \in Int, NEW n \in Int
  PROVE  EncoderPlan(r, start, n).n \in Int
<1> DEFINE missing == MissingImages(r, start, n)
           stuck == StuckImages(r, start, n, missing)
           first == CHOOSE i \in stuck : \A j \in stuck : i <= j
<1>1. stuck \subseteq DOMAIN MMPositions[r]
  BY DEF StuckImages, MissingImages
<1>2. MMPositions[r] \in Seq([offset : Nat, length : Nat \ {0}])
  BY SchedulerAssumption
<1>3. EncoderPlan(r, start, n).n
        = IF stuck = {} THEN n ELSE Larger(0, Offset(r, first) - start)
  BY DEF EncoderPlan, PlanOfMissing, PlanUpTo
<1> HIDE DEF stuck
<1>4. stuck # {} => first \in DOMAIN MMPositions[r]
  <2>1. stuck \in SUBSET Nat
    BY <1>1, <1>2
  <2>2. stuck # {} => \E i \in stuck : \A j \in stuck : i <= j
    BY <2>1, SmallestExists
  <2> QED BY <2>2, <1>1
<1> HIDE DEF first
<1>5. stuck # {} => Offset(r, first) \in Int
  <2> DEFINE Ranges == [offset : Nat, length : Nat \ {0}]
  <2>1. \A x \in Ranges : x.offset \in Int
    OBVIOUS
  <2>2. MMPositions[r] \in Seq(Ranges)
    BY <1>2
  <2> HIDE DEF Ranges
  <2> QED BY <2>1, <2>2, <1>4 DEF Offset
<1> QED BY <1>3, <1>5 DEF Larger

\* A number of tokens held within the limits
LEMMA Limits ==
  ASSUME Numbers, NEW n \in Int
  PROVE  Limited(n) \in Int
BY SchedulerAssumption DEF Numbers, OutNumbers, Limited, Smaller

\* The numbers of tokens of the running request at hand
LEMMA RunningNumbers ==
  ASSUME QueueInv, Numbers, InRunningLoop
  PROVE  /\ Current \in Reqs
         /\ req[Current].computed \in Int /\ req[Current].spec \in Seq(Nat)
         /\ req[Current].tokens \in Seq(Nat)
         /\ RunningPlan.n \in Int
<1> DEFINE q == req[Current]
<1>1. Current \in Reqs
  BY CurrentRuns DEF InRunningLoop
<1>2. q.computed \in Int /\ q.spec \in Seq(Nat) /\ q.tokens \in Seq(Nat)
  BY <1>1 DEF Numbers, RequestNumbers
<1> HIDE DEF q
<1>3. Len(q.tokens) + Len(q.spec) - q.computed \in Int /\ MaxModelLen \in Int
  BY <1>2, ManagerAssumption
<1>4. RunningNewTokens(q) \in Int
  <2> DEFINE l == Limited(Len(q.tokens) + Len(q.spec) - q.computed)
  <2>1. l \in Int
    BY <1>3, Limits
  <2>2. RunningNewTokens(q) = Smaller(l, MaxModelLen - q.computed)
    BY DEF RunningNewTokens
  <2> HIDE DEF l
  <2> QED BY <2>1, <2>2, <1>2, <1>3 DEF Smaller
<1>5. EncoderPlan(Current, q.computed, RunningNewTokens(q)).n \in Int
  BY <1>1, <1>2, <1>4, PlanNumber
<1> QED BY <1>1, <1>2, <1>5 DEF RunningPlan, q

\* ... and of the waiting one
LEMMA WaitingNumbers ==
  ASSUME SlidingWindow = 0, QueueInv, Numbers, ManagerInv(kv), InWaitingLoop
  PROVE  /\ First \in Reqs /\ kv.blocks[First] = << >>
         /\ req[First].computed \in Int /\ req[First].spec \in Seq(Nat)
         /\ req[First].tokens \in Seq(Nat)
         /\ HitsFit(kv.pool, Hits)
         /\ StartAfterHits \in Int /\ WaitingPlan.n \in Int
<1> DEFINE q == req[First]
<1>1. First \in Reqs /\ kv.blocks[First] = << >>
  BY FirstWaits DEF QueueInv, BlocksHeldByLive
<1>2. q.computed \in Int /\ q.spec \in Seq(Nat) /\ q.tokens \in Seq(Nat)
  BY <1>1 DEF Numbers, RequestNumbers
<1> HIDE DEF q
<1>3. HitsFit(kv.pool, Hits)
  BY <1>1, <1>2, GetComputedBlocksFacts DEF Hits, q
<1>4. Len(Hits) \in Nat
  BY <1>3 DEF HitsFit
<1>5. StartAfterHits \in Int
  BY <1>4, ManagerAssumption DEF StartAfterHits
<1>6. WaitingNewTokens \in Int
  <2>1. Len(q.tokens) - StartAfterHits \in Int
    BY <1>2, <1>5
  <2>2. Limited(Len(q.tokens) - StartAfterHits) \in Int
    BY <2>1, Limits
  <2> QED BY <2>2 DEF WaitingNewTokens, StartAfterHits, q
<1>7. WaitingPlan.n \in Int
  BY <1>1, <1>5, <1>6, PlanNumber DEF WaitingPlan
<1> QED BY <1>1, <1>2, <1>3, <1>5, <1>7 DEF q

\* What an allocation for a running request leaves
LEMMA RunningAllocationKeeps ==
  ASSUME SlidingWindow = 0, QueueInv, Numbers, ManagerInv(kv), InRunningLoop
  PROVE  ManagerInv(RunningAllocation.m)
<1> DEFINE none == << >>
<1>1. HitsFit(kv.pool, none)
  <2>1. none \in Seq(Usable) /\ DOMAIN none = {}
    OBVIOUS
  <2> QED BY <2>1 DEF HitsFit
<1>2. RunningAllocation
        = AllocateSlots(kv, Current, req[Current], RunningPlan.n, none, NumLookahead)
  BY DEF RunningAllocation
<1>3. none = << >>
  OBVIOUS
<1> HIDE DEF none
<1> QED BY <1>1, <1>2, <1>3, RunningNumbers, AllocateSlotsKeeps, SchedulerAssumption

\* ... and one for a waiting request
LEMMA WaitingAllocationKeeps ==
  ASSUME SlidingWindow = 0, QueueInv, Numbers, ManagerInv(kv), InWaitingLoop
  PROVE  /\ ManagerInv(AfterLookup(kv, First, req[First]))
         /\ ManagerInv(WaitingAllocation.m)
<1> DEFINE m == AfterLookup(kv, First, req[First])
<1>1. /\ First \in Reqs /\ req[First].computed \in Int
      /\ Len(req[First].spec) \in Nat /\ Len(req[First].tokens) \in Nat
      /\ kv.blocks[First] = << >> /\ HitsFit(kv.pool, Hits) /\ WaitingPlan.n \in Int
  BY WaitingNumbers
<1>2. ManagerInv(m) /\ m.pool = kv.pool /\ m.blocks = kv.blocks
  BY <1>1, AfterLookupKeeps
<1>3. WaitingAllocation
        = AllocateSlots(m, First, req[First], WaitingPlan.n, Hits, NumLookahead)
  BY DEF WaitingAllocation
<1> HIDE DEF m
<1>4. HitsFit(m.pool, Hits) /\ m.blocks[First] = << >> /\ NumLookahead \in Nat
  BY <1>1, <1>2, SchedulerAssumption
<1>5. ManagerInv(WaitingAllocation.m)
  BY <1>1, <1>2, <1>3, <1>4, AllocateSlotsKeeps
<1> QED BY <1>2, <1>5 DEF m

\* A request that is released, whatever was allocated before
LEMMA ReleasedKeeps ==
  ASSUME NEW m, ManagerInv(m), NEW r \in Reqs
  PROVE  ManagerInv(Released(m, r))
BY FreeKeeps, FreeBlockHashesKeeps DEF Released

\* Every step keeps the manager's state consistent.
LEMMA NextKeepsManager ==
  ASSUME SlidingWindow = 0, QueueInv, Numbers, ManagerInv(kv), [Next]_vars
  PROVE  ManagerInv(kv)'
<1> SUFFICES ManagerInv(kv')
  OBVIOUS
<1>1. CASE UNCHANGED kv
  BY <1>1
<1>2. CASE \E r \in Reqs : FinishRequests(r)
  BY <1>2, ReleasedKeeps DEF FinishRequests
<1>3. CASE ResetPrefixCacheCall
  BY <1>3, ResetCacheKeeps DEF ResetPrefixCacheCall
<1>4. CASE ScheduleRunning
  BY <1>4, RunningAllocationKeeps DEF ScheduleRunning, ScheduleCurrent
<1>5. CASE Preempt
  <2>1. InRunningLoop /\ kv' = Free(RunningAllocation.m, Victim)
    BY <1>5 DEF Preempt
  <2>2. Victim \in Reqs
    <3>1. running \in Seq(Reqs) /\ Len(running) \in 1 .. Len(running)
      BY <2>1 DEF QueueInv, Shapes, StepShape, InRunningLoop
    <3> QED BY <3>1 DEF Victim
  <2> QED BY <2>1, <2>2, RunningAllocationKeeps, FreeKeeps
<1>6. CASE AdmitWaiting
  BY <1>6, WaitingAllocationKeeps DEF AdmitWaiting, AdmitFirst, Admissible
<1>7. CASE AdmissionFull
  BY <1>7, WaitingAllocationKeeps DEF AdmissionFull, Admissible
<1>8. CASE AdmissionAwaitsEncoder
  BY <1>8, WaitingAllocationKeeps DEF AdmissionAwaitsEncoder, Admissible
<1>9. CASE UpdateScheduled
  <2>1. /\ InUpdateLoop /\ Current \in Reqs
        /\ kv' = kv \/ kv' = Released(kv, Current)
    <3>1. InUpdateLoop /\ \E e, g, d : UpdateRequest(e, g, d)
      BY <1>9, Zenon DEF UpdateScheduled
    <3>2. kv' = kv \/ kv' = Released(kv, Current)
      BY <3>1, Zenon DEF UpdateRequest
    <3> QED BY <3>1, <3>2, CurrentRuns DEF InUpdateLoop
  <2> QED BY <2>1, ReleasedKeeps
<1>10. External \/ Reset \/ EngineStep \/ UNCHANGED vars
  BY DEF Next
<1>11. CASE External
  <2>1. PICK r \in Reqs : AddRequest(r) \/ GrammarCompiled(r) \/ FinishRequests(r)
    BY <1>11 DEF External
  <2>2. CASE AddRequest(r) \/ GrammarCompiled(r)
    BY <2>2, <1>1 DEF AddRequest, GrammarCompiled
  <2> QED BY <2>1, <2>2, <1>2
<1>12. CASE EngineStep
  <2>1. CASE StartStep \/ StartUpdate
    BY <2>1, <1>1 DEF StartStep, BeginSchedule, StartUpdate
  <2>2. CASE Scheduling
    <3>1. CASE SkipRunning \/ EndRunningLoop \/ SkipWaiting \/ EndWaitingLoop
      BY <3>1, <1>1 DEF SkipRunning, EndRunningLoop, SkipWaiting, EndWaitingLoop
    <3> QED BY <3>1, <2>2, <1>4, <1>5, <1>6, <1>7, <1>8 DEF Scheduling, ScheduleStep
  <2>3. CASE SubmitAndWait \/ Submit \/ NothingScheduled
    <3>1. \E p : EndSchedule(p)
      BY <2>3, Zenon DEF SubmitAndWait, Submit, NothingScheduled
    <3> QED BY <3>1, <1>1 DEF EndSchedule
  <2>4. CASE UpdateUnscheduled \/ FinishUpdate
    BY <2>4, <1>1 DEF UpdateUnscheduled, UpdateSkip, FinishUpdate, EndUpdate
  <2> QED BY <2>1, <2>2, <2>3, <2>4, <1>9, <1>12 DEF EngineStep
<1>13. CASE Reset
  BY <1>13, <1>3 DEF Reset
<1>14. CASE UNCHANGED vars
  BY <1>14, <1>1 DEF vars
<1> QED BY <1>10, <1>11, <1>12, <1>13, <1>14

\* No request has come and no batch is in flight.
LEMMA InitNumbers == Init => Numbers
<1> SUFFICES ASSUME Init PROVE Numbers
  OBVIOUS
<1>1. /\ req = [r \in Reqs |-> Gone("unborn")] /\ step = NoStep /\ batches = << >>
  BY DEF Init, SchedInit
<1>2. << >> \in Seq(Nat) /\ << >> \in Seq({}) /\ DOMAIN << >> = {}
  OBVIOUS
<1>3. RequestNumbers
  <2> DEFINE g == Gone("unborn")
  <2>1. g.tokens \in Seq(Nat) /\ g.spec \in Seq(Nat) /\ g.computed \in Int
    BY <1>2 DEF Gone
  <2> HIDE DEF g
  <2>2. \A r \in Reqs : req[r] = g
    BY <1>1 DEF g
  <2> QED BY <2>1, <2>2 DEF RequestNumbers
<1>4. OutNumbers
  BY <1>1 DEF OutNumbers, NoStep
<1>5. BatchNumbers
  BY <1>1, <1>2 DEF BatchNumbers, NoStep
<1> QED BY <1>3, <1>4, <1>5 DEF Numbers

\* The requests that change do so in known ways.
LEMMA OneRequestNumbers ==
  ASSUME QueueInv, RequestNumbers, NEW r \in Reqs, NEW q,
         q.tokens \in Seq(Nat), q.spec \in Seq(Nat), q.computed \in Int,
         req' = req \/ req' = [req EXCEPT ![r] = q]
  PROVE  RequestNumbers'
BY DEF QueueInv, Shapes, RequestNumbers

\* A status says nothing about numbers.
LEMMA StatusNumbers ==
  ASSUME QueueInv, RequestNumbers, NEW r \in Reqs,
         req' = req \/ \E s : req' = [req EXCEPT ![r].status = s]
  PROVE  RequestNumbers'
<1>1. CASE req' = req
  BY <1>1 DEF RequestNumbers
<1>2. CASE \E s : req' = [req EXCEPT ![r].status = s]
  BY <1>2 DEF QueueInv, Shapes, RequestNumbers
<1> QED BY <1>1, <1>2

\* A step that schedules nothing and leaves the batches alone.
LEMMA SameOutNumbers ==
  ASSUME OutNumbers, BatchNumbers, step'.budget = step.budget, step'.out = step.out,
         batches' = batches, step'.pc = "update" => step.pc = "update"
  PROVE  OutNumbers' /\ BatchNumbers'
BY DEF OutNumbers, BatchNumbers

\* One more request is scheduled.
LEMMA MoreOutNumbers ==
  ASSUME OutNumbers, NEW r, NEW q, NEW kind, NEW start \in Int, NEW plan, plan.n \in Int,
         NEW ids, NEW spec \in Seq(Nat),
         step'.budget = step.budget - plan.n,
         step'.out = WithScheduled(step.out, r, Scheduled(q, kind, start, plan, ids, spec))
  PROVE  OutNumbers'
<1> DEFINE e == Scheduled(q, kind, start, plan, ids, spec)
<1>1. e.start \in Int /\ e.n \in Int /\ Len(e.spec) \in Nat
  BY DEF Scheduled
<1> HIDE DEF e
<1>2. /\ DOMAIN step'.out = DOMAIN step.out \cup {r}
      /\ \A s \in DOMAIN step'.out : step'.out[s] = IF s = r THEN e ELSE step.out[s]
  BY DEF WithScheduled, e
<1>3. step'.budget \in Int
  BY DEF OutNumbers
<1> QED BY <1>1, <1>2, <1>3 DEF OutNumbers

\* A running request is scheduled.
LEMMA ScheduleRunningNumbers ==
  ASSUME QueueInv, Numbers, ScheduleRunning, UNCHANGED batches
  PROVE  Numbers'
<1> DEFINE q == req[Current]
           spec == TrimmedSpec(q, RunningPlan.n)
<1>1. /\ InRunningLoop
      /\ req' = IF spec = << >> THEN req ELSE [req EXCEPT ![Current].spec = spec]
      /\ step' = [step EXCEPT
                    !.i = @ + 1, !.budget = @ - RunningPlan.n,
                    !.out = WithScheduled(@, Current,
                              Scheduled(q, "running", q.computed, RunningPlan,
                                        RunningAllocation.blocks, spec))]
  BY DEF ScheduleRunning, ScheduleCurrent
<1>2. /\ Current \in Reqs /\ q.computed \in Int /\ q.spec \in Seq(Nat)
      /\ q.tokens \in Seq(Nat) /\ RunningPlan.n \in Int
  BY <1>1, RunningNumbers
<1>3. spec \in Seq(Nat)
  <2> DEFINE room == RunningPlan.n + q.computed - Len(q.tokens)
             k == Smaller(room, Len(q.spec))
  <2>1. room \in Int
    BY <1>2
  <2>2. spec = IF room > 0 THEN SubSeq(q.spec, 1, k) ELSE << >>
    BY DEF TrimmedSpec
  <2> HIDE DEF room, q
  <2>3. room > 0 => k \in 0 .. Len(q.spec)
    BY <2>1, <1>2 DEF Smaller
  <2> HIDE DEF k, spec
  <2>4. ASSUME room > 0 PROVE SubSeq(q.spec, 1, k) \in Seq(Nat)
    <3>1. k \in Int /\ \A i \in 1 .. k : q.spec[i] \in Nat
      BY <2>3, <2>4, <1>2
    <3> QED BY <3>1, SubSeqProperties
  <2> QED BY <2>2, <2>4
<1> HIDE DEF spec
<1>4. /\ step'.budget = step.budget - RunningPlan.n /\ step'.pc = step.pc
      /\ step'.out = WithScheduled(step.out, Current,
                              Scheduled(q, "running", q.computed, RunningPlan,
                                        RunningAllocation.blocks, spec))
  <2> DEFINE out == WithScheduled(step.out, Current,
                              Scheduled(q, "running", q.computed, RunningPlan,
                                        RunningAllocation.blocks, spec))
  <2>1. step' = [step EXCEPT !.i = @ + 1, !.budget = @ - RunningPlan.n, !.out = out]
    BY <1>1
  <2> HIDE DEF out, q
  <2>2. step'.budget = step.budget - RunningPlan.n /\ step'.pc = step.pc /\ step'.out = out
    BY <2>1 DEF QueueInv, Shapes, StepShape
  <2> QED BY <2>2 DEF out
<1>5. OutNumbers'
  BY <1>2, <1>3, <1>4, MoreOutNumbers DEF Numbers
<1>6. RequestNumbers'
  BY <1>1, <1>2, <1>3 DEF QueueInv, Shapes, Numbers, RequestNumbers
<1>7. BatchNumbers'
  BY <1>4 DEF Numbers, BatchNumbers
<1> QED BY <1>5, <1>6, <1>7 DEF Numbers

\* A waiting request is admitted.
LEMMA AdmitWaitingNumbers ==
  ASSUME SlidingWindow = 0, QueueInv, Numbers, ManagerInv(kv), AdmitWaiting,
         UNCHANGED batches
  PROVE  Numbers'
<1> DEFINE q == req[First]
           kind == IF q.status = "preempted" THEN "resumed" ELSE "new"
           none == << >>
           ids == Hits \o WaitingAllocation.blocks
           out == WithScheduled(step.out, First,
                    Scheduled(q, kind, StartAfterHits, WaitingPlan, ids, none))
<1>1. /\ InWaitingLoop
      /\ req' = [req EXCEPT ![First].status = "running", ![First].computed = StartAfterHits]
      /\ step' = [step EXCEPT !.budget = @ - WaitingPlan.n, !.out = out]
  BY DEF AdmitWaiting, AdmitFirst, Admissible
<1>2. none \in Seq(Nat)
  OBVIOUS
<1>3. First \in Reqs /\ StartAfterHits \in Int /\ WaitingPlan.n \in Int
  BY <1>1, WaitingNumbers
<1> HIDE DEF q, kind, none, ids, out
<1>4. step'.budget = step.budget - WaitingPlan.n /\ step'.pc = step.pc /\ step'.out = out
  BY <1>1 DEF QueueInv, Shapes, StepShape
<1>5. OutNumbers'
  BY <1>2, <1>3, <1>4, MoreOutNumbers DEF Numbers, out
<1>6. RequestNumbers'
  BY <1>1, <1>3 DEF QueueInv, Shapes, Numbers, RequestNumbers
<1>7. BatchNumbers'
  BY <1>4 DEF Numbers, BatchNumbers
<1> QED BY <1>5, <1>6, <1>7 DEF Numbers

\* The other steps of schedule()
LEMMA ScheduleStepNumbers ==
  ASSUME SlidingWindow = 0, QueueInv, Numbers, ManagerInv(kv), ScheduleStep,
         UNCHANGED batches
  PROVE  Numbers'
<1>1. CASE ScheduleRunning
  BY <1>1, ScheduleRunningNumbers
<1>2. CASE AdmitWaiting
  BY <1>2, AdmitWaitingNumbers
<1>3. CASE SkipRunning \/ EndRunningLoop \/ EndWaitingLoop
  <2>1. /\ req' = req /\ step'.budget = step.budget /\ step'.out = step.out
        /\ step'.pc \in {step.pc, "waiting", "end"}
    BY <1>3 DEF SkipRunning, EndRunningLoop, EndWaitingLoop, QueueInv, Shapes, StepShape
  <2> QED BY <2>1, SameOutNumbers DEF Numbers, RequestNumbers
<1>4. CASE Preempt
  <2>1. Victim \in Reqs
    <3>1. running \in Seq(Reqs) /\ Len(running) \in 1 .. Len(running)
      BY <1>4 DEF QueueInv, Shapes, StepShape, Preempt, InRunningLoop
    <3> QED BY <3>1 DEF Victim
  <2>2. /\ req' = [req EXCEPT ![Victim] = Preempted(@)]
        /\ step' = [step EXCEPT !.preempted = TRUE]
    BY <1>4 DEF Preempt
  <2>3. /\ step'.budget = step.budget /\ step'.out = step.out
        /\ step'.pc \in {step.pc, "end"}
    BY <2>2 DEF QueueInv, Shapes, StepShape
  <2>4. RequestNumbers'
    BY <2>1, <2>2 DEF QueueInv, Shapes, Numbers, RequestNumbers, Preempted
  <2> QED BY <2>3, <2>4, SameOutNumbers DEF Numbers
<1>5. CASE SkipWaiting \/ AdmissionFull \/ AdmissionAwaitsEncoder
  <2>1. InWaitingLoop /\ (req' = req \/ \E s : req' = [req EXCEPT ![First].status = s])
    BY <1>5, Zenon DEF SkipWaiting, AdmissionFull, AdmissionAwaitsEncoder, Admissible
  <2>2. \/ step' = [step EXCEPT !.skipped = <<First>> \o @]
        \/ step' = [step EXCEPT !.pc = "end"]
    BY <1>5, Zenon DEF SkipWaiting, AdmissionFull, AdmissionAwaitsEncoder
  <2>3. /\ step'.budget = step.budget /\ step'.out = step.out
        /\ step'.pc \in {step.pc, "end"}
    BY <2>2 DEF QueueInv, Shapes, StepShape
  <2>4. RequestNumbers'
    BY <2>1, FirstWaits, StatusNumbers DEF Numbers
  <2> QED BY <2>3, <2>4, SameOutNumbers DEF Numbers
<1> QED BY <1>1, <1>2, <1>3, <1>4, <1>5 DEF ScheduleStep

\* The locals of a call that begins
LEMMA FreshOutNumbers ==
  ASSUME step'.out = NoStep.out, step'.budget \in Int
  PROVE  OutNumbers'
<1>1. DOMAIN NoStep.out = {}
  BY DEF NoStep
<1> QED BY <1>1 DEF OutNumbers

\* The requests advance by what was scheduled.
LEMMA EndScheduleNumbers ==
  ASSUME QueueInv, Numbers, NEW p, EndSchedule(p)
  PROVE  RequestNumbers' /\ OutNumbers' /\ step'.pc = p
<1>1. /\ req' = [r \in Reqs |-> IF r \in DOMAIN step.out
                                THEN Advanced(req[r], step.out[r].n) ELSE req[r]]
      /\ step' = [NoStep EXCEPT !.pc = p, !.i = 1]
  BY DEF EndSchedule
<1>2. step'.out = NoStep.out /\ step'.budget = 0 /\ step'.pc = p
  BY <1>1 DEF NoStep
<1>3. ASSUME NEW r \in Reqs
      PROVE  /\ req'[r].tokens \in Seq(Nat) /\ req'[r].spec \in Seq(Nat)
             /\ req'[r].computed \in Int
  <2>1. /\ {"status", "tokens", "computed", "spec"} \subseteq DOMAIN req[r]
        /\ req[r].tokens \in Seq(Nat) /\ req[r].spec \in Seq(Nat) /\ req[r].computed \in Int
    BY DEF QueueInv, Shapes, Numbers, RequestNumbers
  <2>2. CASE r \in DOMAIN step.out
    <3>1. step.out[r].n \in Int
      BY <2>2 DEF Numbers, OutNumbers
    <3>2. req'[r] = [req[r] EXCEPT !.computed = @ + step.out[r].n]
      BY <2>2, <1>1 DEF Advanced
    <3> QED BY <3>1, <3>2, <2>1
  <2>3. CASE r \notin DOMAIN step.out
    BY <2>1, <2>3, <1>1
  <2> QED BY <2>2, <2>3
<1> QED BY <1>2, <1>3, FreshOutNumbers DEF RequestNumbers

\* The drafts a batch was computed with
LEMMA BatchOfNumbers ==
  ASSUME Numbers
  PROVE  \A r \in DOMAIN Batch(SchedulerOutput) :
            Len(Batch(SchedulerOutput)[r].spec) \in Nat
<1> DEFINE o == SchedulerOutput
           after == Execute(runner, o)
<1>1. o.out = step.out
  BY DEF SchedulerOutput
<1> SUFFICES ASSUME NEW r \in DOMAIN step.out
             PROVE  Len(Batch(o)[r].spec) \in Nat
  BY <1>1 DEF Batch
<1> DEFINE e == step.out[r]
           row == after.rows[r]
<1>2. Batch(o)[r].spec = FedDrafts(row, e)
  BY <1>1 DEF Batch
<1>3. e.start \in Int /\ e.n \in Int /\ Len(e.spec) \in Nat
  BY DEF Numbers, OutNumbers
<1> HIDE DEF e, row, o
<1> DEFINE i == e.start + e.n - Len(e.spec) + 1
           j == e.start + e.n
<1>4. i \in Int /\ j \in Int
  BY <1>3
<1>5. FedDrafts(row, e) = SubSeq(row.tokens, i, j)
  BY DEF FedDrafts
<1> HIDE DEF i, j
<1>6. Len(SubSeq(row.tokens, i, j)) \in Nat
  BY <1>4
<1> QED BY <1>2, <1>5, <1>6

\* A batch is submitted.
LEMMA SubmitNumbers ==
  ASSUME QueueInv, Numbers, SubmitAndWait \/ Submit \/ NothingScheduled
  PROVE  Numbers'
<1> DEFINE b == Batch(SchedulerOutput)
<1>1. \A r \in DOMAIN b : Len(b[r].spec) \in Nat
  BY BatchOfNumbers
<1>2. PICK S : batches \in Seq(S)
  BY DEF Numbers, BatchNumbers
<1>3. CASE SubmitAndWait
  <2>1. EndSchedule("update") /\ batches' = <<b>>
    BY <1>3 DEF SubmitAndWait
  <2> HIDE DEF b
  <2>2. <<b>> \in Seq({b}) /\ <<b>> # << >> /\ DOMAIN <<b>> = {1} /\ <<b>>[1] = b
    OBVIOUS
  <2>3. BatchNumbers'
    BY <2>1, <2>2, <1>1 DEF BatchNumbers
  <2> QED BY <2>1, <2>3, EndScheduleNumbers DEF Numbers
<1>4. CASE Submit
  <2>1. EndSchedule("idle") /\ batches' = Append(batches, b)
    BY <1>4 DEF Submit
  <2> HIDE DEF b
  <2>2. batches \in Seq(S \cup {b})
    <3>1. \A k \in 1 .. Len(batches) : batches[k] \in S \cup {b}
      BY <1>2
    <3>2. batches = [k \in 1 .. Len(batches) |-> batches[k]] /\ Len(batches) \in Nat
      BY <1>2
    <3> DEFINE n == Len(batches)
    <3> HIDE DEF n
    <3> QED BY <3>1, <3>2 DEF n
  <2>3. /\ batches' \in Seq(S \cup {b})
        /\ \A k \in DOMAIN batches' : batches'[k] = b \/ (k \in DOMAIN batches /\ batches'[k] = batches[k])
    BY <2>1, <2>2
  <2>4. BatchNumbers'
    <3>1. step'.pc = "idle"
      BY <2>1, EndScheduleNumbers
    <3>2. \A k \in DOMAIN batches' : \A r \in DOMAIN batches'[k] : Len(batches'[k][r].spec) \in Nat
      BY <2>3, <1>1 DEF Numbers, BatchNumbers
    <3> QED BY <3>1, <3>2, <2>3 DEF BatchNumbers
  <2> QED BY <2>1, <2>4, EndScheduleNumbers DEF Numbers
<1>5. CASE NothingScheduled
  <2>1. /\ EndSchedule(IF batches = << >> THEN "idle" ELSE "update")
        /\ batches' = batches
    BY <1>5 DEF NothingScheduled
  <2>2. /\ RequestNumbers' /\ OutNumbers'
        /\ step'.pc = IF batches = << >> THEN "idle" ELSE "update"
    BY <2>1, EndScheduleNumbers
  <2>3. BatchNumbers'
    BY <2>1, <2>2 DEF Numbers, BatchNumbers
  <2> QED BY <2>2, <2>3 DEF Numbers
<1> QED BY <1>3, <1>4, <1>5

\* What a worker returns: accepted drafts and one more token
LEMMA GeneratedTokens ==
  ASSUME NEW fed, Len(fed) \in Nat, NEW sampled, NEW g \in Generated(fed, sampled)
  PROVE  g \in Seq(Nat)
<1>1. << >> \in Seq(Nat)
  OBVIOUS
<1>2. CASE sampled
  <2> DEFINE Accepted == {k \in 0 .. Len(fed) : \A i \in 1 .. k : fed[i] \in Vocab}
             Longer(a, t) == SubSeq(fed, 1, a) \o <<t>>
             All == {Longer(a, t) : a \in Accepted, t \in Vocab}
  <2>1. g \in All
    <3>1. Generated(fed, sampled) = IF ~ sampled THEN {<< >>} ELSE All
      BY DEF Generated
    <3> HIDE DEF All
    <3> QED BY <1>2, <3>1
  <2>2. PICK a \in Accepted, t \in Vocab : g = Longer(a, t)
    <3> HIDE DEF Accepted, Longer
    <3> QED BY <2>1
  <2>3. a \in Nat /\ (\A i \in 1 .. a : fed[i] \in Nat) /\ t \in Nat
    <3>1. a \in 0 .. Len(fed) /\ (\A i \in 1 .. a : fed[i] \in Vocab)
      BY <2>2, Zenon
    <3>2. Vocab \subseteq Nat
      BY RunnerAssumption
    <3>3. \A i \in 1 .. a : fed[i] \in Nat
      BY <3>1, <3>2
    <3> QED BY <3>1, <3>2, <3>3, <2>2
  <2>4. SubSeq(fed, 1, a) \in Seq(Nat)
    <3>1. SubSeq(fed, 1, a) = [i \in 1 .. a |-> fed[i]]
      BY <2>3
    <3> QED BY <2>3, <3>1
  <2>5. <<t>> \in Seq(Nat)
    BY <2>3
  <2> QED BY <2>2, <2>4, <2>5
<1>3. CASE ~ sampled
  BY <1>1, <1>3 DEF Generated
<1> QED BY <1>2, <1>3

\* ... and the drafts for the next step
LEMMA DraftTokens ==
  ASSUME NEW g, NEW n, NEW d \in Drafts(g, n)
  PROVE  d \in Seq(Nat)
<1>1. \A k \in Nat : Draft(k) \in Seq(Nat)
  BY RunnerAssumption DEF Draft
<1>2. << >> \in Seq(Nat)
  OBVIOUS
<1>3. d = << >> \/ \E k \in Nat : d = Draft(k)
  BY RunnerAssumption DEF Drafts
<1> QED BY <1>1, <1>2, <1>3

\* One round of update_from_output
LEMMA UpdateNumbers ==
  ASSUME QueueInv, Numbers, UpdateUnscheduled \/ UpdateScheduled \/ FinishUpdate
  PROVE  Numbers'
<1>1. CASE UpdateUnscheduled
  <2>1. /\ req' = req /\ batches' = batches
        /\ step'.budget = step.budget /\ step'.out = step.out /\ step'.pc = step.pc
    BY <1>1 DEF UpdateUnscheduled, UpdateSkip, QueueInv, Shapes, StepShape
  <2> QED BY <2>1, SameOutNumbers DEF Numbers, RequestNumbers
<1>2. CASE UpdateScheduled
  <2>1. /\ InUpdateLoop /\ Current \in DOMAIN Oldest /\ batches' = batches
        /\ \E g \in Generated(Oldest[Current].spec, Oldest[Current].sampled) :
             \E d \in Drafts(g, Len(req[Current].tokens) + Len(g)) :
                UpdateRequest(Oldest[Current], g, d)
    BY <1>2 DEF UpdateScheduled
  <2> DEFINE e == Oldest[Current]
             r == Current
  <2>2. PICK g \in Generated(e.spec, e.sampled) :
           \E d \in Drafts(g, Len(req[r].tokens) + Len(g)) : UpdateRequest(e, g, d)
    BY <2>1
  <2>3. PICK d \in Drafts(g, Len(req[r].tokens) + Len(g)) : UpdateRequest(e, g, d)
    BY <2>2
  <2>4. Len(e.spec) \in Nat
    <3>1. 1 \in DOMAIN batches
      BY <2>1 DEF Numbers, BatchNumbers, InUpdateLoop
    <3> QED BY <3>1, <2>1 DEF Numbers, BatchNumbers, Oldest
  <2>5. r \in Reqs
    BY <2>1, CurrentRuns DEF InUpdateLoop
  <2> HIDE DEF e
  <2>6. g \in Seq(Nat) /\ d \in Seq(Nat)
    BY <2>2, <2>3, <2>4, GeneratedTokens, DraftTokens
  <2> DEFINE q == [Verified(req[r], e, g) EXCEPT !.spec = d]
  <2>7. /\ {"status", "tokens", "computed", "spec"} \subseteq DOMAIN q
        /\ q.tokens \in Seq(Nat) /\ q.spec \in Seq(Nat) /\ q.computed \in Int
    <3>1. /\ {"status", "tokens", "computed", "spec"} \subseteq DOMAIN req[r]
          /\ req[r].tokens \in Seq(Nat) /\ req[r].computed \in Int
      BY <2>5 DEF QueueInv, Shapes, Numbers, RequestNumbers
    <3>2. Len(e.spec) + 1 - Len(g) \in Int
      BY <2>4, <2>6
    <3>3. /\ {"status", "tokens", "computed", "spec"} \subseteq DOMAIN Verified(req[r], e, g)
          /\ Verified(req[r], e, g).tokens = req[r].tokens
          /\ Verified(req[r], e, g).computed \in Int
      BY <3>1, <3>2 DEF Verified
    <3> QED BY <3>1, <3>3, <2>6
  <2>8. /\ \/ req' = [req EXCEPT ![r] = [q EXCEPT !.tokens = @ \o g]]
           \/ req' = [req EXCEPT ![r] = Gone("finished")]
        /\ \/ step' = [step EXCEPT !.i = @ + 1, !.keep = Append(@, r)]
           \/ step' = [step EXCEPT !.i = @ + 1]
    BY <2>3, Zenon DEF UpdateRequest
  <2> HIDE DEF q, r
  <2>9. step'.budget = step.budget /\ step'.out = step.out /\ step'.pc = step.pc
    BY <2>8 DEF QueueInv, Shapes, StepShape
  <2>10. RequestNumbers'
    <3> DEFINE q1 == [q EXCEPT !.tokens = @ \o g]
               q2 == Gone("finished")
    <3>1. q1.tokens \in Seq(Nat) /\ q1.spec \in Seq(Nat) /\ q1.computed \in Int
      BY <2>6, <2>7
    <3>2. q2.tokens \in Seq(Nat) /\ q2.spec \in Seq(Nat) /\ q2.computed \in Int
      <4>1. << >> \in Seq(Nat)
        OBVIOUS
      <4> QED BY <4>1 DEF Gone
    <3>3. req' = [req EXCEPT ![r] = q1] \/ req' = [req EXCEPT ![r] = q2]
      BY <2>8
    <3> HIDE DEF q1, q2
    <3> QED BY <3>1, <3>2, <3>3, <2>5, OneRequestNumbers DEF Numbers
  <2> QED BY <2>1, <2>9, <2>10, SameOutNumbers DEF Numbers
<1>3. CASE FinishUpdate
  <2>1. /\ req' = req /\ step' = NoStep /\ batches' = Tail(batches) /\ step.pc = "update"
    BY <1>3 DEF FinishUpdate, EndUpdate
  <2>2. step'.out = NoStep.out /\ step'.budget = 0 /\ step'.pc = "idle"
    BY <2>1 DEF NoStep
  <2>3. PICK S : batches \in Seq(S)
    BY DEF Numbers, BatchNumbers
  <2>4. batches # << >>
    BY <2>1 DEF Numbers, BatchNumbers
  <2>5. /\ batches' \in Seq(S)
        /\ \A k \in DOMAIN batches' : k + 1 \in DOMAIN batches /\ batches'[k] = batches[k + 1]
    BY <2>1, <2>3, <2>4
  <2>6. BatchNumbers'
    BY <2>2, <2>5 DEF Numbers, BatchNumbers
  <2> QED BY <2>1, <2>2, <2>6, FreshOutNumbers DEF Numbers, RequestNumbers
<1> QED BY <1>1, <1>2, <1>3

\* Calls from outside
LEMMA ExternalNumbers ==
  ASSUME QueueInv, Numbers, External \/ Reset
  PROVE  Numbers'
<1>1. step' = step /\ batches' = batches
  BY DEF External, Reset, AddRequest, GrammarCompiled, FinishRequests, ResetPrefixCacheCall
<1>2. OutNumbers' /\ BatchNumbers'
  BY <1>1 DEF Numbers, OutNumbers, BatchNumbers
<1>3. << >> \in Seq(Nat)
  OBVIOUS
<1>4. req' = req \/ \E r \in Reqs : \E q :
        /\ q.tokens \in Seq(Nat) /\ q.spec \in Seq(Nat) /\ q.computed \in Int
        /\ req' = [req EXCEPT ![r] = q]
  <2>1. CASE Reset
    BY <2>1 DEF Reset, ResetPrefixCacheCall
  <2>2. CASE External
    <3>1. PICK r \in Reqs : AddRequest(r) \/ GrammarCompiled(r) \/ FinishRequests(r)
      BY <2>2 DEF External
    <3>2. CASE AddRequest(r)
      <4> DEFINE w == IF r \in FsmReqs THEN "waiting_fsm" ELSE "waiting"
                 q == [status |-> w, tokens |-> Prompt[r], computed |-> 0, spec |-> << >>]
      <4>1. req' = [req EXCEPT ![r] = q]
        BY <3>2 DEF AddRequest
      <4>2. q.tokens \in Seq(Nat) /\ q.spec \in Seq(Nat) /\ q.computed \in Int
        BY <1>3, SchedulerAssumption
      <4> HIDE DEF q
      <4> QED BY <4>1, <4>2
    <3>3. CASE GrammarCompiled(r)
      BY <3>3 DEF GrammarCompiled
    <3>4. CASE FinishRequests(r)
      <4> DEFINE q == Gone("aborted")
      <4>1. req' = [req EXCEPT ![r] = q]
        BY <3>4 DEF FinishRequests
      <4>2. q.tokens \in Seq(Nat) /\ q.spec \in Seq(Nat) /\ q.computed \in Int
        BY <1>3 DEF Gone
      <4> HIDE DEF q
      <4> QED BY <4>1, <4>2
    <3> QED BY <3>1, <3>2, <3>3, <3>4
  <2> QED BY <2>1, <2>2
<1>5. RequestNumbers'
  <2>1. CASE req' = req
    BY <2>1 DEF Numbers, RequestNumbers
  <2>2. CASE \E r \in Reqs : \E q :
                /\ q.tokens \in Seq(Nat) /\ q.spec \in Seq(Nat) /\ q.computed \in Int
                /\ req' = [req EXCEPT ![r] = q]
    BY <2>2, OneRequestNumbers DEF Numbers
  <2> QED BY <2>1, <2>2, <1>4
<1> QED BY <1>2, <1>5 DEF Numbers

\* Every step
LEMMA NextKeepsNumbers ==
  ASSUME SlidingWindow = 0, QueueInv, Numbers, ManagerInv(kv), [Next]_vars
  PROVE  Numbers'
<1>1. CASE External \/ Reset
  BY <1>1, ExternalNumbers
<1>2. CASE UNCHANGED vars
  <2>1. UNCHANGED <<req, step, batches>>
    BY <1>2 DEF vars
  <2> QED BY <2>1 DEF Numbers, RequestNumbers, OutNumbers, BatchNumbers
<1>3. CASE StartStep \/ StartUpdate
  <2>1. /\ req' = req /\ batches' = batches
        /\ \/ step' = [NoStep EXCEPT !.pc = "running", !.i = 1,
                                     !.budget = MaxNumScheduledTokens]
           \/ step' = [NoStep EXCEPT !.pc = "update", !.i = 1] /\ batches # << >>
    <3>1. CASE StartStep
      BY <3>1 DEF StartStep, BeginSchedule
    <3>2. CASE StartUpdate
      <4>1. Len(batches) = MaxBatches /\ MaxBatches # 0
        BY <3>2, EngineAssumption DEF StartUpdate
      <4>2. batches # << >>
        BY <4>1
      <4> QED BY <4>2, <3>2 DEF StartUpdate
    <3> QED BY <3>1, <3>2, <1>3
  <2>2. /\ step'.out = NoStep.out /\ step'.budget \in Int
        /\ step'.pc = "running" \/ (step'.pc = "update" /\ batches # << >>)
    <3>1. CASE step' = [NoStep EXCEPT !.pc = "running", !.i = 1,
                                      !.budget = MaxNumScheduledTokens]
      <4>1. step'.out = NoStep.out /\ step'.budget = MaxNumScheduledTokens /\ step'.pc = "running"
        BY <3>1, NoStepShape
      <4>2. MaxNumScheduledTokens \in Int
        BY SchedulerAssumption
      <4> QED BY <4>1, <4>2
    <3>2. CASE step' = [NoStep EXCEPT !.pc = "update", !.i = 1] /\ batches # << >>
      <4>1. step'.out = NoStep.out /\ step'.budget = 0 /\ step'.pc = "update"
        BY <3>2 DEF NoStep
      <4> QED BY <4>1, <3>2
    <3> QED BY <3>1, <3>2, <2>1
  <2>3. BatchNumbers'
    BY <2>1, <2>2 DEF Numbers, BatchNumbers
  <2> QED BY <2>1, <2>2, <2>3, FreshOutNumbers DEF Numbers, RequestNumbers
<1>4. CASE Scheduling
  BY <1>4, ScheduleStepNumbers DEF Scheduling
<1>5. CASE SubmitAndWait \/ Submit \/ NothingScheduled
  BY <1>5, SubmitNumbers
<1>6. CASE UpdateUnscheduled \/ UpdateScheduled \/ FinishUpdate
  BY <1>6, UpdateNumbers
<1> QED BY <1>1, <1>2, <1>3, <1>4, <1>5, <1>6 DEF Next, EngineStep

-----------------------------------------------------------------------------
\* PoolConsistent is not inductive: allocation and the cache rest on the number
\* types, on waiting requests holding no blocks, and on each block having one
\* place (Placed), which is what keeps a request from holding a block twice.
KVInv == QueueInv /\ Numbers /\ ManagerInv(kv)

\* It holds without a sliding window, in every state.
LEMMA KVInvAlways == ASSUME SlidingWindow = 0 PROVE Spec => []KVInv
<1>1. Init => KVInv
  <2>1. Init => kv = InitManager
    BY DEF Init, SchedInit
  <2> QED BY <2>1, InitQueueInv, InitNumbers, InitManagerInv DEF KVInv
<1>2. KVInv /\ [Next]_vars => KVInv'
  BY NextKeeps, NextKeepsNumbers, NextKeepsManager DEF KVInv
<1> QED BY <1>1, <1>2, PTL DEF Spec

\* The free queue has the blocks nobody holds, each once; the reference count of
\* a block is the number of requests that hold it, none twice; and the prefix
\* cache has the blocks that carry a hash, each under its own: for any requests,
\* pool, block size, budgets, preemptions, drafts and pipeline depth, with or
\* without prefix caching (block_pool.py and kv_cache_manager.py), for full
\* attention.
THEOREM PoolConsistentAlways == ASSUME SlidingWindow = 0 PROVE Spec => []PoolConsistent
<1>1. KVInv => PoolConsistent
  BY DEF KVInv, ManagerInv, PoolInv, PoolConsistent
<1> QED BY <1>1, KVInvAlways, PTL

\* The blocks reported to the workers as common to all running requests are the
\* first blocks of each of them, in the same order (get_num_common_prefix_blocks
\* and schedule()), although it compares reference counts only: for full
\* attention, and any instance.
THEOREM CommonPrefixSharedAlways ==
  ASSUME SlidingWindow = 0
  PROVE  Spec => []CommonPrefixShared
<1>1. KVInv => CommonPrefixShared
  <2> SUFFICES ASSUME KVInv, step.pc = "end", NEW r \in Range(running),
                      NEW i \in 1 .. SchedulerOutput.common
               PROVE  kv.blocks[r][i] = kv.blocks[running[1]][i]
    BY DEF CommonPrefixShared
  <2>1. /\ running \in Seq(Reqs) /\ IsInjective(running) /\ ManagerInv(kv)
    BY DEF KVInv, QueueInv, Shapes, NoRepetition
  <2>2. running # << >>
    BY <2>1, RangeFacts
  <2>3. SchedulerOutput.common = NumCommonPrefixBlocks(kv, running[1], Len(running))
    BY <2>2 DEF SchedulerOutput
  <2>4. \A s \in Reqs : s \notin Range(running) => kv.blocks[s] = << >>
    BY DEF KVInv, QueueInv, BlocksHeldByLive, Live
  <2> QED BY <2>1, <2>3, <2>4, CommonPrefixOfAll
<1> QED BY <1>1, KVInvAlways, PTL

-----------------------------------------------------------------------------
\* The assertions, with full attention, no drafts, no lookahead and no LoRA limit

\* num_computed_tokens once this call of schedule() is over
AdvancedTo(r) ==
  req[r].computed + (IF r \in DOMAIN step.out THEN step.out[r].n ELSE 0)

\* No request has more tokens than the model takes, more hashes than full blocks
\* of tokens, or more tokens computed than it has; who does not run starts anew.
Fits(r) ==
  /\ req[r].spec = << >>
  /\ Len(req[r].tokens) <= MaxModelLen
  /\ req[r].status \in Queued \cup {"running"} <=> req[r].tokens # << >>
  /\ HashesOfTokens(kv, r, req[r].tokens)
  /\ 0 <= req[r].computed /\ AdvancedTo(r) <= Len(req[r].tokens)
  /\ req[r].status # "running" => req[r].computed = 0

\* schedule() stays within its limits and is at no request twice.
WithinLimits ==
  /\ step.budget >= 0 /\ Len(running) <= MaxNumRunningReqs
  /\ \A r \in DOMAIN step.out : /\ r \in Range(running)
                                /\ step.out[r].n > 0 /\ step.out[r].spec = << >>
  /\ step.pc = "running" =>
       \A j \in DOMAIN running : running[j] \in DOMAIN step.out => j < step.i
  /\ step.pc \in {"idle", "update"} => DOMAIN step.out = {}

\* As many blocks of a running request are cached as are full.
FullBlocksCached ==
  EnableCaching =>
    /\ CacheCounts(kv)
    /\ \A r \in Reqs : req[r].status = "running" =>
                         kv.ncached[r] = AdvancedTo(r) \div BlockSize

NoDraftsInFlight ==
  \A k \in DOMAIN batches : \A r \in DOMAIN batches[k] : batches[k][r].spec = << >>

\* What the assertions rest on
AssertInv == /\ NoAssertionFailure
             /\ \A r \in Reqs : Fits(r)
             /\ WithinLimits
             /\ FullBlocksCached
             /\ NoDraftsInFlight

\* The settings for which the code's assertions hold
Plain == SlidingWindow = 0 /\ SpecMethod = "none" /\ NumLookahead = 0 /\ MaxLoras = 0

\* A request whose tokens, count and hashes stay
LEMMA FitsSame ==
  ASSUME NEW r \in Reqs, Fits(r),
         req'[r].tokens = req[r].tokens, req'[r].computed = req[r].computed,
         req'[r].spec = req[r].spec,
         req'[r].status = req[r].status
           \/ (req[r].status \in Queued /\ req'[r].status \in Queued),
         kv'.hashes[r] = kv.hashes[r],
         AdvancedTo(r)' = AdvancedTo(r)
  PROVE  Fits(r)'
BY DEF Fits, HashesOfTokens, Queued

\* The step's part in AdvancedTo
LEMMA AdvancedToSame ==
  ASSUME NEW r, req'[r].computed = req[r].computed,
         \/ step'.out = step.out
         \/ DOMAIN step.out = {} /\ DOMAIN step'.out = {}
  PROVE  AdvancedTo(r)' = AdvancedTo(r)
BY DEF AdvancedTo

\* A step that allocates nothing and changes statuses of waiting requests at most.
LEMMA AccountSame ==
  ASSUME QueueInv, AssertInv, ~ dead',
         \A r \in Reqs : /\ req'[r].tokens = req[r].tokens
                         /\ req'[r].computed = req[r].computed
                         /\ req'[r].spec = req[r].spec
                         /\ \/ req'[r].status = req[r].status
                            \/ req[r].status \in Queued /\ req'[r].status \in Queued,
         kv' = kv,
         \/ step'.out = step.out
         \/ DOMAIN step.out = {} /\ DOMAIN step'.out = {},
         WithinLimits', NoDraftsInFlight'
  PROVE  AssertInv'
<1>1. ASSUME NEW r \in Reqs PROVE AdvancedTo(r)' = AdvancedTo(r) /\ Fits(r)'
  <2>1. AdvancedTo(r)' = AdvancedTo(r)
    BY AdvancedToSame
  <2> QED BY <2>1, FitsSame DEF AssertInv
<1>2. FullBlocksCached'
  BY <1>1 DEF AssertInv, FullBlocksCached, Queued
<1> QED BY <1>1, <1>2 DEF AssertInv, NoAssertionFailure

\* A plan has at most the tokens asked for, and never fewer than none.
LEMMA PlanBounds ==
  ASSUME NEW r \in Reqs, NEW start \in Nat, NEW n \in Nat
  PROVE  EncoderPlan(r, start, n).n \in 0 .. n
<1> DEFINE missing == MissingImages(r, start, n)
           stuck == StuckImages(r, start, n, missing)
           first == CHOOSE i \in stuck : \A j \in stuck : i <= j
<1>1. stuck \subseteq DOMAIN MMPositions[r] /\ \A i \in stuck : Offset(r, i) < start + n
  BY DEF StuckImages, MissingImages
<1>2. MMPositions[r] \in Seq([offset : Nat, length : Nat \ {0}])
  BY SchedulerAssumption
<1>3. EncoderPlan(r, start, n).n
        = IF stuck = {} THEN n ELSE Larger(0, Offset(r, first) - start)
  BY DEF EncoderPlan, PlanOfMissing, PlanUpTo
<1> HIDE DEF stuck
<1>4. stuck # {} => first \in stuck
  <2>1. stuck \in SUBSET Nat
    BY <1>1, <1>2
  <2>2. stuck # {} => \E i \in stuck : \A j \in stuck : i <= j
    BY <2>1, SmallestExists
  <2> QED BY <2>2
<1> HIDE DEF first
<1>5. stuck # {} => Offset(r, first) \in Nat /\ Offset(r, first) < start + n
  <2> DEFINE Ranges == [offset : Nat, length : Nat \ {0}]
  <2>1. \A x \in Ranges : x.offset \in Nat
    OBVIOUS
  <2>2. MMPositions[r] \in Seq(Ranges)
    BY <1>2
  <2> HIDE DEF Ranges
  <2>3. stuck # {} => first \in DOMAIN MMPositions[r]
    BY <1>1, <1>4
  <2> QED BY <2>1, <2>2, <2>3, <1>1, <1>4 DEF Offset
<1> HIDE DEF missing
<1>6. CASE stuck = {}
  BY <1>3, <1>6
<1>7. CASE stuck # {}
  <2> DEFINE d == Offset(r, first) - start
  <2>1. d \in Int /\ d < n
    BY <1>5, <1>7
  <2>2. EncoderPlan(r, start, n).n = Larger(0, d)
    BY <1>3, <1>7
  <2> HIDE DEF d
  <2> QED BY <2>1, <2>2 DEF Larger
<1> QED BY <1>6, <1>7

\* The limits on a number of tokens
LEMMA LimitedBounds ==
  ASSUME NEW n \in Nat, step.budget \in Nat
  PROVE  /\ Limited(n) \in 0 .. n /\ Limited(n) <= step.budget
         /\ n > 0 /\ step.budget > 0 => Limited(n) > 0
BY SchedulerAssumption DEF Limited, Smaller

\* The running request at hand has no tokens scheduled yet, and what it is given
\* can be allocated.
LEMMA RunningAccount ==
  ASSUME Plain, KVInv, AssertInv, InRunningLoop
  PROVE  /\ Current \in Reqs /\ Current \notin DOMAIN step.out
         /\ req[Current].status = "running"
         /\ RunningPlan.n \in Nat /\ RunningPlan.n <= step.budget
         /\ RunningPlan.n # 0 =>
              Allocatable(kv, Current, req[Current], RunningPlan.n, << >>)
<1> DEFINE q == req[Current]
           n == RunningPlan.n
<1>1. QueueInv /\ Numbers /\ ManagerInv(kv) /\ step.pc = "running" /\ step.i <= Len(running)
  BY DEF KVInv, InRunningLoop
<1>2. Current \in Reqs /\ q.status = "running"
  BY <1>1, CurrentRuns
<1>3. Current \notin DOMAIN step.out
  <2>1. step.i \in DOMAIN running /\ step.i \in Nat
    BY <1>1 DEF QueueInv, Shapes, StepShape
  <2> QED BY <2>1, <1>1 DEF Current, AssertInv, WithinLimits
<1>4. q.tokens \in Seq(Nat) /\ q.computed \in Int
  BY <1>1, <1>2 DEF Numbers, RequestNumbers
<1>5. /\ q.spec = << >> /\ Len(q.tokens) <= MaxModelLen /\ q.tokens # << >>
      /\ HashesOfTokens(kv, Current, q.tokens)
      /\ q.computed \in Nat /\ q.computed <= Len(q.tokens)
  <2>1. Fits(Current)
    BY <1>2 DEF AssertInv
  <2>2. AdvancedTo(Current) = q.computed
    BY <1>3, <1>4 DEF AdvancedTo
  <2> HIDE DEF q
  <2> QED BY <2>1, <2>2, <1>2, <1>4 DEF Fits, q
<1>6. step.budget \in Nat /\ step.budget > 0 /\ MaxModelLen \in Nat
  BY <1>1, ManagerAssumption DEF AssertInv, WithinLimits, Numbers, OutNumbers, InRunningLoop
<1> DEFINE l == Len(q.tokens)
           rest == l + Len(q.spec) - q.computed
<1>7. rest \in Nat /\ q.computed + rest = l /\ l \in Nat /\ l <= MaxModelLen
  <2>1. Len(q.spec) = 0
    BY <1>5
  <2>2. l \in Nat
    BY <1>4
  <2> QED BY <2>1, <2>2, <1>5
<1>8. RunningNewTokens(q) \in 0 .. rest /\ RunningNewTokens(q) <= step.budget
  <2>1. RunningNewTokens(q) = Smaller(Limited(rest), MaxModelLen - q.computed)
    BY DEF RunningNewTokens
  <2> HIDE DEF rest, l, q
  <2>2. Limited(rest) \in 0 .. rest /\ Limited(rest) <= step.budget
    BY <1>6, <1>7, LimitedBounds
  <2>3. MaxModelLen - q.computed >= 0
    BY <1>5, <1>6, <1>7
  <2> QED BY <2>1, <2>2, <2>3, <1>5, <1>6, <1>7 DEF Smaller
<1>9. n \in 0 .. RunningNewTokens(q)
  <2>1. n = EncoderPlan(Current, q.computed, RunningNewTokens(q)).n
    BY DEF RunningPlan
  <2> HIDE DEF n, q, rest
  <2> QED BY <2>1, <1>2, <1>5, <1>7, <1>8, PlanBounds
<1>10. n \in Nat /\ n <= step.budget /\ q.computed + n <= l
  <2> HIDE DEF n, q, rest, l
  <2> QED BY <1>5, <1>6, <1>7, <1>8, <1>9
<1>11. ASSUME n # 0 PROVE Allocatable(kv, Current, q, n, << >>)
  <2> DEFINE none == << >>
  <2>1. HitsFit(kv.pool, none) /\ Len(none) = 0
    <3>1. none \in Seq(Usable) /\ DOMAIN none = {} /\ Len(none) = 0
      OBVIOUS
    <3> QED BY <3>1 DEF HitsFit
  <2>2. q.computed + Len(none) * BlockSize + n <= l
    <3>1. Len(none) * BlockSize = 0
      BY <2>1, ManagerAssumption
    <3> HIDE DEF none, q, n, l
    <3> QED BY <3>1, <1>5, <1>10
  <2>3. Len(kv.hashes[Current]) \in Nat
    BY <1>1, <1>2, HashesLen
  <2>4. ASSUME EnableCaching
        PROVE  /\ CacheCounts(kv)
               /\ kv.ncached[Current] # Absent
               /\ kv.ncached[Current] = q.computed \div BlockSize
    <3>1. AdvancedTo(Current) = q.computed
      BY <1>3, <1>4 DEF AdvancedTo
    <3>2. q.computed \div BlockSize \in Nat
      BY <1>5, DivFacts
    <3> QED BY <3>1, <3>2, <2>4, <1>2 DEF AssertInv, FullBlocksCached, Absent
  <2>5. none = << >>
    OBVIOUS
  <2> HIDE DEF none, q, n
  <2>6. Allocatable(kv, Current, q, n, none)
    BY <2>1, <2>2, <2>3, <2>4, <2>5, <1>5, <1>7, <1>10, <1>11 DEF Allocatable
  <2> QED BY <2>5, <2>6
<1> QED BY <1>2, <1>3, <1>10, <1>11

\* The request admitted has a token to compute, and what it is given can be
\* allocated.
LEMMA WaitingAccount ==
  ASSUME Plain, KVInv, AssertInv, InWaitingLoop
  PROVE  LET m == AfterLookup(kv, First, req[First])
         IN  /\ First \in Reqs /\ First \notin DOMAIN step.out
             /\ req[First].status \in Queued /\ First \notin Range(running)
             /\ req[First].computed = 0
             /\ WaitingNewTokens \in Nat \ {0} /\ StartAfterHits \in Nat
             /\ WaitingPlan.n \in Nat /\ WaitingPlan.n <= step.budget
             /\ ManagerInv(m)
             /\ EnableCaching => CacheCounts(m)
             /\ m.ncached = kv.ncached /\ kv.ncached[First] = Absent
             /\ \A s \in Reqs : s # First => m.hashes[s] = kv.hashes[s]
             /\ HashesOfTokens(m, First, req[First].tokens)
             /\ WaitingPlan.n # 0 =>
                  Allocatable(m, First, req[First], WaitingPlan.n, Hits)
<1> DEFINE q == req[First]
           n == WaitingPlan.n
           m == AfterLookup(kv, First, q)
           hits == GetComputedBlocks(kv, First, q)
<1>1. QueueInv /\ Numbers /\ ManagerInv(kv) /\ SlidingWindow = 0
  BY DEF KVInv, Plain
<1>2. /\ First \in Reqs /\ q.status \in Queued /\ First \notin Range(running)
      /\ First \notin Live
  <2>1. /\ First \in Reqs /\ q.status \in Queued /\ First \notin Live /\ Live = Range(running)
    BY <1>1, FirstWaits
  <2> QED BY <2>1
<1>3. First \notin DOMAIN step.out
  BY <1>2 DEF AssertInv, WithinLimits
<1>4. /\ kv.blocks[First] = << >> /\ kv.ncached[First] = Absent
      /\ q.tokens \in Seq(Nat) /\ HitsFit(kv.pool, Hits) /\ StartAfterHits \in Int
  BY <1>1, <1>2, WaitingNumbers DEF QueueInv, BlocksHeldByLive
<1>5. /\ q.spec = << >> /\ Len(q.tokens) <= MaxModelLen /\ q.tokens # << >>
      /\ HashesOfTokens(kv, First, q.tokens) /\ q.computed = 0
  BY <1>2 DEF AssertInv, Fits, Queued
<1>6. /\ ManagerInv(m) /\ m.pool = kv.pool /\ m.blocks = kv.blocks
      /\ m.ncached = kv.ncached
  <2>1. ManagerInv(m) /\ m.pool = kv.pool /\ m.blocks = kv.blocks
    BY <1>1, <1>2, <1>4, AfterLookupKeeps
  <2>2. m.ncached = kv.ncached
    BY <1>1 DEF AfterLookup, ManagerInv, ManagerShape
  <2> QED BY <2>1, <2>2
<1> DEFINE l == Len(q.tokens)
<1>7. l \in Nat \ {0}
  BY <1>4, <1>5
<1>8. EnableCaching => CacheCounts(kv)
  BY DEF AssertInv, FullBlocksCached
<1>9. /\ EnableCaching => CacheCounts(m)
      /\ \A s \in Reqs : s # First => m.hashes[s] = kv.hashes[s]
      /\ HashesOfTokens(m, First, q.tokens)
      /\ Len(hits) <= Len(m.hashes[First])
      /\ Len(hits) * BlockSize < l
  <2> HIDE DEF m, hits, q
  <2> QED BY <1>1, <1>2, <1>5, <1>7, <1>8, LookupCounts DEF m, hits
<1>10. hits = Hits
  BY DEF Hits
<1> HIDE DEF q, m, hits
<1>11. Len(Hits) \in Nat
  BY <1>4 DEF HitsFit
<1>12. /\ StartAfterHits = Len(Hits) * BlockSize /\ StartAfterHits \in Nat
       /\ l - StartAfterHits \in Nat /\ l - StartAfterHits > 0
  <2>1. StartAfterHits = Len(Hits) * BlockSize /\ StartAfterHits \in Nat
    BY <1>11, ManagerAssumption DEF StartAfterHits
  <2> HIDE DEF l
  <2> QED BY <2>1, <1>7, <1>9, <1>10
<1>13. step.budget \in Nat /\ step.budget > 0
  BY <1>1 DEF AssertInv, WithinLimits, Numbers, OutNumbers, InWaitingLoop
<1> DEFINE rest == l - StartAfterHits
<1>14. /\ WaitingNewTokens > 0 /\ WaitingNewTokens \in 0 .. rest
       /\ WaitingNewTokens <= step.budget
  <2>1. WaitingNewTokens = Limited(rest)
    BY <1>12 DEF WaitingNewTokens, q
  <2> HIDE DEF rest
  <2> QED BY <2>1, <1>12, <1>13, LimitedBounds DEF rest
<1>15. WaitingNewTokens \in Nat \ {0} /\ n \in 0 .. WaitingNewTokens
  <2>1. WaitingNewTokens \in Nat \ {0}
    BY <1>12, <1>14
  <2> QED BY <2>1, <1>2, <1>12, PlanBounds DEF WaitingPlan
<1>16. n \in Nat /\ n <= step.budget /\ StartAfterHits + n <= l
  <2> HIDE DEF n, l
  <2> QED BY <1>7, <1>12, <1>13, <1>14, <1>15
<1>17. ASSUME n # 0 PROVE Allocatable(m, First, q, n, Hits)
  <2>1. q.computed + Len(Hits) * BlockSize + n <= l
    BY <1>5, <1>12, <1>16
  <2>2. EnableCaching => /\ CacheCounts(m) /\ Len(Hits) <= Len(m.hashes[First])
                         /\ m.ncached[First] = Absent
    BY <1>4, <1>6, <1>9, <1>10
  <2>3. HitsFit(m.pool, Hits) /\ m.blocks[First] = << >>
    BY <1>4, <1>6
  <2> HIDE DEF n
  <2> QED BY <2>1, <2>2, <2>3, <1>5, <1>7, <1>9, <1>16, <1>17 DEF Allocatable
<1> QED BY <1>2, <1>3, <1>4, <1>5, <1>6, <1>9, <1>12, <1>15, <1>16, <1>17 DEF q, m

\* Without drafts none are scheduled.
LEMMA NothingTrimmed ==
  ASSUME NEW q, NEW n \in Int, q.spec = << >>, q.computed \in Int, Len(q.tokens) \in Int
  PROVE  TrimmedSpec(q, n) = << >>
<1> DEFINE room == n + q.computed - Len(q.tokens)
<1>1. room \in Int /\ Len(q.spec) = 0
  OBVIOUS
<1>2. room > 0 => SubSeq(q.spec, 1, Smaller(room, Len(q.spec))) = << >>
  <2> HIDE DEF room
  <2>1. room > 0 => Smaller(room, Len(q.spec)) = 0
    BY <1>1 DEF Smaller
  <2>2. SubSeq(<< >>, 1, 0) = << >>
    OBVIOUS
  <2> QED BY <2>1, <2>2
<1> QED BY <1>2 DEF TrimmedSpec

\* A running request is scheduled: the allocation cannot fail an assertion.
LEMMA ScheduleRunningAsserts ==
  ASSUME Plain, KVInv, AssertInv, ScheduleRunning, UNCHANGED batches
  PROVE  AssertInv'
<1>0. PICK c \in Reqs : c = Current
  BY RunningAccount DEF ScheduleRunning
<1> DEFINE q == req[c]
           n == RunningPlan.n
           res == RunningAllocation
           e == Scheduled(q, "running", q.computed, RunningPlan, res.blocks, TrimmedSpec(q, n))
           none == << >>
<1>1. /\ InRunningLoop /\ QueueInv /\ Numbers /\ ManagerInv(kv) /\ SlidingWindow = 0
  BY DEF KVInv, Plain, ScheduleRunning
<1>2. /\ c \in Reqs /\ c \notin DOMAIN step.out /\ q.status = "running"
      /\ n \in Nat /\ n <= step.budget
      /\ n # 0 => Allocatable(kv, c, q, n, none)
  BY <1>0, <1>1, RunningAccount
<1>3. TrimmedSpec(q, n) = << >>
  <2>1. q.spec = << >>
    BY <1>2 DEF AssertInv, Fits
  <2>2. q.computed \in Int /\ Len(q.tokens) \in Int /\ n \in Int
    BY <1>1, <1>2 DEF Numbers, RequestNumbers
  <2> HIDE DEF q, n
  <2> QED BY <2>1, <2>2, NothingTrimmed
<1>4. /\ n # 0 /\ res.outcome # "full" /\ dead' = (res.outcome = "assert")
      /\ kv' = res.m /\ req' = req /\ UNCHANGED running
      /\ step' = [step EXCEPT !.i = @ + 1, !.budget = @ - n,
                              !.out = WithScheduled(@, c, e)]
  BY <1>0, <1>3 DEF ScheduleRunning, ScheduleCurrent
<1>5. e.n = n /\ e.spec = << >>
  BY <1>3 DEF Scheduled
<1> DEFINE total == q.computed + n
<1>6. /\ res.outcome = "ok"
      /\ EnableCaching => CacheCounts(kv') /\ kv'.ncached[c] = total \div BlockSize
      /\ \A s \in Reqs : s # c => kv'.hashes[s] = kv.hashes[s]
      /\ HashesOfTokens(kv', c, q.tokens)
  <2>1. res = AllocateSlots(kv, c, q, n, none, 0)
    BY <1>0 DEF RunningAllocation, Plain
  <2>2. none = << >> /\ Len(none) * BlockSize = 0 /\ q.computed \in Nat
    <3>1. Len(none) = 0
      OBVIOUS
    <3>2. Len(none) * BlockSize = 0
      BY <3>1, ManagerAssumption
    <3> QED BY <3>2, <1>2, <1>4 DEF Allocatable
  <2>3. total = q.computed + Len(none) * BlockSize + n
    <3> HIDE DEF none, q, n
    <3> QED BY <2>2, <1>2
  <2> HIDE DEF none, q, n, res, total
  <2> QED BY <2>1, <2>3, <1>1, <1>2, <1>4, AllocateSlotsCounts
<1>7. OnlyOf(c, kv, kv')
  <2>1. ManagerShape(kv)
    BY <1>1 DEF QueueInv, Shapes
  <2> QED BY <2>1, <1>0, <1>2, <1>4, AllocateSlotsOnlyOf DEF RunningAllocation
<1> HIDE DEF e, res
<1>8. /\ step'.i = step.i + 1 /\ step'.budget = step.budget - n /\ step'.pc = step.pc
      /\ step'.out = WithScheduled(step.out, c, e) /\ step.pc = "running"
  <2> HIDE DEF n
  <2> QED BY <1>1, <1>4 DEF QueueInv, Shapes, StepShape, InRunningLoop
<1>9. /\ DOMAIN step'.out = DOMAIN step.out \cup {c}
      /\ \A s \in DOMAIN step'.out : step'.out[s] = IF s = c THEN e ELSE step.out[s]
  BY <1>8 DEF WithScheduled
<1>10. /\ AdvancedTo(c)' = total /\ AdvancedTo(c) = q.computed
       /\ \A s \in Reqs : s # c => AdvancedTo(s)' = AdvancedTo(s)
  <2>1. AdvancedTo(c)' = total
    BY <1>4, <1>5, <1>9 DEF AdvancedTo
  <2>2. AdvancedTo(c) = q.computed
    BY <1>1, <1>2 DEF AdvancedTo, Numbers, RequestNumbers
  <2>3. ASSUME NEW s \in Reqs, s # c PROVE AdvancedTo(s)' = AdvancedTo(s)
    BY <2>3, <1>4, <1>9 DEF AdvancedTo
  <2> QED BY <2>1, <2>2, <2>3
<1>11. total <= Len(q.tokens)
  <2>1. Allocatable(kv, c, q, n, none) /\ Len(none) * BlockSize = 0
    <3>1. Len(none) = 0
      OBVIOUS
    <3> QED BY <3>1, <1>2, <1>4, ManagerAssumption
  <2> HIDE DEF none, q, n
  <2> QED BY <2>1 DEF Allocatable
<1>12. ASSUME NEW s \in Reqs PROVE Fits(s)'
  <2>1. Fits(s)
    BY DEF AssertInv
  <2>2. CASE s # c
    BY <2>1, <2>2, <1>4, <1>6, <1>10, FitsSame
  <2>3. CASE s = c
    <3>1. Fits(c)' <=> /\ q.spec = << >>
                       /\ Len(q.tokens) <= MaxModelLen
                       /\ q.status \in Queued \cup {"running"} <=> q.tokens # << >>
                       /\ HashesOfTokens(kv', c, q.tokens)
                       /\ 0 <= q.computed /\ total <= Len(q.tokens)
                       /\ q.status # "running" => q.computed = 0
      BY <1>4, <1>10 DEF Fits
    <3> HIDE DEF total
    <3> QED BY <2>1, <2>3, <3>1, <1>6, <1>11 DEF Fits
  <2> QED BY <2>2, <2>3
<1> HIDE DEF total
<1>13. WithinLimits'
  <2>1. step'.budget >= 0
    <3> HIDE DEF n
    <3> QED BY <1>1, <1>2, <1>8 DEF Numbers, OutNumbers
  <2>2. c \in Range(running) /\ n > 0
    BY <1>0, <1>1, <1>2, <1>4, CurrentRuns DEF InRunningLoop
  <2>3. \A s \in DOMAIN step'.out : /\ s \in Range(running)
                                    /\ step'.out[s].n > 0 /\ step'.out[s].spec = << >>
    BY <2>2, <1>5, <1>9 DEF AssertInv, WithinLimits
  <2>4. ASSUME NEW j \in DOMAIN running, running[j] \in DOMAIN step'.out
        PROVE  j < step.i + 1
    <3>1. step.i \in DOMAIN running /\ step.i \in Nat /\ j \in Nat
      BY <1>1 DEF QueueInv, Shapes, StepShape, InRunningLoop
    <3>2. CASE running[j] = c
      <4>1. j = step.i
        BY <3>1, <3>2, <1>0, <1>1 DEF Current, QueueInv, NoRepetition, IsInjective
      <4> QED BY <4>1, <3>1
    <3>3. CASE running[j] # c
      <4>1. j < step.i
        BY <3>3, <2>4, <1>8, <1>9 DEF AssertInv, WithinLimits
      <4> QED BY <4>1, <3>1
    <3> QED BY <3>2, <3>3
  <2> QED BY <2>1, <2>3, <2>4, <1>4, <1>8 DEF AssertInv, WithinLimits
<1>14. FullBlocksCached'
  <2> SUFFICES ASSUME EnableCaching, NEW s \in Reqs, req[s].status = "running"
               PROVE  kv'.ncached[s] = AdvancedTo(s)' \div BlockSize
    BY <1>4, <1>6 DEF FullBlocksCached
  <2>1. CASE s = c
    BY <2>1, <1>6, <1>10
  <2>2. CASE s # c
    BY <2>2, <1>7, <1>10 DEF OnlyOf, AssertInv, FullBlocksCached
  <2> QED BY <2>1, <2>2
<1>15. NoDraftsInFlight'
  BY DEF AssertInv, NoDraftsInFlight
<1>16. ~ dead'
  BY <1>4, <1>6
<1> QED BY <1>12, <1>13, <1>14, <1>15, <1>16 DEF AssertInv, NoAssertionFailure

\* No blocks for the running request: the victim has no tokens scheduled, and its
\* count goes with its blocks.
LEMMA PreemptAsserts ==
  ASSUME Plain, KVInv, AssertInv, Preempt, UNCHANGED batches
  PROVE  AssertInv'
<1>0. PICK c \in Reqs : c = Current
  BY RunningAccount DEF Preempt
<1>1. PICK v : v = Victim
  OBVIOUS
<1> DEFINE q == req[c]
           n == RunningPlan.n
           res == RunningAllocation
           none == << >>
<1>2. /\ InRunningLoop /\ QueueInv /\ Numbers /\ ManagerInv(kv) /\ SlidingWindow = 0
      /\ step.pc = "running"
  BY DEF KVInv, Plain, Preempt, InRunningLoop
<1>3. /\ n # 0 /\ res.outcome = "full" /\ running' = Without(running, {v})
      /\ req' = [req EXCEPT ![v] = Preempted(@)] /\ kv' = Free(res.m, v)
      /\ step' = [step EXCEPT !.preempted = TRUE]
      /\ dead' = dead
  BY <1>1 DEF Preempt
<1>4. running \in Seq(Reqs) /\ running # << >> /\ IsInjective(running) /\ v = running[Len(running)]
  BY <1>1, <1>2 DEF QueueInv, Shapes, StepShape, NoRepetition, Victim, InRunningLoop
<1>5. Len(running) \in DOMAIN running /\ step.i <= Len(running) /\ step.i \in Nat
  BY <1>2, <1>4 DEF QueueInv, Shapes, StepShape, InRunningLoop
<1>6. v \in Reqs /\ v \in Range(running) /\ v \notin DOMAIN step.out
  <2>1. v \in Reqs /\ v \in Range(running)
    BY <1>4, <1>5, RangeFacts
  <2>2. v \in DOMAIN step.out => Len(running) < step.i
    BY <1>2, <1>4, <1>5 DEF AssertInv, WithinLimits
  <2>3. Len(running) \in Nat
    BY <1>4
  <2> QED BY <2>1, <2>2, <2>3, <1>5
<1>7. /\ ManagerInv(res.m) /\ OnlyOf(c, kv, res.m)
      /\ EnableCaching => CacheCounts(res.m)
      /\ res.m.ncached = kv.ncached
      /\ \A s \in Reqs : s # c => res.m.hashes[s] = kv.hashes[s]
      /\ HashesOfTokens(res.m, c, q.tokens)
  <2>1. Allocatable(kv, c, q, n, none)
    BY <1>0, <1>2, <1>3, RunningAccount
  <2>2. res = AllocateSlots(kv, c, q, n, none, 0)
    BY <1>0 DEF RunningAllocation, Plain
  <2>3. ManagerInv(res.m)
    BY <1>2, RunningAllocationKeeps
  <2>4. ManagerShape(kv)
    BY <1>2 DEF QueueInv, Shapes
  <2> HIDE DEF none, q, n, res
  <2>5. OnlyOf(c, kv, res.m)
    BY <2>2, <2>4, AllocateSlotsOnlyOf
  <2> QED BY <2>1, <2>2, <2>3, <2>5, <1>2, <1>3, AllocateSlotsCounts
<1> HIDE DEF res
<1>8. /\ EnableCaching => CacheCounts(kv')
      /\ \A s \in Reqs : kv'.hashes[s] = res.m.hashes[s]
      /\ \A s \in Reqs : s # v => kv'.ncached[s] = kv.ncached[s]
  <2>1. kv'.hashes = res.m.hashes
    BY <1>3, <1>6, <1>7, FreeKeeps
  <2>2. OnlyOf(v, res.m, kv')
    BY <1>3, <1>6, <1>7, FreeOnlyOf DEF ManagerInv
  <2> QED BY <2>1, <2>2, <1>3, <1>6, <1>7, FreeCounts DEF OnlyOf
<1>9. /\ req'[v] = Preempted(req[v]) /\ \A s \in Reqs : s # v => req'[s] = req[s]
      /\ req'[v].status = "preempted" /\ req'[v].computed = 0
      /\ req'[v].tokens = req[v].tokens /\ req'[v].spec = req[v].spec
  BY <1>2, <1>3, <1>6 DEF QueueInv, Shapes, Preempted
<1>10. /\ step'.out = step.out /\ step'.budget = step.budget /\ step'.i = step.i
       /\ step'.pc \in {"running", "end"}
  BY <1>2, <1>3 DEF QueueInv, Shapes, StepShape
<1>11. /\ AdvancedTo(v)' = 0 /\ \A s \in Reqs : s # v => AdvancedTo(s)' = AdvancedTo(s)
  BY <1>6, <1>9, <1>10 DEF AdvancedTo
<1>12. \A s \in Reqs : HashesOfTokens(kv', s, req[s].tokens)
  <2>1. ASSUME NEW s \in Reqs PROVE HashesOfTokens(kv', s, req[s].tokens)
    <3>1. CASE s = c
      BY <3>1, <1>7, <1>8 DEF HashesOfTokens
    <3>2. CASE s # c
      <4>1. Fits(s)
        BY DEF AssertInv
      <4> QED BY <4>1, <3>2, <1>7, <1>8 DEF HashesOfTokens, Fits
    <3> QED BY <3>1, <3>2
  <2> QED BY <2>1
<1>13. ASSUME NEW s \in Reqs PROVE Fits(s)'
  <2>1. Fits(s)
    BY DEF AssertInv
  <2>2. CASE s # v
    BY <2>1, <2>2, <1>9, <1>11, <1>12 DEF Fits
  <2>3. CASE s = v
    <3>1. Len(req[v].tokens) \in Nat /\ req[v].tokens # << >>
      <4>1. req[v].tokens \in Seq(Nat)
        BY <1>2, <1>6 DEF Numbers, RequestNumbers
      <4>2. req[v].status = "running"
        BY <1>2, <1>6 DEF QueueInv, StatusesMatch, Live
      <4> QED BY <4>1, <4>2, <2>1, <2>3 DEF Fits
    <3> QED BY <2>1, <2>3, <3>1, <1>9, <1>11, <1>12 DEF Fits, Queued
  <2> QED BY <2>2, <2>3
<1>14. WithinLimits'
  <2>1. /\ running' \in Seq(Reqs) /\ Range(running') = Range(running) \ {v}
        /\ Len(running') = Len(running) - 1
        /\ \A j \in 1 .. Len(running) - 1 : running'[j] = running[j]
    <3>1. running' \in Seq(Reqs) /\ Range(running') = Range(running) \ {v}
      BY <1>3, <1>4, WithoutFacts
    <3>2. /\ Len(Without(running, {running[Len(running)]})) = Len(running) - 1
          /\ \A j \in 1 .. Len(running) - 1 :
               Without(running, {running[Len(running)]})[j] = running[j]
      BY <1>4, WithoutLast
    <3> QED BY <3>1, <3>2, <1>3, <1>4
  <2>2. Len(running) \in Nat /\ DOMAIN running = 1 .. Len(running)
        /\ DOMAIN running' = 1 .. Len(running) - 1
    BY <1>4, <2>1
  <2>3. Len(running') <= MaxNumRunningReqs
    <3>1. Len(running) <= MaxNumRunningReqs /\ MaxNumRunningReqs \in Nat
      BY SchedulerAssumption DEF AssertInv, WithinLimits
    <3> QED BY <3>1, <2>1, <2>2
  <2>4. \A s \in DOMAIN step'.out : /\ s \in Range(running')
                                    /\ step'.out[s].n > 0 /\ step'.out[s].spec = << >>
    BY <2>1, <1>6, <1>10 DEF AssertInv, WithinLimits
  <2>5. ASSUME NEW j \in DOMAIN running', running'[j] \in DOMAIN step'.out
        PROVE  j < step'.i
    <3>1. j \in DOMAIN running /\ running[j] = running'[j]
      BY <2>1, <2>2
    <3> QED BY <3>1, <2>5, <1>2, <1>10 DEF AssertInv, WithinLimits
  <2> QED BY <2>3, <2>4, <2>5, <1>10 DEF AssertInv, WithinLimits
<1>15. FullBlocksCached'
  <2> SUFFICES ASSUME EnableCaching, NEW s \in Reqs, req'[s].status = "running"
               PROVE  kv'.ncached[s] = AdvancedTo(s)' \div BlockSize
    BY <1>8 DEF FullBlocksCached
  <2>1. s # v
    BY <1>9
  <2> QED BY <2>1, <1>8, <1>9, <1>11 DEF AssertInv, FullBlocksCached
<1>16. NoDraftsInFlight'
  BY DEF AssertInv, NoDraftsInFlight
<1> QED BY <1>3, <1>13, <1>14, <1>15, <1>16 DEF AssertInv, NoAssertionFailure

\* A request is admitted: it has a token to compute, and the allocation cannot
\* fail an assertion.
LEMMA AdmitWaitingAsserts ==
  ASSUME Plain, KVInv, AssertInv, AdmitWaiting, UNCHANGED batches
  PROVE  AssertInv'
<1>0. PICK f \in Reqs : f = First
  BY WaitingAccount DEF AdmitWaiting, Admissible
<1> DEFINE q == req[f]
           n == WaitingPlan.n
           m == AfterLookup(kv, f, q)
           res == WaitingAllocation
           Entry(g) == Scheduled(req[g], IF req[g].status = "preempted" THEN "resumed"
                                         ELSE "new",
                                 StartAfterHits, WaitingPlan, Hits \o res.blocks, << >>)
           e == Entry(f)
<1>1. /\ InWaitingLoop /\ QueueInv /\ Numbers /\ SlidingWindow = 0 /\ step.pc = "waiting"
  BY DEF KVInv, Plain, AdmitWaiting, Admissible, InWaitingLoop
<1>2. /\ f \notin DOMAIN step.out /\ q.status \in Queued /\ f \notin Range(running)
      /\ q.computed = 0 /\ WaitingNewTokens \in Nat \ {0} /\ StartAfterHits \in Nat
      /\ n \in Nat /\ n <= step.budget
      /\ ManagerInv(m) /\ (EnableCaching => CacheCounts(m))
      /\ m.ncached = kv.ncached
      /\ \A s \in Reqs : s # f => m.hashes[s] = kv.hashes[s]
      /\ n # 0 => Allocatable(m, f, q, n, Hits)
  BY <1>0, <1>1, WaitingAccount
<1>3. /\ WaitingNewTokens <= 0 \/ (n # 0 /\ res.outcome # "full")
      /\ dead' = (WaitingNewTokens <= 0 \/ res.outcome = "assert")
      /\ kv' = res.m /\ running' = Append(running, f)
      /\ req' = [req EXCEPT ![f].status = "running", ![f].computed = StartAfterHits]
      /\ step' = [step EXCEPT !.budget = @ - n, !.out = WithScheduled(@, f, e)]
  <2>1. /\ WaitingNewTokens <= 0 \/ (n # 0 /\ res.outcome # "full")
        /\ dead' = (WaitingNewTokens <= 0 \/ res.outcome = "assert")
        /\ kv' = res.m /\ running' = Append(running, First)
        /\ req' = [req EXCEPT ![First].status = "running",
                              ![First].computed = StartAfterHits]
        /\ step' = [step EXCEPT !.budget = @ - n,
                                !.out = WithScheduled(@, First, Entry(First))]
    BY DEF AdmitWaiting, AdmitFirst
  <2> HIDE DEF Entry, res, n
  <2> QED BY <2>1, <1>0
<1>4. n # 0 /\ res.outcome # "full" /\ dead' = (res.outcome = "assert")
  BY <1>2, <1>3
<1>5. e.n = n /\ e.spec = << >>
  BY DEF Scheduled
<1> DEFINE total == StartAfterHits + n
<1>6. /\ res.outcome = "ok" /\ total \in Nat /\ total <= Len(q.tokens)
      /\ EnableCaching => CacheCounts(kv') /\ kv'.ncached[f] = total \div BlockSize
      /\ \A s \in Reqs : s # f => kv'.hashes[s] = kv.hashes[s]
      /\ HashesOfTokens(kv', f, q.tokens)
  <2>1. res = AllocateSlots(m, f, q, n, Hits, 0)
    BY <1>0 DEF WaitingAllocation, Plain
  <2>2. Allocatable(m, f, q, n, Hits)
    BY <1>2, <1>4
  <2>3. total = q.computed + Len(Hits) * BlockSize + n /\ total \in Nat
    <3>1. StartAfterHits = Len(Hits) * BlockSize
      BY DEF StartAfterHits
    <3> HIDE DEF n, q
    <3> QED BY <3>1, <1>2
  <2>4. total <= Len(q.tokens)
    BY <2>2, <2>3 DEF Allocatable
  <2> HIDE DEF q, n, res, total, m
  <2> QED BY <2>1, <2>2, <2>3, <2>4, <1>1, <1>2, <1>3, <1>4, AllocateSlotsCounts
<1>7. OnlyOf(f, kv, kv')
  BY <1>0, <1>1, <1>3, WaitingAllocationOnlyOf
<1> HIDE DEF e, res, m
<1>8. /\ step'.i = step.i /\ step'.budget = step.budget - n /\ step'.pc = step.pc
      /\ step'.out = WithScheduled(step.out, f, e)
  <2> HIDE DEF n
  <2> QED BY <1>1, <1>3 DEF QueueInv, Shapes, StepShape
<1>9. /\ DOMAIN step'.out = DOMAIN step.out \cup {f}
      /\ \A s \in DOMAIN step'.out : step'.out[s] = IF s = f THEN e ELSE step.out[s]
  BY <1>8 DEF WithScheduled
<1>10. /\ req'[f].status = "running" /\ req'[f].computed = StartAfterHits
       /\ req'[f].tokens = q.tokens /\ req'[f].spec = q.spec
       /\ \A s \in Reqs : s # f => req'[s] = req[s]
  BY <1>1, <1>3 DEF QueueInv, Shapes
<1>11. /\ AdvancedTo(f)' = total
       /\ \A s \in Reqs : s # f => AdvancedTo(s)' = AdvancedTo(s)
  <2>1. AdvancedTo(f)' = total
    BY <1>5, <1>9, <1>10 DEF AdvancedTo
  <2>2. ASSUME NEW s \in Reqs, s # f PROVE AdvancedTo(s)' = AdvancedTo(s)
    BY <2>2, <1>9, <1>10 DEF AdvancedTo
  <2> QED BY <2>1, <2>2
<1>12. ASSUME NEW s \in Reqs PROVE Fits(s)'
  <2>1. Fits(s)
    BY DEF AssertInv
  <2>2. CASE s # f
    BY <2>1, <2>2, <1>6, <1>10, <1>11, FitsSame
  <2>3. CASE s = f
    <3> HIDE DEF total
    <3> QED BY <2>1, <2>3, <1>2, <1>6, <1>10, <1>11 DEF Fits
  <2> QED BY <2>2, <2>3
<1> HIDE DEF total
<1>13. WithinLimits'
  <2>1. step'.budget >= 0
    <3> HIDE DEF n
    <3> QED BY <1>1, <1>2, <1>8 DEF Numbers, OutNumbers
  <2>2. /\ Range(running') = Range(running) \cup {f} /\ Len(running') = Len(running) + 1
        /\ Len(running) \in Nat
    <3>1. running \in Seq(Reqs)
      BY <1>1 DEF QueueInv, Shapes
    <3> QED BY <3>1, <1>3, AppendFacts
  <2>3. Len(running') <= MaxNumRunningReqs
    <3>1. /\ Len(running) <= MaxNumRunningReqs /\ MaxNumRunningReqs \in Nat
          /\ Len(running) # MaxNumRunningReqs
      BY <1>1, SchedulerAssumption DEF AssertInv, WithinLimits, InWaitingLoop
    <3> QED BY <3>1, <2>2
  <2>4. n > 0
    <3> HIDE DEF n
    <3> QED BY <1>2, <1>4
  <2>5. \A s \in DOMAIN step'.out : /\ s \in Range(running')
                                    /\ step'.out[s].n > 0 /\ step'.out[s].spec = << >>
    BY <2>2, <2>4, <1>5, <1>9 DEF AssertInv, WithinLimits
  <2> QED BY <2>1, <2>3, <2>5, <1>1, <1>8 DEF WithinLimits
<1>14. FullBlocksCached'
  <2> SUFFICES ASSUME EnableCaching, NEW s \in Reqs, req'[s].status = "running"
               PROVE  kv'.ncached[s] = AdvancedTo(s)' \div BlockSize
    BY <1>6 DEF FullBlocksCached
  <2>1. CASE s = f
    BY <2>1, <1>6, <1>11
  <2>2. CASE s # f
    BY <2>2, <1>7, <1>10, <1>11 DEF OnlyOf, AssertInv, FullBlocksCached
  <2> QED BY <2>1, <2>2
<1>15. NoDraftsInFlight'
  BY DEF AssertInv, NoDraftsInFlight
<1>16. ~ dead'
  BY <1>4, <1>6
<1> QED BY <1>12, <1>13, <1>14, <1>15, <1>16 DEF AssertInv, NoAssertionFailure

\* A waiting request that is not admitted may know its hashes now.
LEMMA NotAdmittedAsserts ==
  ASSUME Plain, KVInv, AssertInv, AdmissionFull \/ AdmissionAwaitsEncoder,
         UNCHANGED batches
  PROVE  AssertInv'
<1>0. PICK f \in Reqs : f = First
  BY WaitingAccount DEF AdmissionFull, AdmissionAwaitsEncoder, Admissible
<1> DEFINE q == req[f]
           n == WaitingPlan.n
           m == AfterLookup(kv, f, q)
           res == WaitingAllocation
<1>1. /\ InWaitingLoop /\ QueueInv /\ SlidingWindow = 0 /\ step.pc = "waiting"
      /\ running' = running /\ dead' = dead /\ step' = [step EXCEPT !.pc = "end"]
      /\ req' = IF req[f].status = "waiting_fsm"
                THEN [req EXCEPT ![f].status = "waiting"] ELSE req
  BY <1>0 DEF KVInv, Plain, AdmissionFull, AdmissionAwaitsEncoder, Admissible, InWaitingLoop
<1>2. /\ q.status \in Queued
      /\ ManagerInv(m) /\ (EnableCaching => CacheCounts(m)) /\ m.ncached = kv.ncached
      /\ \A s \in Reqs : s # f => m.hashes[s] = kv.hashes[s]
      /\ HashesOfTokens(m, f, q.tokens)
      /\ n # 0 => Allocatable(m, f, q, n, Hits)
  BY <1>0, <1>1, WaitingAccount
<1>3. /\ EnableCaching => CacheCounts(kv')
      /\ kv'.ncached = kv.ncached
      /\ \A s \in Reqs : s # f => kv'.hashes[s] = kv.hashes[s]
      /\ HashesOfTokens(kv', f, q.tokens)
  <2>1. CASE AdmissionAwaitsEncoder
    <3>1. kv' = m
      BY <2>1, <1>0 DEF AdmissionAwaitsEncoder
    <3> QED BY <3>1, <1>2
  <2>2. CASE AdmissionFull
    <3>1. kv' = res.m /\ res.outcome = "full" /\ n # 0
      BY <2>2 DEF AdmissionFull
    <3>2. res = AllocateSlots(m, f, q, n, Hits, 0)
      BY <1>0 DEF WaitingAllocation, Plain
    <3> HIDE DEF res, m, n, q
    <3> QED BY <3>1, <3>2, <1>1, <1>2, AllocateSlotsCounts
  <2> QED BY <2>1, <2>2
<1> HIDE DEF m, res, n
<1>4. \A s \in Reqs : /\ req'[s].tokens = req[s].tokens /\ req'[s].computed = req[s].computed
                      /\ req'[s].spec = req[s].spec
                      /\ \/ req'[s].status = req[s].status
                         \/ req[s].status \in Queued /\ req'[s].status \in Queued
  BY <1>1, <1>2 DEF QueueInv, Shapes, Queued
<1>5. /\ step'.out = step.out /\ step'.budget = step.budget /\ step'.pc = "end"
  BY <1>1 DEF QueueInv, Shapes, StepShape
<1>6. \A s \in Reqs : AdvancedTo(s)' = AdvancedTo(s)
  BY <1>4, <1>5 DEF AdvancedTo
<1>7. ASSUME NEW s \in Reqs PROVE Fits(s)'
  <2>1. Fits(s)
    BY DEF AssertInv
  <2>2. HashesOfTokens(kv', s, req[s].tokens)
    <3>1. CASE s = f
      BY <3>1, <1>3
    <3>2. CASE s # f
      BY <3>2, <2>1, <1>3 DEF HashesOfTokens, Fits
    <3> QED BY <3>1, <3>2
  <2> QED BY <2>1, <2>2, <1>4, <1>6 DEF Fits, Queued
<1>8. FullBlocksCached'
  BY <1>3, <1>4, <1>6 DEF AssertInv, FullBlocksCached, Queued
<1>9. WithinLimits' /\ NoDraftsInFlight'
  BY <1>1, <1>5 DEF AssertInv, WithinLimits, NoDraftsInFlight
<1> QED BY <1>1, <1>7, <1>8, <1>9 DEF AssertInv, NoAssertionFailure

\* The other steps of schedule() allocate nothing.
LEMMA ScheduleStepAsserts ==
  ASSUME Plain, KVInv, AssertInv, ScheduleStep, UNCHANGED batches
  PROVE  AssertInv'
<1>1. QueueInv
  BY DEF KVInv
<1>2. NoDraftsInFlight'
  BY DEF AssertInv, NoDraftsInFlight
<1>3. CASE SkipRunning \/ EndRunningLoop \/ EndWaitingLoop
  <2>0. ~ dead
    BY DEF AssertInv, NoAssertionFailure
  <2>1. /\ req' = req /\ kv' = kv /\ running' = running /\ ~ dead'
    <3>1. CASE SkipRunning
      BY <3>1, <2>0 DEF SkipRunning
    <3>2. CASE EndRunningLoop
      <4>1. ~ (MaxLoras > 0)
        BY DEF Plain
      <4> QED BY <4>1, <3>2 DEF EndRunningLoop
    <3>3. CASE EndWaitingLoop
      BY <3>3, <2>0 DEF EndWaitingLoop
    <3> QED BY <3>1, <3>2, <3>3, <1>3
  <2>2. /\ step.pc \in {"running", "waiting"}
        /\ step' = [step EXCEPT !.i = @ + 1]
             \/ \E p \in {"waiting", "end"} : step' = [step EXCEPT !.pc = p]
    BY <1>3 DEF SkipRunning, InRunningLoop, EndRunningLoop, EndWaitingLoop
  <2>3. /\ step'.out = step.out /\ step'.budget = step.budget
        /\ \/ step'.pc = step.pc /\ step'.i = step.i + 1 /\ step.i \in Nat
           \/ step'.pc \in {"waiting", "end"}
    BY <2>2, <1>1 DEF QueueInv, Shapes, StepShape
  <2>4. WithinLimits'
    <3>1. ASSUME step'.pc = "running", NEW j \in DOMAIN running,
                 running[j] \in DOMAIN step.out
          PROVE  j < step'.i
      <4>1. j < step.i /\ step'.i = step.i + 1 /\ step.i \in Nat
        BY <3>1, <2>3 DEF AssertInv, WithinLimits
      <4>2. j \in Nat
        <5>1. running \in Seq(Reqs)
          BY <1>1 DEF QueueInv, Shapes
        <5> QED BY <5>1
      <4> QED BY <4>1, <4>2
    <3>2. step'.pc \notin {"idle", "update"}
      BY <2>2, <2>3
    <3> QED BY <3>1, <3>2, <2>1, <2>3 DEF AssertInv, WithinLimits
  <2> QED BY <2>1, <2>3, <2>4, <1>1, <1>2, AccountSame
<1>4. CASE SkipWaiting
  <2> DEFINE f == First
  <2>1. /\ InWaitingLoop /\ kv' = kv /\ running' = running /\ dead' = dead
        /\ req' = req \/ (req[f].status = "waiting_fsm"
                            /\ req' = [req EXCEPT ![f].status = "waiting"])
        /\ \E s : step' = [step EXCEPT !.skipped = s]
    BY <1>4 DEF SkipWaiting
  <2>2. f \in Reqs /\ step.pc = "waiting"
    BY <2>1, <1>1, FirstWaits DEF InWaitingLoop
  <2> HIDE DEF f
  <2>3. \A s \in Reqs : /\ req'[s].tokens = req[s].tokens
                        /\ req'[s].computed = req[s].computed
                        /\ req'[s].spec = req[s].spec
                        /\ \/ req'[s].status = req[s].status
                           \/ req[s].status \in Queued /\ req'[s].status \in Queued
    BY <2>1, <2>2, <1>1 DEF QueueInv, Shapes, Queued
  <2>4. step'.out = step.out /\ step'.budget = step.budget /\ step'.pc = "waiting"
    BY <2>1, <2>2, <1>1 DEF QueueInv, Shapes, StepShape
  <2>5. WithinLimits'
    BY <2>1, <2>4 DEF AssertInv, WithinLimits
  <2> QED BY <2>1, <2>3, <2>4, <2>5, <1>1, <1>2, AccountSame DEF AssertInv, NoAssertionFailure
<1> QED BY <1>3, <1>4, ScheduleRunningAsserts, PreemptAsserts, AdmitWaitingAsserts,
           NotAdmittedAsserts DEF ScheduleStep

\* At the end of schedule() the counts of computed tokens move on.
LEMMA EndScheduleRequests ==
  ASSUME KVInv, NEW p, EndSchedule(p)
  PROVE  \A r \in Reqs : /\ req'[r].status = req[r].status /\ req'[r].tokens = req[r].tokens
                         /\ req'[r].spec = req[r].spec
                         /\ req'[r].computed = AdvancedTo(r) /\ AdvancedTo(r)' = AdvancedTo(r)
                         /\ req[r].computed \in Int
<1>1. /\ req' = [r \in Reqs |-> IF r \in DOMAIN step.out
                                THEN Advanced(req[r], step.out[r].n) ELSE req[r]]
      /\ step' = [NoStep EXCEPT !.pc = p, !.i = 1]
  BY DEF EndSchedule
<1>2. QueueInv /\ Numbers
  BY DEF KVInv
<1>3. DOMAIN step'.out = {}
  BY <1>1 DEF NoStep
<1> SUFFICES ASSUME NEW r \in Reqs
             PROVE  /\ req'[r].status = req[r].status /\ req'[r].tokens = req[r].tokens
                    /\ req'[r].spec = req[r].spec
                    /\ req'[r].computed = AdvancedTo(r) /\ AdvancedTo(r)' = AdvancedTo(r)
                    /\ req[r].computed \in Int
  OBVIOUS
<1>4. /\ {"status", "tokens", "computed", "spec"} \subseteq DOMAIN req[r]
      /\ req[r].computed \in Int
  BY <1>2 DEF QueueInv, Shapes, Numbers, RequestNumbers
<1>5. CASE r \in DOMAIN step.out
  <2>1. req'[r] = [req[r] EXCEPT !.computed = @ + step.out[r].n] /\ step.out[r].n \in Int
    BY <1>5, <1>1, <1>2 DEF Advanced, Numbers, OutNumbers
  <2>2. AdvancedTo(r) = req[r].computed + step.out[r].n
    BY <1>5 DEF AdvancedTo
  <2>3. AdvancedTo(r)' = req'[r].computed
    BY <2>1, <1>3, <1>4 DEF AdvancedTo
  <2> QED BY <2>1, <2>2, <2>3, <1>4
<1>6. CASE r \notin DOMAIN step.out
  <2>1. req'[r] = req[r]
    BY <1>6, <1>1
  <2> QED BY <2>1, <1>3, <1>4, <1>6 DEF AdvancedTo
<1> QED BY <1>5, <1>6

\* The constraints asserted at the end of schedule() hold, and then the requests
\* advance.
LEMMA EndScheduleAsserts ==
  ASSUME KVInv, AssertInv, NEW p \in {"idle", "update"}, EndSchedule(p), NoDraftsInFlight'
  PROVE  AssertInv'
<1>1. /\ step.pc = "end" /\ dead' = ~ EndAsserts /\ kv' = kv /\ running' = running
      /\ req' = [r \in Reqs |-> IF r \in DOMAIN step.out
                                THEN Advanced(req[r], step.out[r].n) ELSE req[r]]
      /\ step' = [NoStep EXCEPT !.pc = p, !.i = 1]
  BY DEF EndSchedule
<1>2. QueueInv /\ Numbers
  BY DEF KVInv
<1>3. running \in Seq(Reqs) /\ IsInjective(running) /\ DOMAIN step.out \subseteq Range(running)
  BY <1>2 DEF QueueInv, Shapes, NoRepetition, AssertInv, WithinLimits
<1>4. EndAsserts
  <2>1. IsFiniteSet(Range(running)) /\ Cardinality(Range(running)) = Len(running)
    BY <1>3, CardinalityOfDistinct
  <2>2. Cardinality(DOMAIN step.out) <= Len(running)
    BY <2>1, <1>3, FS_Subset
  <2> QED BY <2>2 DEF EndAsserts, AssertInv, WithinLimits
<1>5. step'.budget = 0 /\ step'.pc = p /\ DOMAIN step'.out = {}
  BY <1>1 DEF NoStep
<1>6. ASSUME NEW r \in Reqs
      PROVE  /\ req'[r].status = req[r].status /\ req'[r].tokens = req[r].tokens
             /\ req'[r].spec = req[r].spec
             /\ req'[r].computed = AdvancedTo(r) /\ AdvancedTo(r)' = AdvancedTo(r)
             /\ req[r].computed \in Int
  BY EndScheduleRequests
<1>7. ASSUME NEW r \in Reqs PROVE Fits(r)'
  <2>1. Fits(r)
    BY DEF AssertInv
  <2>2. 0 <= req'[r].computed /\ (req[r].status # "running" => req'[r].computed = 0)
    <3>1. CASE r \in DOMAIN step.out
      <4>1. req[r].status = "running"
        BY <3>1, <1>1, <1>2, <1>3 DEF QueueInv, StatusesMatch, Live
      <4>2. AdvancedTo(r) = req[r].computed + step.out[r].n
            /\ step.out[r].n > 0 /\ step.out[r].n \in Int
        BY <3>1, <1>2 DEF AdvancedTo, AssertInv, WithinLimits, Numbers, OutNumbers
      <4> QED BY <4>1, <4>2, <2>1, <1>6 DEF Fits
    <3>2. CASE r \notin DOMAIN step.out
      BY <3>2, <2>1, <1>6 DEF Fits, AdvancedTo
    <3> QED BY <3>1, <3>2
  <2> QED BY <2>1, <2>2, <1>1, <1>6 DEF Fits, HashesOfTokens
<1>8. WithinLimits'
  BY <1>1, <1>5 DEF AssertInv, WithinLimits
<1>9. FullBlocksCached'
  BY <1>1, <1>6 DEF AssertInv, FullBlocksCached
<1> QED BY <1>1, <1>4, <1>7, <1>8, <1>9 DEF AssertInv, NoAssertionFailure

\* A batch without drafts is submitted.
LEMMA SubmitAsserts ==
  ASSUME KVInv, AssertInv, SubmitAndWait \/ Submit \/ NothingScheduled
  PROVE  AssertInv'
<1> DEFINE b == Batch(SchedulerOutput)
<1>1. \A r \in DOMAIN b : b[r].spec = << >>
  <2> DEFINE o == SchedulerOutput
             after == Execute(runner, o)
  <2>1. o.out = step.out
    BY DEF SchedulerOutput
  <2> SUFFICES ASSUME NEW r \in DOMAIN step.out PROVE b[r].spec = << >>
    BY <2>1 DEF Batch
  <2> DEFINE e == step.out[r]
             row == after.rows[r]
  <2>2. b[r].spec = FedDrafts(row, e)
    BY <2>1 DEF Batch
  <2>3. e.start \in Int /\ e.n \in Int /\ e.spec = << >>
    BY DEF KVInv, Numbers, OutNumbers, AssertInv, WithinLimits
  <2> HIDE DEF e, row, o, b
  <2> DEFINE j == e.start + e.n
  <2>4. j \in Int /\ e.start + e.n - Len(e.spec) + 1 = j + 1
    <3>1. Len(e.spec) = 0
      BY <2>3
    <3> QED BY <3>1, <2>3
  <2>5. FedDrafts(row, e) = SubSeq(row.tokens, j + 1, j)
    BY <2>4 DEF FedDrafts
  <2> HIDE DEF j
  <2>6. SubSeq(row.tokens, j + 1, j) = << >>
    BY <2>4
  <2> QED BY <2>2, <2>5, <2>6
<1>2. PICK S : batches \in Seq(S)
  BY DEF KVInv, Numbers, BatchNumbers
<1> HIDE DEF b
<1>3. CASE SubmitAndWait
  <2>1. EndSchedule("update") /\ batches' = <<b>>
    BY <1>3 DEF SubmitAndWait, b
  <2>2. NoDraftsInFlight'
    BY <2>1, <1>1 DEF NoDraftsInFlight
  <2> QED BY <2>1, <2>2, EndScheduleAsserts
<1>4. CASE Submit
  <2>1. EndSchedule("idle") /\ batches' = Append(batches, b)
    BY <1>4 DEF Submit, b
  <2>2. \A k \in DOMAIN batches' :
           batches'[k] = b \/ (k \in DOMAIN batches /\ batches'[k] = batches[k])
    BY <2>1, <1>2
  <2>3. NoDraftsInFlight'
    BY <2>2, <1>1 DEF NoDraftsInFlight, AssertInv
  <2> QED BY <2>1, <2>3, EndScheduleAsserts
<1>5. CASE NothingScheduled
  <2>1. batches' = batches /\ \E p \in {"idle", "update"} : EndSchedule(p)
    BY <1>5, Zenon DEF NothingScheduled
  <2>2. NoDraftsInFlight'
    BY <2>1 DEF AssertInv, NoDraftsInFlight
  <2> QED BY <2>1, <2>2, EndScheduleAsserts
<1> QED BY <1>3, <1>4, <1>5

\* A call begins.
LEMMA StartAsserts ==
  ASSUME KVInv, AssertInv, StartStep \/ StartUpdate
  PROVE  AssertInv'
<1>1. /\ step.pc = "idle" /\ UNCHANGED <<kv, req, running, batches, dead>>
      /\ \/ step' = [NoStep EXCEPT !.pc = "running", !.i = 1,
                                   !.budget = MaxNumScheduledTokens]
         \/ step' = [NoStep EXCEPT !.pc = "update", !.i = 1]
  BY DEF StartStep, BeginSchedule, StartUpdate, Idle
<1>2. /\ DOMAIN step.out = {} /\ DOMAIN step'.out = {} /\ step'.budget >= 0
  <2>1. DOMAIN step.out = {}
    BY <1>1 DEF AssertInv, WithinLimits
  <2>2. DOMAIN step'.out = {} /\ step'.budget \in {MaxNumScheduledTokens, 0}
    <3>1. CASE step' = [NoStep EXCEPT !.pc = "running", !.i = 1,
                                      !.budget = MaxNumScheduledTokens]
      <4>1. DOMAIN step'.out = {}
        BY <3>1 DEF NoStep
      <4>2. step'.budget = MaxNumScheduledTokens
        BY <3>1 DEF NoStep
      <4> QED BY <4>1, <4>2
    <3>2. CASE step' = [NoStep EXCEPT !.pc = "update", !.i = 1]
      BY <3>2 DEF NoStep
    <3> QED BY <3>1, <3>2, <1>1
  <2> QED BY <2>1, <2>2, SchedulerAssumption
<1>3. WithinLimits' /\ NoDraftsInFlight'
  BY <1>1, <1>2 DEF AssertInv, WithinLimits, NoDraftsInFlight
<1> QED BY <1>1, <1>2, <1>3, AccountSame DEF KVInv, AssertInv, NoAssertionFailure

\* A request that is gone leaves its count with its blocks, and its hashes.
LEMMA ReleasedCounts ==
  ASSUME NEW m, ManagerInv(m), NEW r \in Reqs
  PROVE  /\ EnableCaching /\ CacheCounts(m) => CacheCounts(Released(m, r))
         /\ Len(Released(m, r).hashes[r]) = 0
         /\ \A s \in Reqs : s # r => Released(m, r).hashes[s] = m.hashes[s]
<1> DEFINE n == Free(m, r)
<1>1. ManagerInv(n) /\ n.hashes = m.hashes /\ n.ncached[r] = Absent
  BY FreeKeeps, FreeOnlyOf DEF ManagerInv
<1>2. EnableCaching /\ CacheCounts(m) => CacheCounts(n)
  BY FreeCounts
<1> HIDE DEF n
<1>3. CacheCounts(n) => CacheCounts(FreeBlockHashes(n, r))
  BY <1>1, FreeBlockHashesCounts
<1>4. /\ FreeBlockHashes(n, r).hashes[r] = << >>
      /\ \A s \in Reqs : s # r => FreeBlockHashes(n, r).hashes[s] = n.hashes[s]
  BY <1>1 DEF ManagerInv, ManagerShape, FreeBlockHashes
<1>5. Released(m, r) = FreeBlockHashes(n, r)
  BY DEF Released, n
<1>6. Len(<< >>) = 0
  OBVIOUS
<1> QED BY <1>1, <1>2, <1>3, <1>4, <1>5, <1>6

\* A request is gone, stopped or aborted.
LEMMA GoneAsserts ==
  ASSUME KVInv, AssertInv, ~ dead', NEW r \in Reqs, NEW status \in {"finished", "aborted"},
         req' = [req EXCEPT ![r] = Gone(status)], kv' = Released(kv, r),
         DOMAIN step.out = {}, step'.out = step.out,
         WithinLimits', NoDraftsInFlight'
  PROVE  AssertInv'
<1>1. QueueInv /\ ManagerInv(kv) /\ BlockSize \in Nat
  BY ManagerAssumption DEF KVInv
<1>2. /\ EnableCaching => CacheCounts(kv')
      /\ Len(kv'.hashes[r]) = 0
      /\ \A s \in Reqs : s # r => kv'.hashes[s] = kv.hashes[s]
  BY <1>1, ReleasedCounts DEF AssertInv, FullBlocksCached
<1>3. OnlyOf(r, kv, kv')
  BY <1>1, ReleasedOnlyOf DEF QueueInv, Shapes
<1>4. /\ req'[r] = Gone(status) /\ \A s \in Reqs : s # r => req'[s] = req[s]
  BY <1>1 DEF QueueInv, Shapes
<1>5. /\ req'[r].status = status /\ req'[r].tokens = << >> /\ req'[r].computed = 0
      /\ req'[r].spec = << >> /\ Len(<< >>) = 0
  BY <1>4 DEF Gone
<1>6. \A s \in Reqs : s # r => AdvancedTo(s)' = AdvancedTo(s)
  BY <1>4 DEF AdvancedTo
<1>7. AdvancedTo(r)' = 0
  BY <1>5 DEF AdvancedTo
<1>8. ASSUME NEW s \in Reqs PROVE Fits(s)'
  <2>1. CASE s = r
    <3>1. HashesOfTokens(kv', r, << >>)
      <4>1. 0 * BlockSize = 0
        BY <1>1
      <4> QED BY <4>1, <1>2, <1>5 DEF HashesOfTokens
    <3>2. req'[r].status \notin Queued \cup {"running"}
      BY <1>5 DEF Queued
    <3>3. 0 <= MaxModelLen
      BY ManagerAssumption
    <3> QED BY <2>1, <3>1, <3>2, <3>3, <1>5, <1>7 DEF Fits
  <2>2. CASE s # r
    BY <2>2, <1>2, <1>4, <1>6, FitsSame DEF AssertInv
  <2> QED BY <2>1, <2>2
<1>9. FullBlocksCached'
  <2> SUFFICES ASSUME EnableCaching, NEW s \in Reqs, req'[s].status = "running"
               PROVE  kv'.ncached[s] = AdvancedTo(s)' \div BlockSize
    BY <1>2 DEF FullBlocksCached
  <2>1. s # r
    BY <1>5
  <2> QED BY <2>1, <1>3, <1>4, <1>6 DEF OnlyOf, AssertInv, FullBlocksCached
<1> QED BY <1>8, <1>9 DEF AssertInv, NoAssertionFailure

\* A request of the loop of update_from_output that is in no batch
LEMMA UpdateUnscheduledAsserts ==
  ASSUME KVInv, AssertInv, UpdateUnscheduled
  PROVE  AssertInv'
<1>1. /\ step.pc = "update" /\ UNCHANGED <<kv, req, running, batches, dead>>
      /\ step' = [step EXCEPT !.i = @ + 1, !.keep = Append(@, Current)]
  BY DEF UpdateUnscheduled, InUpdateLoop, UpdateSkip
<1>2. QueueInv
  BY DEF KVInv
<1>3. step'.out = step.out /\ step'.budget = step.budget /\ step'.pc = "update"
  BY <1>1, <1>2 DEF QueueInv, Shapes, StepShape
<1>4. WithinLimits' /\ NoDraftsInFlight'
  BY <1>1, <1>3 DEF AssertInv, WithinLimits, NoDraftsInFlight
<1> QED BY <1>1, <1>2, <1>3, <1>4, AccountSame DEF AssertInv, NoAssertionFailure

\* A token is appended to a request, or it stops.
LEMMA UpdateScheduledAsserts ==
  ASSUME Plain, KVInv, AssertInv, UpdateScheduled
  PROVE  AssertInv'
<1>1. QueueInv /\ Numbers /\ InUpdateLoop /\ step.pc = "update"
  BY DEF KVInv, UpdateScheduled, InUpdateLoop
<1>2. PICK r \in Reqs : r = Current /\ req[r].status = "running"
  BY <1>1, CurrentRuns DEF InUpdateLoop
<1>3. PICK e : e = Oldest[r]
  OBVIOUS
<1>4. PICK g \in Generated(e.spec, e.sampled) :
        \E d \in Drafts(g, Len(req[r].tokens) + Len(g)) : UpdateRequest(e, g, d)
  BY <1>2, <1>3 DEF UpdateScheduled
<1>5. PICK d \in Drafts(g, Len(req[r].tokens) + Len(g)) : UpdateRequest(e, g, d)
  BY <1>4
<1>6. e.spec = << >> /\ Len(e.spec) = 0
  <2>1. 1 \in DOMAIN batches /\ r \in DOMAIN Oldest
    BY <1>1, <1>2 DEF Numbers, BatchNumbers, UpdateScheduled
  <2>2. e.spec = << >>
    BY <2>1, <1>3 DEF AssertInv, NoDraftsInFlight, Oldest
  <2> QED BY <2>2
<1>7. d = << >>
  BY <1>5 DEF Drafts, Plain
<1>8. g \in Seq(Nat) /\ Len(g) \in {0, 1}
  <2>1. g \in Seq(Nat)
    BY <1>4, <1>6, GeneratedTokens
  <2>2. Len(g) \in {0, 1}
    <3> DEFINE Accepted == {k \in 0 .. Len(e.spec) : \A i \in 1 .. k : e.spec[i] \in Vocab}
               Longer(a, t) == SubSeq(e.spec, 1, a) \o <<t>>
               All == {Longer(a, t) : a \in Accepted, t \in Vocab}
    <3>1. g = << >> \/ g \in All
      <4>1. Generated(e.spec, e.sampled) = IF ~ e.sampled THEN {<< >>} ELSE All
        BY DEF Generated
      <4> HIDE DEF All
      <4> QED BY <4>1, <1>4
    <3>2. CASE g \in All
      <4>1. PICK a \in Accepted, t \in Vocab : g = Longer(a, t)
        <5> HIDE DEF Accepted, Longer
        <5> QED BY <3>2
      <4>2. a = 0
        BY <4>1, <1>6
      <4>3. g = SubSeq(<< >>, 1, 0) \o <<t>>
        BY <4>1, <4>2, <1>6
      <4>4. SubSeq(<< >>, 1, 0) = << >> /\ Len(<< >> \o <<t>>) = 1
        OBVIOUS
      <4> QED BY <4>3, <4>4
    <3>3. CASE g = << >>
      <4>1. Len(<< >>) = 0
        OBVIOUS
      <4> QED BY <4>1, <3>3
    <3> HIDE DEF All
    <3> QED BY <3>1, <3>2, <3>3
  <2> QED BY <2>1, <2>2
<1> DEFINE q == [req[r] EXCEPT !.spec = << >>]
           all == q.tokens \o g
<1>9. /\ UNCHANGED <<running, dead>> /\ batches' = batches
      /\ IF StopAt(r, q, g) = {}
         THEN /\ req' = [req EXCEPT ![r] = [q EXCEPT !.tokens = @ \o g]]
              /\ step' = [step EXCEPT !.i = @ + 1, !.keep = Append(@, r)]
              /\ kv' = kv
         ELSE /\ req' = [req EXCEPT ![r] = Gone("finished")]
              /\ kv' = Released(kv, r)
              /\ step' = [step EXCEPT !.i = @ + 1]
  <2>1. Verified(req[r], e, g) = req[r]
    BY <1>6 DEF Verified
  <2> QED BY <2>1, <1>2, <1>5, <1>7 DEF UpdateRequest, UpdateScheduled
<1>10. /\ q.tokens = req[r].tokens /\ q.status = req[r].status /\ q.spec = << >>
       /\ q.computed = req[r].computed
       /\ {"status", "tokens", "computed", "spec"} \subseteq DOMAIN q
       /\ q.tokens \in Seq(Nat)
  BY <1>1 DEF QueueInv, Shapes, Numbers, RequestNumbers
<1> HIDE DEF q
<1>11. /\ step'.out = step.out /\ step'.budget = step.budget /\ step'.pc = "update"
       /\ DOMAIN step.out = {}
  BY <1>1, <1>9 DEF QueueInv, Shapes, StepShape, AssertInv, WithinLimits
<1>12. WithinLimits' /\ NoDraftsInFlight' /\ ~ dead'
  BY <1>9, <1>11 DEF AssertInv, WithinLimits, NoDraftsInFlight, NoAssertionFailure
<1>13. CASE StopAt(r, q, g) = {}
  <2>1. /\ all \in Seq(Nat) /\ Len(all) = Len(q.tokens) + Len(g)
        /\ Len(all) \in Nat /\ Len(q.tokens) \in Nat
    BY <1>8, <1>10
  <2>2. Fits(r)
    BY DEF AssertInv
  <2>3. Len(all) <= MaxModelLen
    <3>1. CASE Len(g) = 0
      BY <3>1, <2>1, <2>2, <1>10 DEF Fits
    <3>2. CASE Len(g) = 1
      <4>1. ~ Stops(r, q.tokens \o SubSeq(g, 1, 1))
        <5>1. 1 \in 1 .. Len(g)
          BY <3>2
        <5> QED BY <5>1, <1>13 DEF StopAt
      <4>2. SubSeq(g, 1, 1) = g
        BY <3>2, <1>8
      <4>3. ~ (Len(all) >= MaxModelLen)
        BY <4>1, <4>2 DEF Stops
      <4> QED BY <4>3, <2>1, ManagerAssumption
    <3> QED BY <3>1, <3>2, <1>8
  <2>4. req[r].tokens # << >>
    BY <2>2, <1>2 DEF Fits
  <2>5. all # << >>
    BY <2>4, <1>8, <1>10
  <2> HIDE DEF all
  <2>6. /\ req'[r].tokens = all /\ req'[r].status = "running" /\ req'[r].spec = << >>
        /\ req'[r].computed = req[r].computed
        /\ \A s \in Reqs : s # r => req'[s] = req[s]
        /\ kv' = kv
    BY <1>1, <1>2, <1>9, <1>10, <1>13 DEF QueueInv, Shapes, all
  <2>7. \A s \in Reqs : AdvancedTo(s)' = AdvancedTo(s)
    BY <2>6, <1>11 DEF AdvancedTo
  <2>8. HashesOfTokens(kv, r, all)
    <3>1. HashesOfTokens(kv, r, q.tokens)
      BY <2>2, <1>10 DEF Fits
    <3>2. Len(kv.hashes[r]) * BlockSize \in Int
      <4>1. Len(kv.hashes[r]) \in Nat
        BY HashesLen DEF KVInv
      <4> QED BY <4>1, ManagerAssumption
    <3> QED BY <3>1, <3>2, <2>1, <1>8 DEF HashesOfTokens
  <2>9. ASSUME NEW s \in Reqs PROVE Fits(s)'
    <3>1. CASE s # r
      BY <3>1, <2>6, <2>7, FitsSame DEF AssertInv
    <3>2. CASE s = r
      <4>1. AdvancedTo(r) <= Len(all)
        <5>1. AdvancedTo(r) \in Int
          BY <1>1, <1>11 DEF AdvancedTo, Numbers, RequestNumbers
        <5> QED BY <5>1, <2>1, <2>2, <1>8, <1>10 DEF Fits
      <4> QED BY <3>2, <4>1, <2>2, <2>3, <2>5, <2>6, <2>7, <2>8 DEF Fits
    <3> QED BY <3>1, <3>2
  <2>10. FullBlocksCached'
    <3>1. \A s \in Reqs : req'[s].status = req[s].status
      BY <2>6, <1>2
    <3> QED BY <3>1, <2>6, <2>7 DEF AssertInv, FullBlocksCached
  <2> QED BY <2>9, <2>10, <1>12 DEF AssertInv, NoAssertionFailure
<1>14. CASE StopAt(r, q, g) # {}
  BY <1>14, <1>9, <1>11, <1>12, GoneAsserts
<1> QED BY <1>13, <1>14

\* The requests that update_from_output kept are what runs from now on.
LEMMA FinishUpdateAsserts ==
  ASSUME KVInv, AssertInv, FinishUpdate
  PROVE  AssertInv'
<1>1. /\ QueueInv /\ step.pc = "update" /\ UNCHANGED <<kv, req, dead>>
      /\ running' = step.keep /\ step' = NoStep /\ batches' = Tail(batches)
  BY DEF KVInv, FinishUpdate, EndUpdate
<1>2. /\ DOMAIN step.out = {} /\ DOMAIN step'.out = {}
      /\ step'.budget = 0 /\ step'.pc = "idle"
  BY <1>1 DEF NoStep, AssertInv, WithinLimits
<1>3. Len(running') <= MaxNumRunningReqs
  <2>1. /\ running \in Seq(Reqs) /\ step.keep \in Seq(Reqs) /\ IsInjective(running)
        /\ IsInjective(step.keep) /\ Range(step.keep) \subseteq Range(running)
    BY <1>1 DEF QueueInv, Shapes, StepShape, NoRepetition, UpdateKeeps
  <2>2. Len(step.keep) <= Len(running)
    BY <2>1, FewerElements
  <2>3. Len(step.keep) \in Nat /\ Len(running) \in Nat
    BY <2>1
  <2> QED BY <2>2, <2>3, <1>1, SchedulerAssumption DEF AssertInv, WithinLimits
<1>4. WithinLimits'
  BY <1>2, <1>3 DEF WithinLimits
<1>5. NoDraftsInFlight'
  <2>1. PICK S : batches \in Seq(S)
    BY DEF KVInv, Numbers, BatchNumbers
  <2>2. batches # << >>
    BY <1>1 DEF KVInv, Numbers, BatchNumbers
  <2>3. \A k \in DOMAIN batches' : k + 1 \in DOMAIN batches /\ batches'[k] = batches[k + 1]
    BY <1>1, <2>1, <2>2
  <2> QED BY <2>3 DEF AssertInv, NoDraftsInFlight
<1> QED BY <1>1, <1>2, <1>4, <1>5, AccountSame DEF AssertInv, NoAssertionFailure

\* A request that is added has no hashes yet.
LEMMA AddRequestAsserts ==
  ASSUME KVInv, AssertInv, NEW r \in Reqs, AddRequest(r), WithinLimits', NoDraftsInFlight'
  PROVE  AssertInv'
<1> DEFINE w == IF r \in FsmReqs THEN "waiting_fsm" ELSE "waiting"
           q == [status |-> w, tokens |-> Prompt[r], computed |-> 0, spec |-> << >>]
<1>1. /\ QueueInv /\ ManagerInv(kv) /\ UNCHANGED <<kv, running, step, dead>>
      /\ req[r].status = "unborn" /\ req' = [req EXCEPT ![r] = q] /\ Idle
  BY DEF KVInv, AddRequest
<1>2. /\ q.status = w /\ q.tokens = Prompt[r] /\ q.computed = 0 /\ q.spec = << >>
      /\ w \in Queued
  BY DEF Queued
<1> HIDE DEF q
<1>3. req'[r] = q /\ \A s \in Reqs : s # r => req'[s] = req[s]
  BY <1>1 DEF QueueInv, Shapes
<1>4. DOMAIN step.out = {}
  BY <1>1 DEF Idle, AssertInv, WithinLimits
<1>5. /\ AdvancedTo(r)' = 0
      /\ \A s \in Reqs : s # r => AdvancedTo(s)' = AdvancedTo(s)
  BY <1>1, <1>2, <1>3, <1>4 DEF AdvancedTo
<1>6. Len(Prompt[r]) \in 1 .. MaxModelLen /\ Prompt[r] \in Seq(Nat) /\ Prompt[r] # << >>
  <2>1. Len(Prompt[r]) \in 1 .. MaxModelLen /\ Prompt[r] \in Seq(Nat)
    BY SchedulerAssumption
  <2> QED BY <2>1
<1>7. HashesOfTokens(kv, r, Prompt[r])
  <2>1. req[r].tokens = << >>
    BY <1>1 DEF AssertInv, Fits, Queued
  <2>2. HashesOfTokens(kv, r, << >>) /\ Len(<< >>) = 0
    BY <2>1 DEF AssertInv, Fits
  <2>3. Len(kv.hashes[r]) * BlockSize \in Int
    <3>1. Len(kv.hashes[r]) \in Nat
      BY <1>1, HashesLen
    <3> QED BY <3>1, ManagerAssumption
  <2> QED BY <2>2, <2>3, <1>6 DEF HashesOfTokens
<1>8. ASSUME NEW s \in Reqs PROVE Fits(s)'
  <2>1. CASE s = r
    <3>1. 0 <= Len(Prompt[r]) /\ Len(Prompt[r]) <= MaxModelLen
      BY <1>6
    <3>2. w # "running"
      OBVIOUS
    <3> QED BY <2>1, <3>1, <3>2, <1>1, <1>2, <1>3, <1>5, <1>6, <1>7 DEF Fits
  <2>2. CASE s # r
    BY <2>2, <1>1, <1>3, <1>5, FitsSame DEF AssertInv
  <2> QED BY <2>1, <2>2
<1>9. FullBlocksCached'
  <2>1. req'[r].status # "running"
    BY <1>2, <1>3
  <2> QED BY <2>1, <1>1, <1>3, <1>5 DEF AssertInv, FullBlocksCached
<1> QED BY <1>1, <1>8, <1>9 DEF AssertInv, NoAssertionFailure

\* Calls from outside
LEMMA ExternalAsserts ==
  ASSUME KVInv, AssertInv, External \/ Reset
  PROVE  AssertInv'
<1>1. QueueInv /\ ManagerInv(kv) /\ ~ dead
  BY DEF KVInv, AssertInv, NoAssertionFailure
<1>2. step' = step /\ batches' = batches /\ dead' = dead
  BY DEF External, Reset, AddRequest, GrammarCompiled, FinishRequests, ResetPrefixCacheCall
<1>3. NoDraftsInFlight'
  BY <1>2 DEF AssertInv, NoDraftsInFlight
<1>4. CASE Reset
  <2>1. /\ kv' = ResetCache(kv) /\ CanResetPrefixCache(kv.pool)
        /\ req' = req /\ running' = running
    BY <1>4 DEF Reset, ResetPrefixCacheCall
  <2>2. kv'.hashes = kv.hashes /\ kv'.ncached = kv.ncached
    BY <2>1, <1>1 DEF ResetCache, ManagerInv, ManagerShape
  <2>3. EnableCaching => CacheCounts(kv')
    BY <2>1, <1>1, ResetCacheCounts DEF AssertInv, FullBlocksCached
  <2>4. ASSUME NEW r \in Reqs PROVE AdvancedTo(r)' = AdvancedTo(r) /\ Fits(r)'
    <3>1. AdvancedTo(r)' = AdvancedTo(r)
      BY <2>1, <1>2 DEF AdvancedTo
    <3> QED BY <3>1, <2>1, <2>2, FitsSame DEF AssertInv
  <2>5. FullBlocksCached'
    BY <2>1, <2>2, <2>3, <2>4 DEF AssertInv, FullBlocksCached
  <2>6. WithinLimits'
    BY <2>1, <1>2 DEF AssertInv, WithinLimits
  <2> QED BY <2>4, <2>5, <2>6, <1>1, <1>2, <1>3 DEF AssertInv, NoAssertionFailure
<1>5. CASE External
  <2>1. PICK r \in Reqs : AddRequest(r) \/ GrammarCompiled(r) \/ FinishRequests(r)
    BY <1>5 DEF External
  <2>2. CASE AddRequest(r)
    <3>1. running' = running
      BY <2>2 DEF AddRequest
    <3>2. WithinLimits'
      BY <3>1, <1>2 DEF AssertInv, WithinLimits
    <3> QED BY <2>2, <3>2, <1>3, AddRequestAsserts
  <2>3. CASE GrammarCompiled(r)
    <3>1. req' = req /\ kv' = kv /\ running' = running
      BY <2>3 DEF GrammarCompiled
    <3>2. WithinLimits'
      BY <3>1, <1>2 DEF AssertInv, WithinLimits
    <3> QED BY <3>1, <3>2, <1>1, <1>2, <1>3, AccountSame
  <2>4. CASE FinishRequests(r)
    <3>1. /\ req' = [req EXCEPT ![r] = Gone("aborted")] /\ kv' = Released(kv, r) /\ Idle
          /\ running' = running \/ running' = Without(running, {r})
      BY <2>4 DEF FinishRequests
    <3>2. DOMAIN step.out = {}
      BY <3>1 DEF Idle, AssertInv, WithinLimits
    <3>3. Len(running') <= MaxNumRunningReqs
      <4>1. running \in Seq(Reqs) /\ IsInjective(running)
        BY <1>1 DEF QueueInv, Shapes, NoRepetition
      <4>2. Len(Without(running, {r})) <= Len(running)
        BY <4>1, WithoutFacts, FewerElements
      <4>3. Len(running) \in Nat /\ Len(Without(running, {r})) \in Nat
        BY <4>1, WithoutFacts
      <4> QED BY <4>2, <4>3, <3>1, SchedulerAssumption DEF AssertInv, WithinLimits
    <3>4. WithinLimits'
      BY <3>1, <3>2, <3>3, <1>2 DEF Idle, AssertInv, WithinLimits
    <3> QED BY <3>1, <3>2, <3>4, <1>1, <1>2, <1>3, GoneAsserts
  <2> QED BY <2>1, <2>2, <2>3, <2>4
<1> QED BY <1>4, <1>5

\* No request has come yet.
LEMMA InitAssertInv == Init => AssertInv
<1> SUFFICES ASSUME Init PROVE AssertInv
  OBVIOUS
<1>1. /\ kv = InitManager /\ req = [r \in Reqs |-> Gone("unborn")] /\ running = << >>
      /\ step = NoStep /\ ~ dead /\ batches = << >>
  BY DEF Init, SchedInit
<1>2. DOMAIN step.out = {} /\ step.budget = 0 /\ step.pc = "idle"
  BY <1>1 DEF NoStep
<1>3. Len(<< >>) = 0 /\ DOMAIN << >> = {}
  OBVIOUS
<1>4. ASSUME NEW r \in Reqs
      PROVE  /\ req[r].status = "unborn" /\ req[r].tokens = << >> /\ req[r].computed = 0
             /\ req[r].spec = << >> /\ AdvancedTo(r) = 0
             /\ HashesOfTokens(kv, r, << >>)
  <2>1. kv.hashes[r] = << >>
    BY <1>1 DEF InitManager
  <2>2. 0 * BlockSize = 0
    BY ManagerAssumption
  <2> QED BY <2>1, <2>2, <1>1, <1>2, <1>3 DEF Gone, AdvancedTo, HashesOfTokens
<1>5. \A r \in Reqs : Fits(r)
  BY <1>3, <1>4, ManagerAssumption DEF Fits, Queued
<1>6. WithinLimits
  BY <1>1, <1>2, <1>3, SchedulerAssumption DEF WithinLimits
<1>7. FullBlocksCached
  BY <1>1, <1>4, InitCacheCounts DEF FullBlocksCached
<1>8. NoDraftsInFlight
  BY <1>1, <1>3 DEF NoDraftsInFlight
<1> QED BY <1>1, <1>5, <1>6, <1>7, <1>8 DEF AssertInv, NoAssertionFailure

\* Every step
LEMMA NextAsserts ==
  ASSUME Plain, KVInv, AssertInv, [Next]_vars
  PROVE  AssertInv'
<1>1. CASE UNCHANGED vars
  <2>1. UNCHANGED <<kv, req, running, step, dead, batches>>
    BY <1>1 DEF vars
  <2> QED BY <2>1 DEF AssertInv, NoAssertionFailure, Fits, AdvancedTo, HashesOfTokens,
                      WithinLimits, FullBlocksCached, NoDraftsInFlight
<1>2. CASE External \/ Reset
  BY <1>2, ExternalAsserts
<1>3. CASE StartStep \/ StartUpdate
  BY <1>3, StartAsserts
<1>4. CASE Scheduling
  BY <1>4, ScheduleStepAsserts DEF Scheduling
<1>5. CASE SubmitAndWait \/ Submit \/ NothingScheduled
  BY <1>5, SubmitAsserts
<1>6. CASE UpdateUnscheduled
  BY <1>6, UpdateUnscheduledAsserts
<1>7. CASE UpdateScheduled
  BY <1>7, UpdateScheduledAsserts
<1>8. CASE FinishUpdate
  BY <1>8, FinishUpdateAsserts
<1> QED BY <1>1, <1>2, <1>3, <1>4, <1>5, <1>6, <1>7, <1>8 DEF Next, EngineStep

\* No assertion of schedule(), allocate_slots() or cache_full_blocks() fails: the
\* limits asserted at the end of schedule() hold, a request never has more full
\* blocks than hashes or more cached blocks than full ones, and a waiting request
\* always has a token left to compute. For any requests, pool, block size, budgets,
\* encoder cache, preemptions, aborts and pipeline depth, with or without prefix
\* caching. Drafts, lookahead slots and a LoRA limit are excluded because with each of
\* them there is an assertion that fails, a sliding window because one fails with
\* both a window and drafts.
THEOREM NoAssertionFailureAlways ==
  ASSUME SlidingWindow = 0, SpecMethod = "none", NumLookahead = 0, MaxLoras = 0
  PROVE  Spec => []NoAssertionFailure
<1>1. Init => AssertInv
  BY InitAssertInv
<1>2. KVInv /\ AssertInv /\ [Next]_vars => AssertInv'
  BY NextAsserts DEF Plain
<1>3. AssertInv => NoAssertionFailure
  BY DEF AssertInv
<1> QED BY <1>1, <1>2, <1>3, KVInvAlways, PTL DEF Spec

-----------------------------------------------------------------------------
(***************************************************************************)
(* A scheduled token attends to the entries of its own request's tokens.   *)
(***************************************************************************)

\* The entry at position pos of a request with the tokens t
KVEntry(r, t, pos) == <<ExtraKeys[r], SubSeq(t, 1, pos)>>

\* A token scheduled for q at position p goes to slot s of block b.
WritesTo(rows, out, q, p, b, s) ==
  /\ q \in DOMAIN out /\ p \in Positions(out[q])
  /\ BlockOf(rows[q], p) = b /\ SlotOf(p) = s

Untouched(rows, out, b, s) == \A q, p : ~ WritesTo(rows, out, q, p, b, s)

\* What the worker is told of a batch: the tokens t[q] scheduled for q are in its
\* row, and its blocks are in the pool.
RowsTrue(rows, out, t) ==
  \A q \in DOMAIN out :
    /\ out[q].start \in Nat /\ out[q].n \in Nat \ {0}
    /\ t[q] \in Seq(Nat) /\ out[q].start + out[q].n <= Len(t[q]) /\ Len(t[q]) <= MaxModelLen
    /\ \E S : rows[q].tokens \in [1 .. MaxModelLen -> S]
    /\ \A p \in Positions(out[q]) : rows[q].tokens[p] = t[q][p] /\ BlockOf(rows[q], p) \in Blocks

\* No two tokens of the batch go to the same slot.
OneWriter(rows, out) ==
  \A q, w, p, x, b, s : WritesTo(rows, out, q, p, b, s) /\ WritesTo(rows, out, w, x, b, s)
                          => q = w /\ p = x

\* The entry before the first scheduled token of q is there, or the token of a
\* request that is behind q in its text goes to its place.
PrefixComes(data, rows, out, t) ==
  \A q \in DOMAIN out : out[q].start > 0 =>
    LET b == BlockOf(rows[q], out[q].start)
        s == SlotOf(out[q].start)
    IN  /\ Untouched(rows, out, b, s) => data[b][s] = KVEntry(q, t[q], out[q].start)
        /\ b \in Blocks
        /\ \A w, x : WritesTo(rows, out, w, x, b, s) =>
             /\ KVEntry(w, t[w], x) = KVEntry(q, t[q], out[q].start)
             /\ out[w].start < out[q].start

\* The recursive function of ForwardPass exists, so its equation holds.
LEMMA LayersDef ==
  ASSUME NEW data, NEW rows, NEW out, Cardinality(DOMAIN out) \in Nat
  PROVE  \E layer : /\ layer[0] = data
                    /\ \A l \in 1 .. Cardinality(DOMAIN out) :
                         layer[l] = Written(layer[l - 1], rows, out)
                    /\ ForwardPass(data, rows, out) = layer[Cardinality(DOMAIN out)]
<1> DEFINE N == Cardinality(DOMAIN out)
           Body(f, l) == IF l = 0 THEN data ELSE Written(f[l - 1], rows, out)
           T == {n \in Nat : \E f : f = [l \in 0 .. n |-> Body(f, l)]}
<1>1. 0 \in T
  <2> DEFINE f == [l \in 0 .. 0 |-> data]
  <2>1. f = [l \in 0 .. 0 |-> Body(f, l)] OBVIOUS
  <2> QED BY <2>1
<1>2. ASSUME NEW n \in T PROVE n + 1 \in T
  <2>1. n \in Nat OBVIOUS
  <2>2. PICK f : f = [l \in 0 .. n |-> Body(f, l)] OBVIOUS
  <2> DEFINE g == [l \in 0 .. (n+1) |-> IF l = n + 1 THEN Body(f, n+1) ELSE f[l]]
  <2>3. ASSUME NEW l \in 0 .. (n+1) PROVE g[l] = Body(g, l)
    <3>1. CASE l = n + 1
      <4>1. g[l] = Body(f, n+1) BY <3>1
      <4>2. l # 0 /\ n \in 0 .. (n+1) /\ n # n+1 /\ l - 1 = n BY <2>1, <3>1
      <4>3. g[l-1] = f[n] BY <4>2
      <4> QED BY <4>1, <4>2, <4>3, <3>1
    <3>2. CASE l # n + 1
      <4>1. l \in 0 .. n BY <3>2, <2>1
      <4>2. g[l] = f[l] BY <3>2
      <4>3. f[l] = Body(f, l) BY <2>2, <4>1
      <4>4. CASE l = 0 BY <4>2, <4>3, <4>4
      <4>5. CASE l # 0
        <5>1. l - 1 \in 0 .. (n+1) /\ l - 1 # n + 1 BY <4>1, <4>5, <2>1
        <5>2. g[l-1] = f[l-1] BY <5>1
        <5> QED BY <4>2, <4>3, <5>2
      <4> QED BY <4>4, <4>5
    <3> QED BY <3>1, <3>2
  <2>4. g = [l \in 0 .. (n+1) |-> Body(g, l)]
    <3> HIDE DEF Body
    <3> QED BY <2>3
  <2> HIDE DEF g, Body
  <2> QED BY <2>1, <2>4
<1>3. T = Nat
  <2> HIDE DEF T
  <2>1. T \in SUBSET Nat BY DEF T
  <2> QED BY <1>1, <1>2, <2>1, NatSetInduction
<1>5. \E f : f = [l \in 0 .. N |-> Body(f, l)]
  BY <1>3
<1> DEFINE k == CHOOSE f : f = [l \in 0 .. N |-> Body(f, l)]
<1>6. k = [l \in 0 .. N |-> Body(k, l)]
  <2> HIDE DEF Body
  <2> QED BY <1>5, Zenon
<1>7. ForwardPass(data, rows, out) = k[N] BY Zenon DEF ForwardPass
<1> HIDE DEF k
<1>8. k[0] = data
  BY <1>6
<1>9. ASSUME NEW l \in 1 .. N PROVE k[l] = Written(k[l - 1], rows, out)
  <2>1. l \in 0 .. N /\ l # 0
    OBVIOUS
  <2> HIDE DEF N
  <2> QED BY <1>6, <2>1
<1> QED BY <1>7, <1>8, <1>9

\* One layer: a slot no token goes to keeps its entry, and the token that goes to a
\* slot leaves the entry of its request there if the one before is right.
LEMMA WrittenFacts ==
  ASSUME NEW data, NEW rows, NEW out, NEW t, RowsTrue(rows, out, t), OneWriter(rows, out),
         NEW b \in Blocks, NEW s \in 1 .. BlockSize
  PROVE  /\ Untouched(rows, out, b, s) => Written(data, rows, out)[b][s] = data[b][s]
         /\ \A q, p : WritesTo(rows, out, q, p, b, s) =>
              \/ /\ out[q].start > 0
                 /\ KVAt(data, rows[q], out[q].start) # KVEntry(q, t[q], out[q].start)
              \/ Written(data, rows, out)[b][s] = KVEntry(q, t[q], p)
<1> DEFINE writes == {x \in (DOMAIN out) \X (1 .. MaxModelLen) :
                        /\ x[2] \in Positions(out[x[1]])
                        /\ BlockOf(rows[x[1]], x[2]) = b /\ SlotOf(x[2]) = s}
           w == CHOOSE x \in writes : TRUE
<1>1. Written(data, rows, out)[b][s]
        = IF writes = {} THEN data[b][s]
          ELSE Computed(data, w[1], rows[w[1]], out[w[1]], w[2])
  BY DEF Written
<1>2. \A x \in writes : WritesTo(rows, out, x[1], x[2], b, s)
  BY DEF WritesTo
<1>3. ASSUME NEW q, NEW p, WritesTo(rows, out, q, p, b, s)
      PROVE  /\ q \in DOMAIN out /\ p \in Positions(out[q])
             /\ out[q].start \in Nat /\ out[q].n \in Nat \ {0} /\ t[q] \in Seq(Nat)
             /\ out[q].start + out[q].n <= Len(t[q]) /\ Len(t[q]) <= MaxModelLen
             /\ p \in 1 .. MaxModelLen /\ <<q, p>> \in writes
  <2>1. /\ q \in DOMAIN out /\ p \in Positions(out[q])
        /\ BlockOf(rows[q], p) = b /\ SlotOf(p) = s
    BY <1>3 DEF WritesTo
  <2>2. /\ out[q].start \in Nat /\ out[q].n \in Nat \ {0} /\ t[q] \in Seq(Nat)
        /\ out[q].start + out[q].n <= Len(t[q]) /\ Len(t[q]) <= MaxModelLen
    BY <2>1 DEF RowsTrue
  <2>3. p \in 1 .. MaxModelLen
    BY <2>1, <2>2, ManagerAssumption DEF Positions
  <2> QED BY <2>1, <2>2, <2>3
<1>4. Untouched(rows, out, b, s) => writes = {}
  <2> HIDE DEF writes
  <2> QED BY <1>2 DEF Untouched
<1>5. ASSUME NEW q, NEW p, WritesTo(rows, out, q, p, b, s),
             out[q].start > 0 => KVAt(data, rows[q], out[q].start) = KVEntry(q, t[q], out[q].start)
      PROVE  Written(data, rows, out)[b][s] = KVEntry(q, t[q], p)
  <2>1. writes # {} /\ w \in writes
    BY <1>3, <1>5
  <2>2. w[1] = q /\ w[2] = p
    <3> HIDE DEF w, writes
    <3> QED BY <1>2, <1>5, <2>1 DEF OneWriter
  <2>3. Written(data, rows, out)[b][s] = Computed(data, q, rows[q], out[q], p)
    <3> HIDE DEF w, writes
    <3> QED BY <1>1, <2>1, <2>2
  <2> HIDE DEF w, writes
  <2> DEFINE st == out[q].start
             tail == SubSeq(rows[q].tokens, st + 1, p)
             before == IF st = 0 THEN << >> ELSE KVAt(data, rows[q], st)[2]
  <2>4. /\ q \in DOMAIN out /\ p \in Positions(out[q])
        /\ st \in Nat /\ out[q].n \in Nat \ {0} /\ t[q] \in Seq(Nat)
        /\ st + out[q].n <= Len(t[q]) /\ Len(t[q]) <= MaxModelLen
        /\ p \in 1 .. MaxModelLen
    BY <1>3, <1>5
  <2>5. p \in Nat /\ st + 1 <= p /\ p <= st + out[q].n /\ p <= Len(t[q]) /\ MaxModelLen \in Nat
    BY <2>4, ManagerAssumption DEF Positions
  <2>6. before = SubSeq(t[q], 1, st)
    <3>1. CASE st = 0
      <4>1. SubSeq(t[q], 1, 0) = << >>
        BY SubSeqEmpty
      <4> QED BY <3>1, <4>1
    <3>2. CASE st # 0
      <4>1. st > 0
        BY <3>2, <2>4
      <4>2. KVAt(data, rows[q], st) = KVEntry(q, t[q], st)
        BY <4>1, <1>5
      <4>3. before = KVAt(data, rows[q], st)[2]
        BY <3>2
      <4>4. KVEntry(q, t[q], st)[2] = SubSeq(t[q], 1, st)
        BY DEF KVEntry
      <4> HIDE DEF before, st
      <4> QED BY <4>2, <4>3, <4>4
    <3> QED BY <3>1, <3>2
  <2>7. tail = SubSeq(t[q], st + 1, p)
    <3>1. \A i \in st + 1 .. p : rows[q].tokens[i] = t[q][i] /\ t[q][i] \in Nat
      <4>1. \A i \in Positions(out[q]) : rows[q].tokens[i] = t[q][i]
        BY <2>4 DEF RowsTrue
      <4>2. \A i \in st + 1 .. p : i \in Positions(out[q]) /\ i \in 1 .. Len(t[q])
        <5>1. Positions(out[q]) = st + 1 .. st + out[q].n
          BY DEF Positions
        <5> DEFINE n == out[q].n
                   l == Len(t[q])
        <5>2. n \in Nat /\ l \in Nat /\ p <= st + n /\ p <= l
          BY <2>4, <2>5
        <5>3. st \in Nat /\ p \in Nat
          BY <2>4, <2>5
        <5> HIDE DEF n, l, st
        <5>4. \A i \in st + 1 .. p : i \in st + 1 .. st + n /\ i \in 1 .. l
          BY <5>2, <5>3
        <5> QED BY <5>1, <5>4 DEF n, l
      <4> QED BY <4>1, <4>2, <2>4, ElementOfSeq
    <3> DEFINE a == st + 1
    <3>2. a \in Int /\ p \in Int
      BY <2>4, <2>5
    <3>3. \A i \in a .. p : rows[q].tokens[i] \in Nat /\ t[q][i] \in Nat
      BY <3>1
    <3>4. \A i \in a .. p : rows[q].tokens[i] = t[q][i]
      BY <3>1
    <3>5. tail = SubSeq(rows[q].tokens, a, p)
      OBVIOUS
    <3> HIDE DEF tail, a, st
    <3> DEFINE u == SubSeq(rows[q].tokens, a, p)
               v == SubSeq(t[q], a, p)
    <3>6. /\ u \in Seq(Nat) /\ Len(u) = IF a <= p THEN p - a + 1 ELSE 0
          /\ \A i \in 1 .. p - a + 1 : u[i] = rows[q].tokens[a + i - 1]
      BY <3>2, <3>3, SubSeqProperties
    <3>7. /\ v \in Seq(Nat) /\ Len(v) = IF a <= p THEN p - a + 1 ELSE 0
          /\ \A i \in 1 .. p - a + 1 : v[i] = t[q][a + i - 1]
      BY <3>2, <3>3, SubSeqProperties
    <3> HIDE DEF u, v
    <3>8. \A i \in 1 .. Len(u) : i \in 1 .. p - a + 1 /\ a + i - 1 \in a .. p
      BY <3>2, <3>6
    <3>9. \A i \in 1 .. Len(u) : u[i] = v[i]
      BY <3>4, <3>6, <3>7, <3>8
    <3>10. Len(u) = Len(v)
      BY <3>6, <3>7
    <3>11. u = v
      BY <3>6, <3>7, <3>9, <3>10, SeqEqual
    <3> QED BY <3>5, <3>11 DEF u, v, a
  <2>8. SubSeq(t[q], 1, st) \o SubSeq(t[q], st + 1, p) = SubSeq(t[q], 1, p)
    <3>1. /\ 1 \in 1 .. Len(t[q]) + 1 /\ st \in 1 - 1 .. Len(t[q])
          /\ p \in st .. Len(t[q])
      BY <2>4, <2>5
    <3> HIDE DEF st
    <3> QED BY <2>4, <3>1, ConcatAdjacentSubSeq
  <2>9. Computed(data, q, rows[q], out[q], p) = <<ExtraKeys[q], before \o tail>>
    BY DEF Computed
  <2> QED BY <2>3, <2>6, <2>7, <2>8, <2>9 DEF KVEntry
<1> HIDE DEF writes, w
<1>6. ASSUME NEW q, NEW p, WritesTo(rows, out, q, p, b, s)
      PROVE  \/ /\ out[q].start > 0
                /\ KVAt(data, rows[q], out[q].start) # KVEntry(q, t[q], out[q].start)
             \/ Written(data, rows, out)[b][s] = KVEntry(q, t[q], p)
  BY <1>5, <1>6
<1> QED BY <1>1, <1>4, <1>6
\* How many requests of the batch are behind q in their texts
Behind(out, q) == {w \in DOMAIN out : out[w].start < out[q].start}

\* Fewer than all of them, and fewer for those behind q.
LEMMA BehindFacts ==
  ASSUME NEW out, IsFiniteSet(DOMAIN out), \A q \in DOMAIN out : out[q].start \in Nat,
         NEW q \in DOMAIN out
  PROVE  /\ Cardinality(Behind(out, q)) \in Nat
         /\ Cardinality(DOMAIN out) \in Nat
         /\ Cardinality(Behind(out, q)) < Cardinality(DOMAIN out)
         /\ \A w \in Behind(out, q) : Cardinality(Behind(out, w)) < Cardinality(Behind(out, q))
<1>1. Behind(out, q) \subseteq DOMAIN out /\ q \notin Behind(out, q)
  BY DEF Behind
<1>2. IsFiniteSet(Behind(out, q)) /\ Cardinality(Behind(out, q)) \in Nat
  BY <1>1, FS_Subset, FS_CardinalityType
<1>3. Cardinality(DOMAIN out) \in Nat
  BY FS_CardinalityType
<1>4. Cardinality(Behind(out, q)) < Cardinality(DOMAIN out)
  <2>1. /\ Cardinality(Behind(out, q)) <= Cardinality(DOMAIN out)
        /\ Cardinality(DOMAIN out) = Cardinality(Behind(out, q))
             => DOMAIN out = Behind(out, q)
    BY <1>1, FS_Subset
  <2>2. DOMAIN out # Behind(out, q)
    BY <1>1
  <2> QED BY <2>1, <2>2, <1>2, <1>3
<1>5. ASSUME NEW w \in Behind(out, q)
      PROVE  Cardinality(Behind(out, w)) < Cardinality(Behind(out, q))
  <2>1. Behind(out, w) \subseteq Behind(out, q) /\ w \notin Behind(out, w)
    BY DEF Behind
  <2>2. /\ Cardinality(Behind(out, w)) <= Cardinality(Behind(out, q))
        /\ Cardinality(Behind(out, q)) = Cardinality(Behind(out, w))
             => Behind(out, q) = Behind(out, w)
        /\ IsFiniteSet(Behind(out, w))
    BY <2>1, <1>2, FS_Subset
  <2>3. Cardinality(Behind(out, w)) \in Nat
    BY <2>2, FS_CardinalityType
  <2>4. Behind(out, q) # Behind(out, w)
    BY <2>1, <1>5
  <2> QED BY <2>2, <2>3, <2>4, <1>2
<1> QED BY <1>2, <1>3, <1>4, <1>5

\* After the forward pass the tokens scheduled are in their slots, each with its own
\* text before it, and the other slots are as they were.
LEMMA ForwardPassFacts ==
  ASSUME NEW data, NEW rows, NEW out, NEW t, IsFiniteSet(DOMAIN out),
         RowsTrue(rows, out, t), OneWriter(rows, out), PrefixComes(data, rows, out, t)
  PROVE  LET after == ForwardPass(data, rows, out)
         IN  \A b \in Blocks : \A s \in 1 .. BlockSize :
               /\ Untouched(rows, out, b, s) => after[b][s] = data[b][s]
               /\ \A q, p : WritesTo(rows, out, q, p, b, s) => after[b][s] = KVEntry(q, t[q], p)
<1> DEFINE N == Cardinality(DOMAIN out)
<1>1. N \in Nat
  BY FS_CardinalityType
<1>2. PICK layer : /\ layer[0] = data
                   /\ \A l \in 1 .. N : layer[l] = Written(layer[l - 1], rows, out)
                   /\ ForwardPass(data, rows, out) = layer[N]
  BY <1>1, LayersDef
<1>3. \A q \in DOMAIN out : out[q].start \in Nat
  BY DEF RowsTrue
<1> DEFINE Same(l) == \A b \in Blocks : \A s \in 1 .. BlockSize :
                        Untouched(rows, out, b, s) => layer[l][b][s] = data[b][s]
           Right(l) == \A b \in Blocks : \A s \in 1 .. BlockSize : \A q, p :
                         WritesTo(rows, out, q, p, b, s) /\ Cardinality(Behind(out, q)) < l
                           => layer[l][b][s] = KVEntry(q, t[q], p)
           T == {l \in Nat : l <= N => Same(l) /\ Right(l)}
<1>4. 0 \in T
  <2>1. Same(0)
    BY <1>2
  <2>2. Right(0)
    <3>1. \A q \in DOMAIN out : Cardinality(Behind(out, q)) \in Nat
      BY <1>3, BehindFacts
    <3>2. \A q, p, b, s : WritesTo(rows, out, q, p, b, s) => q \in DOMAIN out
      BY DEF WritesTo
    <3>3. \A k \in Nat : ~ (k < 0)
      OBVIOUS
    <3> QED BY <3>1, <3>2, <3>3
  <2> QED BY <2>1, <2>2
<1>5. ASSUME NEW l \in T PROVE l + 1 \in T
  <2>1. l \in Nat /\ l + 1 \in Nat
    OBVIOUS
  <2>2. SUFFICES ASSUME l + 1 <= N PROVE Same(l + 1) /\ Right(l + 1)
    BY <2>1
  <2>3. Same(l) /\ Right(l)
    BY <2>1, <2>2, <1>1
  <2>4. layer[l + 1] = Written(layer[l], rows, out)
    <3>1. l + 1 \in 1 .. N /\ (l + 1) - 1 = l
      BY <2>1, <2>2, <1>1
    <3> HIDE DEF N
    <3> QED BY <3>1, <1>2
  <2>5. Same(l + 1)
    <3> HIDE DEF N
    <3> QED BY <2>3, <2>4, WrittenFacts
  <2>6. ASSUME NEW b \in Blocks, NEW s \in 1 .. BlockSize, NEW q, NEW p,
               WritesTo(rows, out, q, p, b, s), Cardinality(Behind(out, q)) < l + 1
        PROVE  layer[l + 1][b][s] = KVEntry(q, t[q], p)
    <3>1. q \in DOMAIN out /\ out[q].start \in Nat
      BY <2>6, <1>3 DEF WritesTo
    <3>2. SUFFICES ASSUME out[q].start > 0
                   PROVE  KVAt(layer[l], rows[q], out[q].start) = KVEntry(q, t[q], out[q].start)
      <4> HIDE DEF N
      <4> QED BY <3>1, <3>2, <2>4, <2>6, WrittenFacts
    <3> DEFINE c == BlockOf(rows[q], out[q].start)
               k == SlotOf(out[q].start)
    <3>3. /\ c \in Blocks
          /\ Untouched(rows, out, c, k) => data[c][k] = KVEntry(q, t[q], out[q].start)
          /\ \A w, x : WritesTo(rows, out, w, x, c, k) =>
               /\ KVEntry(w, t[w], x) = KVEntry(q, t[q], out[q].start)
               /\ out[w].start < out[q].start
      BY <3>1, <3>2 DEF PrefixComes
    <3>4. k \in 1 .. BlockSize
      BY <3>1, ManagerAssumption DEF SlotOf
    <3>5. KVAt(layer[l], rows[q], out[q].start) = layer[l][c][k]
      BY DEF KVAt
    <3> HIDE DEF c, k
    <3>6. CASE Untouched(rows, out, c, k)
      BY <3>3, <3>4, <3>5, <3>6, <2>3
    <3>7. CASE ~ Untouched(rows, out, c, k)
      <4>1. PICK w, x : WritesTo(rows, out, w, x, c, k)
        BY <3>7 DEF Untouched
      <4>2. w \in DOMAIN out /\ out[w].start < out[q].start
        BY <4>1, <3>3 DEF WritesTo
      <4>3. w \in Behind(out, q)
        BY <4>2 DEF Behind
      <4>4. Cardinality(Behind(out, w)) < Cardinality(Behind(out, q))
        BY <4>3, <3>1, <1>3, BehindFacts
      <4>5. Cardinality(Behind(out, w)) \in Nat /\ Cardinality(Behind(out, q)) \in Nat
        BY <4>2, <3>1, <1>3, BehindFacts
      <4>6. Cardinality(Behind(out, w)) < l
        BY <4>4, <4>5, <2>6, <2>1
      <4>7. layer[l][c][k] = KVEntry(w, t[w], x)
        BY <4>1, <4>6, <2>3, <3>3, <3>4
      <4> QED BY <4>7, <4>1, <3>3, <3>5
    <3> QED BY <3>6, <3>7
  <2>7. Right(l + 1)
    BY <2>6
  <2> QED BY <2>5, <2>7
<1>6. N \in T
  <2>1. T \in SUBSET Nat
    OBVIOUS
  <2> HIDE DEF T
  <2> QED BY <2>1, <1>1, <1>4, <1>5, NatSetInduction
<1>7. Same(N) /\ Right(N)
  BY <1>1, <1>6
<1>8. \A q \in DOMAIN out : Cardinality(Behind(out, q)) < N
  BY <1>3, BehindFacts
<1>9. \A q, p, b, s : WritesTo(rows, out, q, p, b, s) => q \in DOMAIN out
  BY DEF WritesTo
<1> HIDE DEF N
<1> QED BY <1>2, <1>7, <1>8, <1>9

\* The block of a request that position pos is in
PlaceOf(pos) == (pos - 1) \div BlockSize + 1

\* A position and its block and slot
LEMMA PlaceFacts ==
  ASSUME NEW pos \in Nat \ {0}
  PROVE  /\ PlaceOf(pos) \in Nat \ {0} /\ SlotOf(pos) \in 1 .. BlockSize
         /\ pos = (PlaceOf(pos) - 1) * BlockSize + SlotOf(pos)
         /\ pos <= PlaceOf(pos) * BlockSize
         /\ PlaceOf(pos) * BlockSize - BlockSize + SlotOf(pos) = pos
         /\ \A k \in Nat : PlaceOf(pos) <= k <=> pos <= k * BlockSize
         /\ \A x \in Nat \ {0} :
              PlaceOf(x) = PlaceOf(pos) /\ SlotOf(x) = SlotOf(pos) => x = pos
<1>1. BlockSize \in Nat /\ BlockSize > 0
  BY ManagerAssumption
<1>2. ASSUME NEW x \in Nat \ {0}
      PROVE  /\ PlaceOf(x) \in Nat \ {0} /\ SlotOf(x) \in 1 .. BlockSize
             /\ x = (PlaceOf(x) - 1) * BlockSize + SlotOf(x)
  <2> DEFINE y == x - 1
             d == y \div BlockSize
             m == y % BlockSize
  <2>1. y \in Nat /\ d \in Nat /\ m \in 0 .. BlockSize - 1 /\ y = d * BlockSize + m
    BY <1>1
  <2>2. PlaceOf(x) = d + 1 /\ SlotOf(x) = m + 1
    BY DEF PlaceOf, SlotOf
  <2> HIDE DEF d, m
  <2>3. PlaceOf(x) - 1 = d
    BY <2>1, <2>2
  <2>4. d * BlockSize + (m + 1) = x
    <3>1. d * BlockSize \in Nat
      BY <2>1, <1>1
    <3> QED BY <3>1, <2>1, <1>1
  <2> QED BY <2>1, <2>2, <2>3, <2>4, <1>1
<1> DEFINE p == PlaceOf(pos)
           s == SlotOf(pos)
<1>3. /\ p \in Nat \ {0} /\ s \in 1 .. BlockSize /\ pos = (p - 1) * BlockSize + s
  BY <1>2
<1>4. \A x \in Nat \ {0} : PlaceOf(x) = p /\ SlotOf(x) = s => x = pos
  BY <1>2, <1>3
<1> HIDE DEF p, s
<1>5. p * BlockSize = (p - 1) * BlockSize + BlockSize /\ (p - 1) * BlockSize \in Nat
  BY <1>1, <1>3
<1>6. pos <= p * BlockSize /\ p * BlockSize - BlockSize + s = pos
  BY <1>1, <1>3, <1>5
<1>7. ASSUME NEW k \in Nat PROVE p <= k <=> pos <= k * BlockSize
  <2>1. CASE p <= k
    <3>1. p * BlockSize <= k * BlockSize /\ p * BlockSize \in Nat /\ k * BlockSize \in Nat
      BY <2>1, <1>1, <1>3
    <3> QED BY <3>1, <2>1, <1>6
  <2>2. CASE ~ (p <= k)
    <3>1. k <= p - 1 /\ p - 1 \in Nat
      BY <2>2, <1>3
    <3>2. k * BlockSize <= (p - 1) * BlockSize /\ k * BlockSize \in Nat
      BY <3>1, <1>1
    <3> QED BY <3>2, <2>2, <1>3, <1>5, <1>1
  <2> QED BY <2>1, <2>2
<1> QED BY <1>3, <1>4, <1>6, <1>7 DEF p, s

\* The entry at slot s of a block with the hash h
HashData(h, s) == <<h[1], SubSeq(h[2], 1, Len(h[2]) - BlockSize + s)>>

\* A block with the hash of a request's tokens has the entries of these tokens.
LEMMA HashDataFacts ==
  ASSUME NEW r, NEW t \in Seq(Nat), NEW pos \in Nat \ {0},
         PlaceOf(pos) * BlockSize <= Len(t)
  PROVE  HashData(BlockHash(r, t, PlaceOf(pos)), SlotOf(pos)) = KVEntry(r, t, pos)
<1> DEFINE e == PlaceOf(pos) * BlockSize
           s == SlotOf(pos)
           u == SubSeq(t, 1, e)
<1>1. e - BlockSize + s = pos /\ pos <= e
  BY PlaceFacts
<1>2. e \in Nat /\ e <= Len(t)
  <2>1. PlaceOf(pos) \in Nat /\ BlockSize \in Nat
    BY PlaceFacts, ManagerAssumption
  <2> QED BY <2>1
<1>3. u \in Seq(Nat) /\ Len(u) = e /\ \A i \in 1 .. e : u[i] = t[i]
  <2> HIDE DEF e
  <2>1. /\ u \in Seq(Nat) /\ Len(u) = IF 1 <= e THEN e - 1 + 1 ELSE 0
        /\ \A i \in 1 .. e - 1 + 1 : u[i] = t[1 + i - 1]
    BY <1>2, SubSeqProperties
  <2> HIDE DEF u
  <2> QED BY <2>1, <1>2
<1> HIDE DEF e, u, s
<1>4. SubSeq(u, 1, pos) = SubSeq(t, 1, pos)
  <2>1. SubSeq(u, 1, pos) = [i \in 1 .. pos |-> u[i]] /\ SubSeq(t, 1, pos) = [i \in 1 .. pos |-> t[i]]
    OBVIOUS
  <2>2. \A i \in 1 .. pos : i \in 1 .. e
    BY <1>1, <1>2
  <2> QED BY <2>1, <2>2, <1>3
<1>5. HashData(<<ExtraKeys[r], u>>, s) = <<ExtraKeys[r], SubSeq(u, 1, pos)>>
  BY <1>1, <1>3 DEF HashData
<1>6. BlockHash(r, t, PlaceOf(pos)) = <<ExtraKeys[r], u>>
  BY DEF BlockHash, u, e
<1> QED BY <1>4, <1>5, <1>6 DEF KVEntry, s

-----------------------------------------------------------------------------
(***************************************************************************)
(* What a scheduled token attends to.                                      *)
(***************************************************************************)

\* The batch being put together computes slot s of block b.
Pending(out, blocks, b, s) ==
  \E q \in DOMAIN out : \E p \in Positions(out[q]) :
    blocks[q][PlaceOf(p)] = b /\ SlotOf(p) = s

\* The entry is in its slot, or will be before it is read.
Right(data, out, blocks, b, s, entry) ==
  data[b][s] = entry \/ Pending(out, blocks, b, s)

\* Hashes are those of the request's own tokens, in the list of hashes and on
\* the blocks held.
OwnHashes ==
  \A r \in Reqs :
    /\ \A i \in DOMAIN kv.hashes[r] : kv.hashes[r][i] = BlockHash(r, req[r].tokens, i)
    /\ \A i \in DOMAIN kv.blocks[r] :
         kv.pool.hash[kv.blocks[r][i]] # NoHash =>
           /\ kv.pool.hash[kv.blocks[r][i]] = BlockHash(r, req[r].tokens, i)
           /\ i * BlockSize <= Len(req[r].tokens)

\* A block that two requests hold is cached, and one of them at least has it
\* computed: two never compute it in the same batch.
SharedComputed ==
  \A r, s \in Reqs : r # s =>
    \A i \in DOMAIN kv.blocks[r] \cap DOMAIN kv.blocks[s] :
       kv.blocks[r][i] = kv.blocks[s][i] =>
         /\ kv.pool.hash[kv.blocks[r][i]] # NoHash
         /\ i * BlockSize <= req[r].computed \/ i * BlockSize <= req[s].computed

\* There is a block for every position computed or scheduled.
EnoughBlocks ==
  \A r \in Reqs :
    req[r].status = "running" => AdvancedTo(r) <= Len(kv.blocks[r]) * BlockSize

\* A request has the hashes of its first tokens from its first lookup on: no
\* prompt is shorter than a block.
HashesKnown ==
  EnableCaching => \A r \in Reqs :
    /\ req[r].status \in Queued => Len(req[r].tokens) >= BlockSize
    /\ req[r].status \in {"running", "preempted"} => kv.hashes[r] # << >>

KVOwn == OwnHashes /\ SharedComputed /\ EnoughBlocks /\ HashesKnown

\* The worker hears of r for the first time in this batch.
Fresh(r) == r \in DOMAIN step.out /\ step.out[r].kind = "new"

\* What the batch says of a request
OutTrue ==
  \A r \in DOMAIN step.out :
    LET e == step.out[r] IN
    /\ e.kind \in {"new", "running", "resumed"} /\ e.start = req[r].computed
    /\ e.tokens = IF e.kind = "new" THEN req[r].tokens
                  ELSE SubSeq(req[r].tokens, e.start + 1, e.start + e.n)
    /\ kv.blocks[r] = IF e.kind = "running" THEN runner.known[r].blocks \o e.ids
                      ELSE e.ids
    /\ e.kind = "resumed" => r \notin DOMAIN runner.rows

\* The worker knows a prefix of the tokens of a request, all that are computed,
\* and the tokens of all hashed blocks will be in it.
Known ==
  \A r \in Reqs : req[r].status \in {"running", "preempted"} /\ ~ Fresh(r) =>
    LET t == runner.known[r].tokens IN
    /\ r \in DOMAIN runner.known
    /\ Len(t) \in Nat /\ Len(t) <= Len(req[r].tokens) /\ t = SubSeq(req[r].tokens, 1, Len(t))
    /\ req[r].status = "running" => req[r].computed <= Len(t)
    /\ Len(kv.hashes[r]) * BlockSize <= Larger(Len(t), AdvancedTo(r))

\* The worker's block lists are the manager's, up to this batch.
BlocksMirrored ==
  \A r \in Reqs : req[r].status = "running" =>
    /\ r \notin DOMAIN step.out => kv.blocks[r] = runner.known[r].blocks
    /\ r \in DOMAIN runner.rows /\ (r \in DOMAIN step.out => step.out[r].kind = "running")
         => runner.rows[r].blocks = runner.known[r].blocks

\* Rows are of the requests of the last batch: one that is preempted has a row
\* until the next one only, in which nothing is resumed.
RowsOfRunning ==
  /\ \A r \in DOMAIN runner.rows : r \in Reqs /\ req[r].status = "preempted" => step.preempted
  /\ step.pc \in {"idle", "update", "waiting"} => ~ step.preempted

\* The requests to be dropped by the worker are gone.
FinishedOver == \A r \in finishedIds : r \in Reqs => req[r].status \in {"finished", "aborted"}

Mirror == OutTrue /\ Known /\ BlocksMirrored /\ RowsOfRunning /\ FinishedOver

\* A cached block has the entries its hash is of.
CachedData ==
  \A b \in Blocks, s \in 1 .. BlockSize :
    kv.pool.hash[b] # NoHash =>
      Right(runner.data, step.out, kv.blocks, b, s, HashData(kv.pool.hash[b], s))

\* So has the part of a running request that is computed.
OwnData ==
  \A r \in Reqs : req[r].status = "running" =>
    \A pos \in 1 .. req[r].computed :
      Right(runner.data, step.out, kv.blocks, kv.blocks[r][PlaceOf(pos)], SlotOf(pos),
            KVEntry(r, req[r].tokens, pos))

DataTrue == CachedData /\ OwnData

ReadInv == KVOwn /\ Mirror /\ DataTrue

-----------------------------------------------------------------------------
\* The batch is about running requests.
LEMMA OutFacts ==
  ASSUME KVInv, AssertInv
  PROVE  /\ DOMAIN step.out \subseteq Reqs /\ IsFiniteSet(DOMAIN step.out)
         /\ step.pc \in {"idle", "update"} => DOMAIN step.out = {}
         /\ \A r \in DOMAIN step.out :
              /\ req[r].status = "running"
              /\ step.out[r].n \in Nat \ {0} /\ step.out[r].start \in Int
              /\ step.out[r].spec = << >>
<1>1. step.pc \in {"idle", "update"} => DOMAIN step.out = {}
  BY DEF AssertInv, WithinLimits
<1>2. ASSUME NEW r \in DOMAIN step.out
      PROVE  /\ r \in Reqs /\ req[r].status = "running"
             /\ step.out[r].n \in Nat \ {0} /\ step.out[r].start \in Int
             /\ step.out[r].spec = << >>
  <2>1. r \in Range(running) /\ step.out[r].n > 0 /\ step.out[r].spec = << >>
    BY DEF AssertInv, WithinLimits
  <2>2. step.out[r].n \in Int /\ step.out[r].start \in Int
    BY DEF KVInv, Numbers, OutNumbers
  <2>3. running \in Seq(Reqs)
    BY DEF KVInv, QueueInv, Shapes
  <2>4. r \in Reqs
    BY <2>1, <2>3, RangeFacts
  <2>5. Live = Range(running)
    BY <1>1 DEF Live
  <2>6. req[r].status = "running"
    BY <2>1, <2>4, <2>5 DEF KVInv, QueueInv, StatusesMatch
  <2>7. step.out[r].n \in Nat \ {0}
    BY <2>1, <2>2
  <2> QED BY <2>1, <2>2, <2>4, <2>6, <2>7
<1>3. DOMAIN step.out \subseteq Reqs
  BY <1>2
<1>4. IsFiniteSet(DOMAIN step.out)
  BY <1>3, ReqsFinite, FS_Subset
<1> QED BY <1>1, <1>2, <1>3, <1>4

\* The types of a request's state, and what bounds its counts
LEMMA StateFacts ==
  ASSUME KVInv, AssertInv, NEW r \in Reqs
  PROVE  /\ req[r].tokens \in Seq(Nat)
         /\ Len(req[r].tokens) \in Nat /\ Len(req[r].tokens) <= MaxModelLen
         /\ req[r].computed \in Nat /\ AdvancedTo(r) \in Nat
         /\ req[r].computed <= AdvancedTo(r) /\ AdvancedTo(r) <= Len(req[r].tokens)
         /\ kv.blocks[r] \in Seq(Usable) /\ IsInjective(kv.blocks[r])
         /\ \A i \in DOMAIN kv.blocks[r] : i \in Nat \ {0} /\ kv.blocks[r][i] \in Usable
         /\ Len(kv.hashes[r]) \in Nat /\ DOMAIN kv.hashes[r] = 1 .. Len(kv.hashes[r])
         /\ Len(kv.hashes[r]) * BlockSize <= Len(req[r].tokens)
         /\ req[r].status # "running" =>
              /\ r \notin DOMAIN step.out /\ req[r].computed = 0 /\ AdvancedTo(r) = 0
              /\ kv.blocks[r] = << >>
         /\ req[r].tokens = << >> => kv.hashes[r] = << >>
<1>1. Fits(r)
  BY DEF AssertInv
<1>2. /\ req[r].tokens \in Seq(Nat) /\ Len(req[r].tokens) \in Nat /\ req[r].computed \in Int
      /\ Len(req[r].tokens) <= MaxModelLen
  BY <1>1 DEF KVInv, Numbers, RequestNumbers, Fits
<1>3. req[r].computed \in Nat
  BY <1>1, <1>2 DEF Fits
<1>4. AdvancedTo(r) \in Nat /\ req[r].computed <= AdvancedTo(r)
  <2>1. r \in DOMAIN step.out => step.out[r].n \in Nat
    BY OutFacts
  <2> QED BY <2>1, <1>3 DEF AdvancedTo
<1>5. AdvancedTo(r) <= Len(req[r].tokens)
  BY <1>1 DEF Fits
<1>6. kv.blocks[r] \in Seq(Usable) /\ IsInjective(kv.blocks[r])
  BY HeldFacts DEF KVInv
<1>7. \A i \in DOMAIN kv.blocks[r] : i \in Nat \ {0} /\ kv.blocks[r][i] \in Usable
  BY <1>6
<1>8. Len(kv.hashes[r]) \in Nat /\ DOMAIN kv.hashes[r] = 1 .. Len(kv.hashes[r])
  <2>1. PICK S : kv.hashes[r] \in Seq(S)
    BY DEF KVInv, ManagerInv, Chain
  <2> QED BY <2>1
<1>9. Len(kv.hashes[r]) * BlockSize <= Len(req[r].tokens)
  BY <1>1 DEF Fits, HashesOfTokens
<1>10. ASSUME req[r].status # "running"
       PROVE  /\ r \notin DOMAIN step.out /\ req[r].computed = 0 /\ AdvancedTo(r) = 0
              /\ kv.blocks[r] = << >>
  <2>1. r \notin DOMAIN step.out
    BY <1>10, OutFacts
  <2>2. req[r].computed = 0
    BY <1>1, <1>10 DEF Fits
  <2>3. AdvancedTo(r) = 0
    BY <2>1, <2>2 DEF AdvancedTo
  <2>4. r \notin Live
    BY <1>10 DEF KVInv, QueueInv, StatusesMatch
  <2>5. kv.blocks[r] = << >>
    BY <2>4 DEF KVInv, QueueInv, BlocksHeldByLive
  <2> QED BY <2>1, <2>2, <2>3, <2>5
<1>11. ASSUME req[r].tokens = << >> PROVE kv.hashes[r] = << >>
  <2>1. Len(req[r].tokens) = 0
    BY <1>11
  <2>2. Len(kv.hashes[r]) * BlockSize <= 0
    BY <2>1, <1>9
  <2>3. BlockSize \in Nat /\ BlockSize >= 1
    BY ManagerAssumption
  <2>4. Len(kv.hashes[r]) = 0
    <3> DEFINE l == Len(kv.hashes[r])
    <3>1. l \in Nat /\ l * BlockSize <= 0
      BY <2>2, <1>8
    <3> HIDE DEF l
    <3>2. l >= 1 => l * BlockSize >= BlockSize
      BY <3>1, <2>3
    <3>3. l = 0
      <4>1. ~ (l >= 1)
        <5>1. l * BlockSize \in Int
          BY <3>1, <2>3
        <5> QED BY <5>1, <3>1, <3>2, <2>3
      <4> QED BY <4>1, <3>1
    <3> QED BY <3>3 DEF l
  <2>5. PICK S : kv.hashes[r] \in Seq(S)
    BY DEF KVInv, ManagerInv, Chain
  <2> QED BY <2>4, <2>5
<1> QED BY <1>2, <1>3, <1>4, <1>5, <1>6, <1>7, <1>8, <1>9, <1>10, <1>11

\* Nothing runs and nothing is cached.
LEMMA InitReadInv == Init => ReadInv
<1> SUFFICES ASSUME Init PROVE ReadInv
  OBVIOUS
<1>1. /\ kv = InitManager /\ req = [r \in Reqs |-> Gone("unborn")] /\ step = NoStep
      /\ runner = InitRunner /\ finishedIds = {}
  BY DEF Init, SchedInit
<1>2. /\ \A r \in Reqs : kv.blocks[r] = << >> /\ kv.hashes[r] = << >>
      /\ \A b \in Blocks : kv.pool.hash[b] = NoHash
  BY <1>1 DEF InitManager, InitPool
<1>3. \A r \in Reqs : req[r].status = "unborn"
  BY <1>1 DEF Gone
<1>4. DOMAIN step.out = {} /\ ~ step.preempted
  BY <1>1 DEF NoStep
<1>5. DOMAIN runner.rows = {}
  BY <1>1 DEF InitRunner
<1>6. KVOwn
  BY <1>2, <1>3 DEF KVOwn, OwnHashes, SharedComputed, EnoughBlocks, HashesKnown, Queued
<1>7. Mirror
  BY <1>1, <1>3, <1>4, <1>5
     DEF Mirror, OutTrue, Known, BlocksMirrored, RowsOfRunning, FinishedOver
<1>8. DataTrue
  BY <1>2, <1>3 DEF DataTrue, CachedData, OwnData
<1> QED BY <1>6, <1>7, <1>8 DEF ReadInv

\* Slot s of the i-th block is at one position.
LEMMA PositionOf ==
  ASSUME NEW i \in Nat \ {0}, NEW s \in 1 .. BlockSize
  PROVE  LET pos == (i - 1) * BlockSize + s
         IN  pos \in Nat \ {0} /\ PlaceOf(pos) = i /\ SlotOf(pos) = s
             /\ pos <= i * BlockSize
<1>1. BlockSize \in Nat \ {0}
  BY ManagerAssumption
<1> DEFINE u == (i - 1) * BlockSize
           pos == u + s
           y == pos - 1
<1>2. u \in Nat /\ i * BlockSize = u + BlockSize
  <2>1. i - 1 \in Nat
    OBVIOUS
  <2>2. u \in Nat
    BY <2>1, <1>1
  <2>3. i * BlockSize = (i - 1) * BlockSize + BlockSize
    BY <1>1
  <2> QED BY <2>2, <2>3
<1> HIDE DEF u
<1>3. /\ y \in Nat /\ pos \in Nat \ {0} /\ u <= y /\ y < u + BlockSize
  BY <1>1, <1>2
<1>4. /\ y \div BlockSize \in Nat
      /\ i - 1 <= y \div BlockSize <=> (i - 1) * BlockSize <= y
      /\ i <= y \div BlockSize <=> i * BlockSize <= y
  <2> HIDE DEF y
  <2>1. i - 1 \in Nat /\ i \in Nat
    OBVIOUS
  <2> QED BY <2>1, <1>3, DivFacts
<1>5. y \div BlockSize = i - 1
  <2>1. i - 1 <= y \div BlockSize
    BY <1>3, <1>4 DEF u
  <2>2. ~ (i <= y \div BlockSize)
    BY <1>1, <1>2, <1>3, <1>4
  <2> HIDE DEF y
  <2> QED BY <2>1, <2>2, <1>4
<1>6. PlaceOf(pos) = i
  BY <1>5 DEF PlaceOf
<1>7. PlaceOf(pos) \in Nat \ {0} /\ pos = (PlaceOf(pos) - 1) * BlockSize + SlotOf(pos)
      /\ SlotOf(pos) \in 1 .. BlockSize
  <2> HIDE DEF pos
  <2> QED BY <1>3, PlaceFacts
<1>8. SlotOf(pos) = s
  <2>1. pos = u + SlotOf(pos)
    BY <1>6, <1>7 DEF u
  <2> DEFINE k == SlotOf(pos)
  <2>2. k \in Int /\ u + s = u + k
    BY <2>1, <1>1, <1>7
  <2> HIDE DEF k
  <2>3. k = s
    BY <2>2, <1>2
  <2> QED BY <2>3 DEF k
<1>9. pos <= i * BlockSize
  BY <1>1, <1>2
<1> QED BY <1>3, <1>6, <1>8, <1>9 DEF u

\* What is right stays right when the batch grows.
LEMMA RightStays ==
  ASSUME NEW data, NEW out, NEW blocks, NEW more, NEW held,
         \A q \in DOMAIN out : q \in DOMAIN more /\ more[q] = out[q] /\ held[q] = blocks[q],
         NEW b, NEW s, NEW entry, Right(data, out, blocks, b, s, entry)
  PROVE  Right(data, more, held, b, s, entry)
BY DEF Right, Pending

\* The blocks of c that hold its tokens up to start
Base(c, base, start) ==
  /\ base \in Seq(Usable) /\ start \in Nat /\ start <= Len(base) * BlockSize
  /\ \A i \in DOMAIN base : kv.pool.hash[base[i]] # NoHash =>
       /\ kv.pool.hash[base[i]] = BlockHash(c, req[c].tokens, i)
       /\ i * BlockSize <= Len(req[c].tokens)
  /\ \A s \in Reqs : s # c =>
       \A i \in DOMAIN base, j \in DOMAIN kv.blocks[s] : base[i] = kv.blocks[s][j] =>
         /\ kv.pool.hash[base[i]] # NoHash
         /\ i = j => i * BlockSize <= start \/ i * BlockSize <= req[s].computed
  /\ \A pos \in 1 .. start :
       Right(runner.data, step.out, kv.blocks, base[PlaceOf(pos)], SlotOf(pos),
             KVEntry(c, req[c].tokens, pos))

\* Request c is scheduled, the entry e, with these blocks and new ones.
Given(c, base, new, e) ==
  /\ c \in Reqs /\ c \notin DOMAIN step.out /\ req[c].status \in Queued \cup {"running"}
  /\ Base(c, base, e.start)
  /\ e.n \in Nat \ {0} /\ e.start + e.n <= Len(req[c].tokens)
  /\ req'[c].status = "running" /\ req'[c].tokens = req[c].tokens
  /\ req'[c].computed = e.start
  /\ \A s \in Reqs : s # c => req'[s] = req[s]
  /\ new \in Seq(Usable) /\ kv'.blocks[c] = base \o new
  /\ e.start + e.n <= Len(kv'.blocks[c]) * BlockSize
  /\ \A s \in Reqs : s # c =>
       kv'.blocks[s] = kv.blocks[s] /\ kv'.hashes[s] = kv.hashes[s]
  /\ \A b \in Range(new) : /\ b \notin Range(base)
                           /\ \A s \in Reqs : b \notin Range(kv.blocks[s])
  /\ \A b \in Blocks : kv.pool.hash[b] # NoHash /\ b \notin Range(new)
                         => kv'.pool.hash[b] = kv.pool.hash[b]
  /\ \A b \in Blocks : kv'.pool.hash[b] # NoHash =>
       \/ kv'.pool.hash[b] = kv.pool.hash[b] /\ b \notin Range(new)
       \/ \E i \in DOMAIN kv'.blocks[c] :
            /\ kv'.blocks[c][i] = b
            /\ kv'.pool.hash[b] = BlockHash(c, req[c].tokens, i)
            /\ i * BlockSize <= e.start + e.n
  /\ \A i \in DOMAIN kv'.hashes[c] : kv'.hashes[c][i] = BlockHash(c, req[c].tokens, i)
  /\ EnableCaching => kv'.hashes[c] # << >>
  /\ runner' = runner /\ finishedIds' = finishedIds
  /\ DOMAIN step'.out = DOMAIN step.out \cup {c} /\ step'.out[c] = e
  /\ \A s \in DOMAIN step.out : step'.out[s] = step.out[s]

\* The blocks of the request that is scheduled
LEMMA GivenBlocks ==
  ASSUME NEW c, NEW base, NEW new, NEW e, Given(c, base, new, e), ManagerInv(kv')
  PROVE  /\ kv'.blocks[c] \in Seq(Usable)
         /\ \A i, j \in DOMAIN kv'.blocks[c] : kv'.blocks[c][i] = kv'.blocks[c][j] => i = j
         /\ \A i \in DOMAIN base : /\ i \in Nat \ {0} /\ i \in DOMAIN kv'.blocks[c]
                                   /\ kv'.blocks[c][i] = base[i] /\ base[i] \in Usable
                                   /\ base[i] \notin Range(new)
         /\ \A i \in DOMAIN kv'.blocks[c] : /\ i \in Nat \ {0} /\ kv'.blocks[c][i] \in Usable
                                            /\ i \in DOMAIN base \/ kv'.blocks[c][i] \in Range(new)
         /\ \A pos \in 1 .. e.start : PlaceOf(pos) \in DOMAIN base
<1> DEFINE bs == kv'.blocks[c]
<1>1. /\ base \in Seq(Usable) /\ new \in Seq(Usable) /\ bs = base \o new /\ c \in Reqs
      /\ e.start \in Nat /\ e.start <= Len(base) * BlockSize
      /\ \A b \in Range(new) : b \notin Range(base)
  BY DEF Given, Base
<1>2. bs \in Seq(Usable) /\ IsInjective(bs)
  BY <1>1, HeldFacts
<1>3. \A i, j \in DOMAIN bs : bs[i] = bs[j] => i = j
  BY <1>2, RangeFacts
<1>4. Range(base) = {base[i] : i \in 1 .. Len(base)} /\ Range(new) = {new[i] : i \in 1 .. Len(new)}
  BY <1>1, RangeFacts
<1>5. /\ Len(bs) = Len(base) + Len(new) /\ Len(base) \in Nat /\ Len(new) \in Nat
      /\ \A i \in 1 .. Len(base) : bs[i] = base[i]
      /\ \A i \in 1 .. Len(new) : bs[Len(base) + i] = new[i]
  BY <1>1, ConcatProperties
<1>6. DOMAIN base = 1 .. Len(base) /\ DOMAIN bs = 1 .. Len(bs)
  BY <1>1, <1>2
<1>7. ASSUME NEW i \in DOMAIN base
      PROVE  /\ i \in Nat \ {0} /\ i \in DOMAIN bs
             /\ bs[i] = base[i] /\ base[i] \in Usable /\ base[i] \notin Range(new)
  <2>1. i \in 1 .. Len(base) /\ i \in DOMAIN bs
    BY <1>5, <1>6
  <2>2. base[i] \in Range(base) /\ base[i] \in Usable
    BY <2>1, <1>1, <1>4
  <2> QED BY <2>1, <2>2, <1>1, <1>5
<1>8. ASSUME NEW i \in DOMAIN bs
      PROVE  /\ i \in Nat \ {0} /\ bs[i] \in Usable
             /\ i \in DOMAIN base \/ bs[i] \in Range(new)
  <2>1. i \in Nat \ {0} /\ bs[i] \in Usable
    BY <1>2
  <2>2. CASE i <= Len(base)
    BY <2>1, <2>2, <1>6, <1>5
  <2>3. CASE ~ (i <= Len(base))
    <3>1. i - Len(base) \in 1 .. Len(new)
      BY <2>1, <2>3, <1>5, <1>6
    <3>2. bs[Len(base) + (i - Len(base))] = new[i - Len(base)]
      BY <3>1, <1>5
    <3>3. Len(base) + (i - Len(base)) = i
      BY <2>1, <1>5
    <3> QED BY <2>1, <3>1, <3>2, <3>3, <1>4
  <2> QED BY <2>2, <2>3
<1>9. ASSUME NEW pos \in 1 .. e.start PROVE PlaceOf(pos) \in DOMAIN base
  <2>1. pos \in Nat \ {0} /\ pos <= e.start
    BY <1>1
  <2>2. Len(base) * BlockSize \in Nat
    BY <1>5, ManagerAssumption
  <2>3. pos <= Len(base) * BlockSize
    <3> DEFINE k == Len(base) * BlockSize
    <3>1. k \in Nat /\ e.start <= k
      BY <2>2, <1>1
    <3> HIDE DEF k
    <3>2. pos <= k
      BY <2>1, <3>1, <1>1
    <3> QED BY <3>2 DEF k
  <2>4. PlaceOf(pos) \in Nat \ {0} /\ (PlaceOf(pos) <= Len(base) <=> pos <= Len(base) * BlockSize)
    BY <2>1, <1>5, PlaceFacts
  <2> QED BY <2>3, <2>4, <1>5, <1>6
<1> HIDE DEF bs
<1>10. QED BY <1>2, <1>3, <1>7, <1>8, <1>9 DEF bs

\* The hashes of the blocks that the other requests hold stay.
LEMMA GivenHashes ==
  ASSUME KVInv, AssertInv, ReadInv, NEW c, NEW base, NEW new, NEW e,
         Given(c, base, new, e), ManagerInv(kv'),
         NEW s \in Reqs, s # c, NEW j \in DOMAIN kv.blocks[s]
  PROVE  LET b == kv.blocks[s][j]
         IN  /\ b \in Usable /\ b \notin Range(new)
             /\ kv.pool.hash[b] # NoHash => kv'.pool.hash[b] = kv.pool.hash[b]
             /\ kv'.pool.hash[b] # NoHash => kv'.pool.hash[b] = kv.pool.hash[b]
<1>1. PICK b : b = kv.blocks[s][j]
  OBVIOUS
<1>2. /\ b \in Usable /\ b \in Blocks
      /\ kv.blocks[s] \in Seq(Usable)
  BY <1>1, StateFacts DEF Usable
<1>3. b \in Range(kv.blocks[s])
  BY <1>1, <1>2, RangeFacts
<1>4. b \notin Range(new)
  BY <1>3 DEF Given
<1>5. kv.pool.hash[b] # NoHash => kv'.pool.hash[b] = kv.pool.hash[b]
  BY <1>2, <1>4 DEF Given
<1>6. ASSUME kv'.pool.hash[b] # NoHash PROVE kv'.pool.hash[b] = kv.pool.hash[b]
  <2>1. CASE kv.pool.hash[b] # NoHash
    BY <2>1, <1>5
  <2>2. CASE kv.pool.hash[b] = NoHash
    <3>1. PICK i \in DOMAIN kv'.blocks[c] : kv'.blocks[c][i] = b
      BY <1>2, <1>6, <2>2 DEF Given
    <3>2. i \in DOMAIN base /\ base[i] = b
      BY <3>1, <1>4, GivenBlocks
    <3>3. kv.pool.hash[base[i]] # NoHash
      BY <3>2, <1>1 DEF Given, Base
    <3> QED BY <3>2, <3>3, <2>2
  <2> QED BY <2>1, <2>2
<1> QED BY <1>1, <1>2, <1>4, <1>5, <1>6

\* The hashes of the request's own blocks
LEMMA GivenOwnHashes ==
  ASSUME KVInv, AssertInv, ReadInv, NEW c, NEW base, NEW new, NEW e,
         Given(c, base, new, e), ManagerInv(kv')
  PROVE  OwnHashes'
<1>1. /\ c \in Reqs /\ req'[c].tokens = req[c].tokens
      /\ \A s \in Reqs : s # c => /\ req'[s] = req[s] /\ kv'.blocks[s] = kv.blocks[s]
                                  /\ kv'.hashes[s] = kv.hashes[s]
      /\ \A i \in DOMAIN kv'.hashes[c] : kv'.hashes[c][i] = BlockHash(c, req[c].tokens, i)
      /\ Base(c, base, e.start)
      /\ e.start + e.n <= Len(req[c].tokens) /\ e.n \in Nat \ {0}
  BY DEF Given
<1>2. \A s \in Reqs :
        /\ \A i \in DOMAIN kv.hashes[s] : kv.hashes[s][i] = BlockHash(s, req[s].tokens, i)
        /\ \A i \in DOMAIN kv.blocks[s] : kv.pool.hash[kv.blocks[s][i]] # NoHash =>
             /\ kv.pool.hash[kv.blocks[s][i]] = BlockHash(s, req[s].tokens, i)
             /\ i * BlockSize <= Len(req[s].tokens)
  BY DEF ReadInv, KVOwn, OwnHashes
<1>3. ASSUME NEW s \in Reqs, NEW i \in DOMAIN kv'.hashes[s]
      PROVE  kv'.hashes[s][i] = BlockHash(s, req'[s].tokens, i)
  <2>1. CASE s = c
    BY <2>1, <1>1, <1>3
  <2>2. CASE s # c
    BY <2>2, <1>1, <1>2, <1>3
  <2> QED BY <2>1, <2>2
<1>4. ASSUME NEW i \in DOMAIN kv'.blocks[c], kv'.pool.hash[kv'.blocks[c][i]] # NoHash
      PROVE  /\ kv'.pool.hash[kv'.blocks[c][i]] = BlockHash(c, req[c].tokens, i)
             /\ i * BlockSize <= Len(req[c].tokens)
  <2>1. PICK b : b = kv'.blocks[c][i]
    OBVIOUS
  <2>2. /\ b \in Blocks /\ i \in Nat \ {0}
        /\ i \in DOMAIN base /\ b \notin Range(new) => base[i] = b
    BY <2>1, GivenBlocks DEF Usable
  <2>3. \/ kv'.pool.hash[b] = kv.pool.hash[b] /\ b \notin Range(new)
        \/ \E j \in DOMAIN kv'.blocks[c] :
             /\ kv'.blocks[c][j] = b
             /\ kv'.pool.hash[b] = BlockHash(c, req[c].tokens, j)
             /\ j * BlockSize <= e.start + e.n
    BY <1>4, <2>1, <2>2 DEF Given
  <2>4. CASE kv'.pool.hash[b] = kv.pool.hash[b] /\ b \notin Range(new)
    <3>1. i \in DOMAIN base /\ base[i] = b
      BY <2>1, <2>4, GivenBlocks
    <3> QED BY <3>1, <2>1, <2>4, <1>1, <1>4 DEF Base
  <2>5. CASE \E j \in DOMAIN kv'.blocks[c] :
               /\ kv'.blocks[c][j] = b
               /\ kv'.pool.hash[b] = BlockHash(c, req[c].tokens, j)
               /\ j * BlockSize <= e.start + e.n
    <3>1. PICK j \in DOMAIN kv'.blocks[c] :
               /\ kv'.blocks[c][j] = b
               /\ kv'.pool.hash[b] = BlockHash(c, req[c].tokens, j)
               /\ j * BlockSize <= e.start + e.n
      BY <2>5
    <3>2. j = i
      BY <3>1, <2>1, GivenBlocks
    <3>3. i * BlockSize <= e.start + e.n
      BY <3>1, <3>2
    <3>4. /\ i * BlockSize \in Nat /\ e.start + e.n \in Nat /\ Len(req[c].tokens) \in Nat
      <4>1. e.start \in Nat
        BY <1>1 DEF Base
      <4>2. i * BlockSize \in Nat
        BY <2>2, ManagerAssumption
      <4> QED BY <4>1, <4>2, <1>1, StateFacts
    <3>5. i * BlockSize <= Len(req[c].tokens)
      <4> DEFINE x == i * BlockSize
                 y == e.start + e.n
      <4>1. x \in Nat /\ y \in Nat /\ x <= y /\ y <= Len(req[c].tokens)
        BY <3>3, <3>4, <1>1
      <4> HIDE DEF x, y
      <4>2. x <= Len(req[c].tokens)
        BY <4>1, <3>4
      <4> QED BY <4>2 DEF x
    <3> QED BY <3>1, <3>2, <3>5, <2>1
  <2> QED BY <2>3, <2>4, <2>5
<1>5. ASSUME NEW s \in Reqs, s # c, NEW i \in DOMAIN kv'.blocks[s],
             kv'.pool.hash[kv'.blocks[s][i]] # NoHash
      PROVE  /\ kv'.pool.hash[kv'.blocks[s][i]] = BlockHash(s, req'[s].tokens, i)
             /\ i * BlockSize <= Len(req'[s].tokens)
  <2>1. kv'.blocks[s] = kv.blocks[s] /\ req'[s] = req[s] /\ i \in DOMAIN kv.blocks[s]
    BY <1>1, <1>5
  <2>2. kv'.pool.hash[kv.blocks[s][i]] = kv.pool.hash[kv.blocks[s][i]]
    BY <2>1, <1>5, GivenHashes
  <2> QED BY <2>1, <2>2, <1>2, <1>5
<1>6. ASSUME NEW s \in Reqs, NEW i \in DOMAIN kv'.blocks[s],
             kv'.pool.hash[kv'.blocks[s][i]] # NoHash
      PROVE  /\ kv'.pool.hash[kv'.blocks[s][i]] = BlockHash(s, req'[s].tokens, i)
             /\ i * BlockSize <= Len(req'[s].tokens)
  <2>1. CASE s = c
    BY <2>1, <1>1, <1>4, <1>6
  <2>2. CASE s # c
    BY <2>2, <1>5, <1>6
  <2> QED BY <2>1, <2>2
<1> QED BY <1>3, <1>6 DEF OwnHashes

\* Only blocks that are cached and computed are shared with the request.
LEMMA GivenShared ==
  ASSUME KVInv, AssertInv, ReadInv, NEW c, NEW base, NEW new, NEW e,
         Given(c, base, new, e), ManagerInv(kv')
  PROVE  SharedComputed'
<1>1. /\ c \in Reqs /\ req'[c].computed = e.start
      /\ \A s \in Reqs : s # c => req'[s] = req[s] /\ kv'.blocks[s] = kv.blocks[s]
      /\ Base(c, base, e.start)
  BY DEF Given
<1>2. ASSUME NEW s \in Reqs, s # c, NEW i \in DOMAIN kv'.blocks[c] \cap DOMAIN kv'.blocks[s],
             kv'.blocks[c][i] = kv'.blocks[s][i]
      PROVE  /\ kv'.pool.hash[kv'.blocks[c][i]] # NoHash
             /\ i * BlockSize <= req'[c].computed \/ i * BlockSize <= req'[s].computed
  <2>1. kv'.blocks[s] = kv.blocks[s] /\ i \in DOMAIN kv.blocks[s] /\ req'[s] = req[s]
    BY <1>1, <1>2
  <2>2. PICK b : b = kv.blocks[s][i]
    OBVIOUS
  <2>3. /\ b \notin Range(new)
        /\ kv.pool.hash[b] # NoHash => kv'.pool.hash[b] = kv.pool.hash[b]
    BY <1>2, <2>1, <2>2, GivenHashes
  <2>4. i \in DOMAIN base /\ base[i] = b
    BY <1>2, <2>1, <2>2, <2>3, GivenBlocks
  <2>5. /\ kv.pool.hash[b] # NoHash
        /\ i * BlockSize <= e.start \/ i * BlockSize <= req[s].computed
    BY <2>1, <2>2, <2>4, <1>1, <1>2 DEF Base
  <2> QED BY <1>1, <1>2, <2>1, <2>2, <2>3, <2>5
<1>3. ASSUME NEW r \in Reqs, NEW s \in Reqs, r # s,
             NEW i \in DOMAIN kv'.blocks[r] \cap DOMAIN kv'.blocks[s],
             kv'.blocks[r][i] = kv'.blocks[s][i]
      PROVE  /\ kv'.pool.hash[kv'.blocks[r][i]] # NoHash
             /\ i * BlockSize <= req'[r].computed \/ i * BlockSize <= req'[s].computed
  <2>1. CASE r = c
    BY <2>1, <1>2, <1>3
  <2>2. CASE s = c
    <3>1. /\ kv'.pool.hash[kv'.blocks[s][i]] # NoHash
          /\ i * BlockSize <= req'[s].computed \/ i * BlockSize <= req'[r].computed
      BY <2>2, <1>2, <1>3
    <3> QED BY <3>1, <1>3
  <2>3. CASE r # c /\ s # c
    <3>1. /\ kv'.blocks[r] = kv.blocks[r] /\ kv'.blocks[s] = kv.blocks[s]
          /\ req'[r] = req[r] /\ req'[s] = req[s]
      BY <2>3, <1>1
    <3>2. /\ kv.pool.hash[kv.blocks[r][i]] # NoHash
          /\ i * BlockSize <= req[r].computed \/ i * BlockSize <= req[s].computed
      BY <3>1, <1>3 DEF ReadInv, KVOwn, SharedComputed
    <3>3. kv'.pool.hash[kv.blocks[r][i]] = kv.pool.hash[kv.blocks[r][i]]
      <4>1. i \in DOMAIN kv.blocks[r] /\ ManagerInv(kv')
        BY <3>1, <1>3
      <4>2. kv.pool.hash[kv.blocks[r][i]] # NoHash
              => kv'.pool.hash[kv.blocks[r][i]] = kv.pool.hash[kv.blocks[r][i]]
        BY <2>3, <4>1, GivenHashes
      <4> QED BY <3>2, <4>2
    <3> QED BY <3>1, <3>2, <3>3
  <2> QED BY <2>1, <2>2, <2>3
<1> QED BY <1>3 DEF SharedComputed

\* How far the requests have got once c is scheduled
LEMMA GivenAdvance ==
  ASSUME NEW c, NEW base, NEW new, NEW e, Given(c, base, new, e)
  PROVE  /\ AdvancedTo(c)' = e.start + e.n
         /\ \A s \in Reqs : s # c => AdvancedTo(s)' = AdvancedTo(s)
<1>1. /\ req'[c].computed = e.start /\ c \in DOMAIN step'.out /\ step'.out[c] = e
      /\ \A s \in Reqs : s # c => req'[s] = req[s]
      /\ DOMAIN step'.out = DOMAIN step.out \cup {c}
      /\ \A s \in DOMAIN step.out : step'.out[s] = step.out[s]
  BY DEF Given
<1>2. AdvancedTo(c)' = e.start + e.n
  BY <1>1 DEF AdvancedTo
<1>3. ASSUME NEW s \in Reqs, s # c PROVE AdvancedTo(s)' = AdvancedTo(s)
  BY <1>1, <1>3 DEF AdvancedTo
<1> QED BY <1>2, <1>3

LEMMA GivenKVOwn ==
  ASSUME KVInv, AssertInv, ReadInv, NEW c, NEW base, NEW new, NEW e,
         Given(c, base, new, e), ManagerInv(kv')
  PROVE  KVOwn'
<1>1. /\ c \in Reqs /\ req[c].status \in Queued \cup {"running"}
      /\ req'[c].status = "running" /\ req'[c].tokens = req[c].tokens
      /\ \A s \in Reqs : s # c => /\ req'[s] = req[s] /\ kv'.blocks[s] = kv.blocks[s]
                                  /\ kv'.hashes[s] = kv.hashes[s]
      /\ EnableCaching => kv'.hashes[c] # << >>
      /\ e.start + e.n <= Len(kv'.blocks[c]) * BlockSize
  BY DEF Given
<1>2. OwnHashes' /\ SharedComputed'
  BY GivenOwnHashes, GivenShared
<1>3. EnoughBlocks'
  <2> SUFFICES ASSUME NEW s \in Reqs, req'[s].status = "running"
               PROVE  AdvancedTo(s)' <= Len(kv'.blocks[s]) * BlockSize
    BY DEF EnoughBlocks
  <2>1. CASE s = c
    <3>1. AdvancedTo(c)' = e.start + e.n
      BY GivenAdvance
    <3> QED BY <2>1, <3>1, <1>1
  <2>2. CASE s # c
    <3>1. AdvancedTo(s)' = AdvancedTo(s)
      BY <2>2, GivenAdvance
    <3>2. AdvancedTo(s) <= Len(kv.blocks[s]) * BlockSize
      BY <2>2, <1>1 DEF ReadInv, KVOwn, EnoughBlocks
    <3> QED BY <2>2, <3>1, <3>2, <1>1
  <2> QED BY <2>1, <2>2
<1>4. HashesKnown'
  <2> SUFFICES ASSUME EnableCaching, NEW s \in Reqs
               PROVE  /\ req'[s].status \in Queued => Len(req'[s].tokens) >= BlockSize
                      /\ req'[s].status \in {"running", "preempted"} => kv'.hashes[s] # << >>
    BY DEF HashesKnown
  <2>1. CASE s = c
    BY <2>1, <1>1 DEF Queued
  <2>2. CASE s # c
    BY <2>2, <1>1 DEF ReadInv, KVOwn, HashesKnown
  <2> QED BY <2>1, <2>2
<1> QED BY <1>2, <1>3, <1>4 DEF KVOwn

\* Blocks that become cached now have their entries, or will have them.
LEMMA GivenDataTrue ==
  ASSUME KVInv, AssertInv, ReadInv, NEW c, NEW base, NEW new, NEW e,
         Given(c, base, new, e), ManagerInv(kv')
  PROVE  DataTrue'
<1>1. /\ c \in Reqs /\ c \notin DOMAIN step.out
      /\ req'[c].tokens = req[c].tokens /\ req'[c].computed = e.start
      /\ \A s \in Reqs : s # c => req'[s] = req[s] /\ kv'.blocks[s] = kv.blocks[s]
      /\ Base(c, base, e.start)
      /\ e.n \in Nat \ {0} /\ e.start + e.n <= Len(req[c].tokens)
      /\ runner' = runner
      /\ DOMAIN step'.out = DOMAIN step.out \cup {c} /\ step'.out[c] = e
      /\ \A s \in DOMAIN step.out : step'.out[s] = step.out[s]
  BY DEF Given
<1>2. e.start \in Nat /\ req[c].tokens \in Seq(Nat)
  BY <1>1, StateFacts DEF Base
<1>3. \A q \in DOMAIN step.out : /\ q \in DOMAIN step'.out /\ step'.out[q] = step.out[q]
                                 /\ kv'.blocks[q] = kv.blocks[q]
  BY <1>1, OutFacts
<1>4. ASSUME NEW b, NEW s, NEW entry, Right(runner.data, step.out, kv.blocks, b, s, entry)
      PROVE  Right(runner.data, step'.out, kv'.blocks, b, s, entry)
  BY ONLY <1>3, <1>4, RightStays
<1>5. ASSUME NEW pos \in Nat \ {0}, e.start < pos, pos <= e.start + e.n, NEW entry
      PROVE  Right(runner.data, step'.out, kv'.blocks, kv'.blocks[c][PlaceOf(pos)],
                   SlotOf(pos), entry)
  <2>1. pos \in Positions(e)
    BY <1>1, <1>2, <1>5 DEF Positions
  <2>2. c \in DOMAIN step'.out /\ pos \in Positions(step'.out[c])
    BY <2>1, <1>1
  <2> QED BY <2>2 DEF Right, Pending
<1>6. ASSUME NEW pos \in 1 .. e.start
      PROVE  Right(runner.data, step'.out, kv'.blocks, kv'.blocks[c][PlaceOf(pos)],
                   SlotOf(pos), KVEntry(c, req[c].tokens, pos))
  <2>1. kv'.blocks[c][PlaceOf(pos)] = base[PlaceOf(pos)]
    BY <1>6, GivenBlocks
  <2>2. Right(runner.data, step.out, kv.blocks, base[PlaceOf(pos)], SlotOf(pos),
              KVEntry(c, req[c].tokens, pos))
    BY <1>1, <1>6 DEF Base
  <2> QED BY <2>1, <2>2, <1>4
<1>7. CachedData'
  <2> SUFFICES ASSUME NEW b \in Blocks, NEW s \in 1 .. BlockSize, kv'.pool.hash[b] # NoHash
               PROVE  Right(runner.data, step'.out, kv'.blocks, b, s,
                            HashData(kv'.pool.hash[b], s))
    BY <1>1 DEF CachedData
  <2>1. \/ kv'.pool.hash[b] = kv.pool.hash[b] /\ b \notin Range(new)
        \/ \E i \in DOMAIN kv'.blocks[c] :
             /\ kv'.blocks[c][i] = b
             /\ kv'.pool.hash[b] = BlockHash(c, req[c].tokens, i)
             /\ i * BlockSize <= e.start + e.n
    BY DEF Given
  <2>2. CASE kv'.pool.hash[b] = kv.pool.hash[b] /\ b \notin Range(new)
    <3>1. Right(runner.data, step.out, kv.blocks, b, s, HashData(kv.pool.hash[b], s))
      BY <2>2 DEF ReadInv, DataTrue, CachedData
    <3> QED BY <3>1, <2>2, <1>4
  <2>3. CASE \E i \in DOMAIN kv'.blocks[c] :
             /\ kv'.blocks[c][i] = b
             /\ kv'.pool.hash[b] = BlockHash(c, req[c].tokens, i)
             /\ i * BlockSize <= e.start + e.n
    <3>1. PICK i \in DOMAIN kv'.blocks[c] :
             /\ kv'.blocks[c][i] = b
             /\ kv'.pool.hash[b] = BlockHash(c, req[c].tokens, i)
             /\ i * BlockSize <= e.start + e.n
      BY <2>3
    <3>2. i \in Nat \ {0}
      BY <3>1, GivenBlocks
    <3>3. PICK pos \in Nat \ {0} : PlaceOf(pos) = i /\ SlotOf(pos) = s /\ pos <= i * BlockSize
      BY <3>2, PositionOf
    <3>4. i * BlockSize \in Nat
      BY <3>2, ManagerAssumption
    <3>5. pos <= e.start + e.n /\ i * BlockSize <= Len(req[c].tokens)
      <4> DEFINE x == i * BlockSize
      <4>1. x \in Nat /\ pos <= x /\ x <= e.start + e.n
        BY <3>1, <3>3, <3>4
      <4>2. Len(req[c].tokens) \in Nat
        BY <1>2
      <4> HIDE DEF x
      <4>3. pos <= e.start + e.n /\ x <= Len(req[c].tokens)
        BY <4>1, <4>2, <1>1, <1>2
      <4> QED BY <4>3 DEF x
    <3>6. HashData(BlockHash(c, req[c].tokens, PlaceOf(pos)), SlotOf(pos))
            = KVEntry(c, req[c].tokens, pos)
      <4>1. PlaceOf(pos) * BlockSize <= Len(req[c].tokens)
        BY <3>3, <3>5
      <4> QED BY <4>1, <1>2, HashDataFacts
    <3>7. HashData(kv'.pool.hash[b], s) = KVEntry(c, req[c].tokens, pos)
      BY <3>1, <3>3, <3>6
    <3>8. Right(runner.data, step'.out, kv'.blocks, kv'.blocks[c][PlaceOf(pos)], SlotOf(pos),
                KVEntry(c, req[c].tokens, pos))
      <4>1. CASE pos <= e.start
        BY <4>1, <1>2, <1>6
      <4>2. CASE ~ (pos <= e.start)
        BY <4>2, <3>5, <1>2, <1>5
      <4> QED BY <4>1, <4>2
    <3> QED BY <3>1, <3>3, <3>7, <3>8
  <2> QED BY <2>1, <2>2, <2>3
<1>8. OwnData'
  <2> SUFFICES ASSUME NEW s \in Reqs, req'[s].status = "running",
                      NEW pos \in 1 .. req'[s].computed
               PROVE  Right(runner.data, step'.out, kv'.blocks, kv'.blocks[s][PlaceOf(pos)],
                            SlotOf(pos), KVEntry(s, req'[s].tokens, pos))
    BY <1>1 DEF OwnData
  <2>1. CASE s = c
    BY <2>1, <1>1, <1>6
  <2>2. CASE s # c
    <3>1. Right(runner.data, step.out, kv.blocks, kv.blocks[s][PlaceOf(pos)], SlotOf(pos),
                KVEntry(s, req[s].tokens, pos))
      BY <2>2, <1>1 DEF ReadInv, DataTrue, OwnData
    <3> QED BY <2>2, <3>1, <1>1, <1>4
  <2> QED BY <2>1, <2>2
<1> QED BY <1>7, <1>8 DEF DataTrue

\* What allocate_slots does gives the request its blocks.
LEMMA AllocationGiven ==
  ASSUME KVInv, AssertInv, ReadInv, NEW c \in Reqs, c \notin DOMAIN step.out,
         req[c].status \in Queued \cup {"running"},
         NEW m, ManagerInv(m), \A s \in Reqs : m.blocks[s] = kv.blocks[s], m.pool = kv.pool,
         \A i \in DOMAIN m.hashes[c] : m.hashes[c][i] = BlockHash(c, req[c].tokens, i),
         EnableCaching => m.hashes[c] # << >>,
         NEW comp \in Seq(Usable), NEW new, NEW e, e.n \in Nat \ {0},
         e.start = req[c].computed + Len(comp) * BlockSize,
         e.start + e.n <= Len(req[c].tokens),
         Base(c, kv.blocks[c] \o comp, e.start),
         Allocated(m, c, req[c], e.n, comp, new, kv'),
         \A s \in Reqs : s # c =>
           kv'.blocks[s] = kv.blocks[s] /\ kv'.hashes[s] = kv.hashes[s],
         req'[c].status = "running", req'[c].tokens = req[c].tokens,
         req'[c].computed = e.start, \A s \in Reqs : s # c => req'[s] = req[s],
         runner' = runner, finishedIds' = finishedIds,
         step'.out = WithScheduled(step.out, c, e)
  PROVE  Given(c, kv.blocks[c] \o comp, new, e)
<1> DEFINE base == kv.blocks[c] \o comp
           total == req[c].computed + Len(comp) * BlockSize + e.n
<1>1. total = e.start + e.n
  OBVIOUS
<1>2. /\ new \in Seq(Usable) /\ kv'.blocks[c] = base \o new
      /\ total <= Len(kv'.blocks[c]) * BlockSize
      /\ \A b \in Range(new) : /\ b \notin Range(comp)
                               /\ \A s \in Reqs : b \notin Range(kv.blocks[s])
      /\ \A b \in Blocks : kv.pool.hash[b] # NoHash /\ b \notin Range(new)
                             => kv'.pool.hash[b] = kv.pool.hash[b]
  <2>1. /\ new \in Seq(Usable) /\ kv'.blocks[c] = (m.blocks[c] \o comp) \o new
        /\ total <= Len(kv'.blocks[c]) * BlockSize
    BY DEF Allocated
  <2>2. \A b \in Range(new) : b \notin Range(comp)
    BY DEF Allocated
  <2>3. \A b \in Range(new) : \A s \in Reqs : b \notin Range(m.blocks[s])
    BY DEF Allocated
  <2>4. \A b \in Blocks : m.pool.hash[b] # NoHash /\ b \notin Range(new)
                             => kv'.pool.hash[b] = m.pool.hash[b]
    BY DEF Allocated
  <2>5. m.blocks[c] = kv.blocks[c]
    OBVIOUS
  <2>6. \A b \in Range(new) : \A s \in Reqs : b \notin Range(kv.blocks[s])
    BY <2>3
  <2> HIDE DEF total
  <2> QED BY <2>1, <2>2, <2>4, <2>5, <2>6
<1>3. \A b \in Blocks : kv'.pool.hash[b] # NoHash =>
        \/ kv'.pool.hash[b] = kv.pool.hash[b] /\ b \notin Range(new)
        \/ \E i \in DOMAIN kv'.blocks[c] \cap DOMAIN kv'.hashes[c] :
             /\ kv'.blocks[c][i] = b /\ kv'.pool.hash[b] = kv'.hashes[c][i]
             /\ i * BlockSize <= total
  BY DEF Allocated
<1>4. /\ DOMAIN m.hashes[c] \subseteq DOMAIN kv'.hashes[c]
      /\ \A i \in DOMAIN kv'.hashes[c] :
           kv'.hashes[c][i] = IF i \in DOMAIN m.hashes[c] THEN m.hashes[c][i]
                              ELSE BlockHash(c, req[c].tokens, i)
  BY DEF Allocated
<1> HIDE DEF total
<1>5. \A i \in DOMAIN kv'.hashes[c] : kv'.hashes[c][i] = BlockHash(c, req[c].tokens, i)
  BY <1>4
<1>6. EnableCaching => kv'.hashes[c] # << >>
  <2> SUFFICES ASSUME EnableCaching PROVE kv'.hashes[c] # << >>
    OBVIOUS
  <2>1. PICK S : m.hashes[c] \in Seq(S)
    BY DEF ManagerInv, Chain
  <2>2. 1 \in DOMAIN m.hashes[c]
    BY <2>1
  <2>3. 1 \in DOMAIN kv'.hashes[c]
    BY <2>2, <1>4
  <2>4. DOMAIN << >> = {}
    OBVIOUS
  <2> QED BY <2>3, <2>4
<1>7. \A b \in Blocks : kv'.pool.hash[b] # NoHash =>
        \/ kv'.pool.hash[b] = kv.pool.hash[b] /\ b \notin Range(new)
        \/ \E i \in DOMAIN kv'.blocks[c] :
             /\ kv'.blocks[c][i] = b
             /\ kv'.pool.hash[b] = BlockHash(c, req[c].tokens, i)
             /\ i * BlockSize <= e.start + e.n
  BY <1>1, <1>3, <1>5
<1>8. \A b \in Range(new) : b \notin Range(base)
  <2>1. kv.blocks[c] \in Seq(Usable)
    BY StateFacts
  <2>2. Range(base) = Range(kv.blocks[c]) \cup Range(comp)
    BY <2>1, ConcatFacts
  <2> QED BY <2>2, <1>2
<1>9. /\ DOMAIN step'.out = DOMAIN step.out \cup {c} /\ step'.out[c] = e
      /\ \A s \in DOMAIN step.out : step'.out[s] = step.out[s]
  BY DEF WithScheduled
<1>10. e.start + e.n <= Len(kv'.blocks[c]) * BlockSize
  BY <1>1, <1>2
<1>11. Base(c, base, e.start)
  OBVIOUS
<1> HIDE DEF base
<1>12. Given(c, base, new, e)
  BY <1>2, <1>5, <1>6, <1>7, <1>8, <1>9, <1>10, <1>11 DEF Given
<1> QED BY <1>12 DEF base

\* The blocks of a running request that is at the end of its computed part
LEMMA RunningBase ==
  ASSUME KVInv, AssertInv, ReadInv, NEW c \in Reqs, req[c].status = "running"
  PROVE  Base(c, kv.blocks[c], req[c].computed)
<1> DEFINE base == kv.blocks[c]
           start == req[c].computed
<1>1. base \in Seq(Usable) /\ start \in Nat /\ start <= Len(base) * BlockSize
  <2>1. /\ start \in Nat /\ AdvancedTo(c) \in Nat /\ start <= AdvancedTo(c)
        /\ base \in Seq(Usable) /\ Len(base) \in Nat
    BY StateFacts
  <2>2. AdvancedTo(c) <= Len(base) * BlockSize
    BY DEF ReadInv, KVOwn, EnoughBlocks
  <2>3. Len(base) * BlockSize \in Nat
    BY <2>1, ManagerAssumption
  <2> HIDE DEF base, start
  <2> QED BY <2>1, <2>2, <2>3
<1>2. \A i \in DOMAIN base : kv.pool.hash[base[i]] # NoHash =>
        /\ kv.pool.hash[base[i]] = BlockHash(c, req[c].tokens, i)
        /\ i * BlockSize <= Len(req[c].tokens)
  BY DEF ReadInv, KVOwn, OwnHashes
<1>3. ASSUME NEW s \in Reqs, s # c, NEW i \in DOMAIN base, NEW j \in DOMAIN kv.blocks[s],
             base[i] = kv.blocks[s][j]
      PROVE  /\ kv.pool.hash[base[i]] # NoHash
             /\ i = j => i * BlockSize <= start \/ i * BlockSize <= req[s].computed
  <2>1. i = j
    BY <1>3 DEF KVInv, ManagerInv, Placed
  <2> QED BY <2>1, <1>3 DEF ReadInv, KVOwn, SharedComputed
<1>4. \A pos \in 1 .. start :
        Right(runner.data, step.out, kv.blocks, base[PlaceOf(pos)], SlotOf(pos),
              KVEntry(c, req[c].tokens, pos))
  BY DEF ReadInv, DataTrue, OwnData
<1> QED BY <1>1, <1>2, <1>3, <1>4 DEF Base

\* The hashes get_computed_blocks looks up are those of the request's tokens.
LEMMA KnownOwn ==
  ASSUME KVInv, AssertInv, ReadInv, NEW f \in Reqs
  PROVE  LET known == KnownHashes(kv, f, req[f])
         IN  /\ \A i \in DOMAIN known : /\ i \in Nat \ {0}
                                        /\ known[i] = BlockHash(f, req[f].tokens, i)
                                        /\ i * BlockSize <= Len(req[f].tokens)
             /\ Len(req[f].tokens) >= BlockSize => known # << >>
             /\ kv.hashes[f] # << >> => known = kv.hashes[f]
<1> DEFINE known == KnownHashes(kv, f, req[f])
           t == req[f].tokens
<1>1. t \in Seq(Nat) /\ Len(t) \in Nat
  BY StateFacts
<1>2. CASE kv.hashes[f] = << >>
  <2>1. known = [i \in 1 .. Len(t) \div BlockSize |-> BlockHash(f, t, i)]
    BY <1>2 DEF KnownHashes, HashRequestTokens
  <2>2. Len(t) \div BlockSize \in Nat
    BY <1>1, DivFacts
  <2>3. ASSUME NEW i \in DOMAIN known
        PROVE  i \in Nat \ {0} /\ known[i] = BlockHash(f, t, i) /\ i * BlockSize <= Len(t)
    <3>1. i \in Nat \ {0} /\ i <= Len(t) \div BlockSize /\ known[i] = BlockHash(f, t, i)
      BY <2>1, <2>2
    <3>2. i * BlockSize <= Len(t)
      BY <3>1, <1>1, DivFacts
    <3> QED BY <3>1, <3>2
  <2>4. ASSUME Len(t) >= BlockSize PROVE known # << >>
    <3>1. 1 <= Len(t) \div BlockSize
      <4>1. 1 \in Nat /\ 1 * BlockSize <= Len(t)
        BY <2>4, ManagerAssumption
      <4> HIDE DEF t
      <4> QED BY <4>1, <1>1, DivFacts
    <3>2. 1 \in DOMAIN known
      BY <3>1, <2>1, <2>2
    <3>3. DOMAIN << >> = {}
      OBVIOUS
    <3> HIDE DEF known
    <3> QED BY <3>2, <3>3
  <2> HIDE DEF known, t
  <2> QED BY <2>3, <2>4, <1>2 DEF known, t
<1>3. CASE kv.hashes[f] # << >>
  <2>1. known = kv.hashes[f]
    BY <1>3 DEF KnownHashes
  <2>2. ASSUME NEW i \in DOMAIN known
        PROVE  i \in Nat \ {0} /\ known[i] = BlockHash(f, t, i) /\ i * BlockSize <= Len(t)
    <3>1. i \in 1 .. Len(kv.hashes[f]) /\ Len(kv.hashes[f]) \in Nat
      BY <2>1, <2>2, StateFacts
    <3>2. known[i] = BlockHash(f, t, i)
      BY <2>1, <2>2 DEF ReadInv, KVOwn, OwnHashes
    <3>3. Len(kv.hashes[f]) * BlockSize <= Len(t)
      BY StateFacts
    <3>4. i * BlockSize <= Len(kv.hashes[f]) * BlockSize
      <4> DEFINE l == Len(kv.hashes[f])
      <4>1. i \in Nat /\ l \in Nat /\ i <= l /\ BlockSize \in Nat
        BY <3>1, ManagerAssumption
      <4> HIDE DEF l
      <4>2. i * BlockSize <= l * BlockSize
        BY <4>1
      <4> QED BY <4>2 DEF l
    <3>5. i * BlockSize <= Len(t)
      <4> DEFINE x == i * BlockSize
                 y == Len(kv.hashes[f]) * BlockSize
      <4>1. x \in Nat /\ y \in Nat
        BY <3>1, ManagerAssumption
      <4>2. x <= y /\ y <= Len(t)
        BY <3>3, <3>4
      <4> HIDE DEF x, y, t
      <4>3. x <= Len(t)
        BY <4>1, <4>2, <1>1
      <4> QED BY <4>3 DEF x
    <3> QED BY <3>1, <3>2, <3>5
  <2> QED BY <2>1, <2>2, <1>3
<1> QED BY <1>2, <1>3

\* The hits of a request that is admitted
LEMMA AdmittedBase ==
  ASSUME KVInv, AssertInv, ReadInv, SlidingWindow = 0, NEW f \in Reqs
  PROVE  LET hits == GetComputedBlocks(kv, f, req[f])
         IN  /\ hits \in Seq(Usable) /\ Len(hits) \in Nat
             /\ Base(f, hits, Len(hits) * BlockSize)
             /\ ~ EnableCaching => hits = << >>
             /\ Len(hits) <= Len(KnownHashes(kv, f, req[f]))
<1> DEFINE hits == GetComputedBlocks(kv, f, req[f])
           known == KnownHashes(kv, f, req[f])
           t == req[f].tokens
           start == Len(hits) * BlockSize
<1>1. ManagerInv(kv) /\ t \in Seq(Nat) /\ Len(t) \in Nat
  BY StateFacts DEF KVInv
<1>2. HitsFit(kv.pool, hits)
  BY <1>1, GetComputedBlocksFacts
<1>3. /\ ~ EnableCaching => hits = << >>
      /\ \A i \in DOMAIN hits : i \in DOMAIN known /\ kv.pool.hash[hits[i]] = known[i]
  BY <1>1, HitsHashes
<1>4. \A i \in DOMAIN known : /\ i \in Nat \ {0} /\ known[i] = BlockHash(f, t, i)
                              /\ i * BlockSize <= Len(t)
  BY KnownOwn
<1>5. Chain(known)
  BY <1>1, KnownHashesChain
<1> HIDE DEF hits, known
<1>6. hits \in Seq(Usable) /\ Len(hits) \in Nat /\ DOMAIN hits = 1 .. Len(hits)
  BY <1>2 DEF HitsFit
<1>7. \A i \in DOMAIN hits : /\ kv.pool.hash[hits[i]] # NoHash
                             /\ kv.pool.hash[hits[i]] = BlockHash(f, t, i)
                             /\ i * BlockSize <= Len(t) /\ i \in Nat \ {0}
  BY <1>2, <1>3, <1>4 DEF HitsFit, HashAt
<1>8. start \in Nat /\ start <= Len(hits) * BlockSize
  BY <1>6, ManagerAssumption
<1>9. ASSUME NEW s \in Reqs, s # f, NEW i \in DOMAIN hits, NEW j \in DOMAIN kv.blocks[s],
             hits[i] = kv.blocks[s][j]
      PROVE  /\ kv.pool.hash[hits[i]] # NoHash
             /\ i = j => i * BlockSize <= start \/ i * BlockSize <= req[s].computed
  <2>1. i * BlockSize <= start
    <3> DEFINE l == Len(hits)
    <3>1. i \in Nat /\ l \in Nat /\ i <= l /\ BlockSize \in Nat
      BY <1>6, <1>9, ManagerAssumption
    <3> HIDE DEF l
    <3>2. i * BlockSize <= l * BlockSize
      BY <3>1
    <3> QED BY <3>2 DEF l
  <2> QED BY <2>1, <1>7
<1>10. ASSUME NEW pos \in 1 .. start
       PROVE  Right(runner.data, step.out, kv.blocks, hits[PlaceOf(pos)], SlotOf(pos),
                    KVEntry(f, t, pos))
  <2>1. pos \in Nat \ {0} /\ pos <= start
    BY <1>8
  <2>2. /\ PlaceOf(pos) \in Nat \ {0} /\ SlotOf(pos) \in 1 .. BlockSize
        /\ PlaceOf(pos) <= Len(hits) <=> pos <= Len(hits) * BlockSize
    BY <2>1, <1>6, PlaceFacts
  <2>3. PlaceOf(pos) \in DOMAIN hits
    BY <2>1, <2>2, <1>6
  <2>4. PICK i \in DOMAIN hits : i = PlaceOf(pos)
    BY <2>3
  <2>5. PICK b \in Blocks : b = hits[i]
    BY <2>4, <1>6 DEF Usable
  <2>6. Right(runner.data, step.out, kv.blocks, b, SlotOf(pos),
              HashData(kv.pool.hash[b], SlotOf(pos)))
    BY <2>2, <2>5, <1>7 DEF ReadInv, DataTrue, CachedData
  <2>7. kv.pool.hash[b] = BlockHash(f, t, PlaceOf(pos)) /\ PlaceOf(pos) * BlockSize <= Len(t)
    BY <2>4, <2>5, <1>7
  <2>8. HashData(BlockHash(f, t, PlaceOf(pos)), SlotOf(pos)) = KVEntry(f, t, pos)
    BY <2>1, <2>7, <1>1, HashDataFacts
  <2> QED BY <2>4, <2>5, <2>6, <2>7, <2>8
<1>11. Base(f, hits, start)
  BY <1>6, <1>7, <1>8, <1>9, <1>10 DEF Base
<1>12. Len(hits) <= Len(known)
  <2>1. PICK S : known \in Seq(S)
    BY <1>5 DEF Chain
  <2>2. CASE Len(hits) = 0
    BY <2>1, <2>2
  <2>3. CASE Len(hits) # 0
    <3>1. Len(hits) \in DOMAIN hits
      BY <2>3, <1>6
    <3>2. Len(hits) \in DOMAIN known
      BY <3>1, <1>3
    <3> QED BY <3>2, <2>1
  <2> QED BY <2>2, <2>3
<1> QED BY <1>3, <1>6, <1>11, <1>12 DEF hits, known

\* What the scheduler's output says of request c, the entry e, is what the worker
\* needs to know of it.
Told(c, e) ==
  /\ \/ e.kind = "running" /\ req[c].status = "running" /\ e.start = req[c].computed
     \/ /\ e.kind = "resumed" /\ req[c].status = "preempted" /\ step.pc = "waiting"
        /\ e.start <= Len(kv.hashes[c]) * BlockSize
     \/ e.kind = "new" /\ req[c].status \in {"waiting_fsm", "waiting"}
  /\ e.tokens = IF e.kind = "new" THEN req[c].tokens
                ELSE SubSeq(req[c].tokens, e.start + 1, e.start + e.n)
  /\ kv'.blocks[c] = IF e.kind = "running" THEN kv.blocks[c] \o e.ids ELSE e.ids
  /\ e.kind # "new" => \/ Len(kv'.hashes[c]) = Len(kv.hashes[c])
                       \/ Len(kv'.hashes[c]) * BlockSize <= e.start + e.n
  /\ step'.pc = step.pc /\ step'.preempted = step.preempted

\* What the worker knows of a request that has no tokens scheduled reaches as far
\* as its hashes.
LEMMA KnownUnscheduled ==
  ASSUME KVInv, AssertInv, ReadInv, NEW c \in Reqs, c \notin DOMAIN step.out,
         req[c].status \in {"running", "preempted"}
  PROVE  LET t == runner.known[c].tokens
         IN  /\ c \in DOMAIN runner.known
             /\ Len(t) \in Nat /\ Len(t) <= Len(req[c].tokens)
             /\ t = SubSeq(req[c].tokens, 1, Len(t))
             /\ req[c].status = "running" => req[c].computed <= Len(t)
             /\ Len(kv.hashes[c]) * BlockSize <= Len(t)
<1> DEFINE t == runner.known[c].tokens
           h == Len(kv.hashes[c]) * BlockSize
<1>1. ~ Fresh(c)
  BY DEF Fresh
<1>2. /\ c \in DOMAIN runner.known
      /\ Len(t) \in Nat /\ Len(t) <= Len(req[c].tokens) /\ t = SubSeq(req[c].tokens, 1, Len(t))
      /\ req[c].status = "running" => req[c].computed <= Len(t)
      /\ h <= Larger(Len(t), AdvancedTo(c))
  BY <1>1 DEF ReadInv, Mirror, Known
<1>3. AdvancedTo(c) \in Nat /\ AdvancedTo(c) <= Len(t)
  <2>1. CASE req[c].status = "running"
    <3>1. AdvancedTo(c) = req[c].computed
      BY StateFacts DEF AdvancedTo
    <3> QED BY <3>1, <2>1, <1>2, StateFacts
  <2>2. CASE req[c].status # "running"
    <3>1. AdvancedTo(c) = 0
      BY <2>2, StateFacts
    <3> QED BY <3>1, <1>2
  <2> QED BY <2>1, <2>2
<1>4. Larger(Len(t), AdvancedTo(c)) = Len(t)
  BY <1>2, <1>3 DEF Larger
<1> QED BY <1>2, <1>4

\* The worker's mirror stays true when a request is scheduled.
LEMMA GivenMirror ==
  ASSUME KVInv, AssertInv, ReadInv, NEW c, NEW base, NEW new, NEW e,
         Given(c, base, new, e), Told(c, e), ManagerInv(kv')
  PROVE  Mirror'
<1>1. /\ c \in Reqs /\ c \notin DOMAIN step.out /\ req[c].status \in Queued \cup {"running"}
      /\ req'[c].status = "running" /\ req'[c].tokens = req[c].tokens
      /\ req'[c].computed = e.start
      /\ \A s \in Reqs : s # c => /\ req'[s] = req[s] /\ kv'.blocks[s] = kv.blocks[s]
                                  /\ kv'.hashes[s] = kv.hashes[s]
      /\ runner' = runner /\ finishedIds' = finishedIds
      /\ DOMAIN step'.out = DOMAIN step.out \cup {c} /\ step'.out[c] = e
      /\ \A s \in DOMAIN step.out : step'.out[s] = step.out[s]
  BY DEF Given
<1>2. /\ e.kind \in {"new", "running", "resumed"}
      /\ e.kind = "running" => req[c].status = "running" /\ e.start = req[c].computed
      /\ e.kind = "resumed" => /\ req[c].status = "preempted" /\ step.pc = "waiting"
                               /\ e.start <= Len(kv.hashes[c]) * BlockSize
      /\ e.kind # "new" => req[c].status \in {"running", "preempted"}
      /\ e.tokens = IF e.kind = "new" THEN req[c].tokens
                    ELSE SubSeq(req[c].tokens, e.start + 1, e.start + e.n)
      /\ kv'.blocks[c] = IF e.kind = "running" THEN kv.blocks[c] \o e.ids ELSE e.ids
      /\ e.kind # "new" => \/ Len(kv'.hashes[c]) = Len(kv.hashes[c])
                           \/ Len(kv'.hashes[c]) * BlockSize <= e.start + e.n
      /\ step'.pc = step.pc /\ step'.preempted = step.preempted
  BY DEF Told
<1>3. OutTrue /\ Known /\ BlocksMirrored /\ RowsOfRunning /\ FinishedOver
  BY DEF ReadInv, Mirror
<1>4. DOMAIN step.out \subseteq Reqs
  BY OutFacts
<1>5. OutTrue'
  <2> SUFFICES ASSUME NEW r \in DOMAIN step'.out
               PROVE  /\ step'.out[r].kind \in {"new", "running", "resumed"}
                      /\ step'.out[r].start = req'[r].computed
                      /\ step'.out[r].tokens
                           = IF step'.out[r].kind = "new" THEN req'[r].tokens
                             ELSE SubSeq(req'[r].tokens, step'.out[r].start + 1,
                                         step'.out[r].start + step'.out[r].n)
                      /\ kv'.blocks[r] = IF step'.out[r].kind = "running"
                                         THEN runner'.known[r].blocks \o step'.out[r].ids
                                         ELSE step'.out[r].ids
                      /\ step'.out[r].kind = "resumed" => r \notin DOMAIN runner'.rows
    BY DEF OutTrue
  <2>1. CASE r # c
    <3>1. r \in DOMAIN step.out /\ step'.out[r] = step.out[r] /\ r \in Reqs
      BY <2>1, <1>1, <1>4
    <3>2. req'[r] = req[r] /\ kv'.blocks[r] = kv.blocks[r] /\ runner' = runner
      BY <2>1, <3>1, <1>1
    <3> QED BY <3>1, <3>2, <1>3 DEF OutTrue
  <2>2. CASE r = c
    <3>1. e.kind = "running" => kv.blocks[c] = runner.known[c].blocks
      BY <1>1, <1>2, <1>3 DEF BlocksMirrored
    <3>2. e.kind = "resumed" => c \notin DOMAIN runner.rows
      BY <1>1, <1>2, <1>3 DEF RowsOfRunning
    <3>3. kv'.blocks[c] = IF e.kind = "running" THEN runner.known[c].blocks \o e.ids ELSE e.ids
      BY <3>1, <1>2
    <3>4. /\ e.kind \in {"new", "running", "resumed"} /\ e.start = req'[c].computed
          /\ e.tokens = IF e.kind = "new" THEN req'[c].tokens
                        ELSE SubSeq(req'[c].tokens, e.start + 1, e.start + e.n)
      BY <1>1, <1>2
    <3>5. step'.out[r] = e /\ runner' = runner /\ r = c
      BY <2>2, <1>1
    <3> QED BY ONLY <3>2, <3>3, <3>4, <3>5
  <2> QED BY <2>1, <2>2
<1>6. Known'
  <2> SUFFICES ASSUME NEW r \in Reqs, req'[r].status \in {"running", "preempted"}, ~ Fresh(r)'
               PROVE  LET t == runner'.known[r].tokens IN
                      /\ r \in DOMAIN runner'.known
                      /\ Len(t) \in Nat /\ Len(t) <= Len(req'[r].tokens)
                      /\ t = SubSeq(req'[r].tokens, 1, Len(t))
                      /\ req'[r].status = "running" => req'[r].computed <= Len(t)
                      /\ Len(kv'.hashes[r]) * BlockSize <= Larger(Len(t), AdvancedTo(r)')
    BY DEF Known
  <2>1. CASE r # c
    <3>1. req'[r] = req[r] /\ kv'.hashes[r] = kv.hashes[r] /\ runner' = runner
      BY <2>1, <1>1
    <3>2. AdvancedTo(r)' = AdvancedTo(r)
      BY <2>1, GivenAdvance
    <3>3. ~ Fresh(r)
      BY <2>1, <1>1 DEF Fresh
    <3> QED BY <3>1, <3>2, <3>3, <1>3 DEF Known
  <2>2. CASE r = c
    <3> DEFINE t == runner.known[c].tokens
    <3>1. e.kind # "new"
      BY <2>2, <1>1 DEF Fresh
    <3>2. /\ c \in DOMAIN runner.known
          /\ Len(t) \in Nat /\ Len(t) <= Len(req[c].tokens)
          /\ t = SubSeq(req[c].tokens, 1, Len(t))
          /\ req[c].status = "running" => req[c].computed <= Len(t)
          /\ Len(kv.hashes[c]) * BlockSize <= Len(t)
      BY <3>1, <1>1, <1>2, KnownUnscheduled
    <3>3. AdvancedTo(c)' = e.start + e.n
      BY GivenAdvance
    <3>4. e.start \in Nat /\ e.n \in Nat
      BY DEF Given, Base
    <3>5. Len(kv.hashes[c]) * BlockSize \in Nat
      <4>1. Len(kv.hashes[c]) \in Nat
        BY <1>1, StateFacts
      <4> QED BY <4>1, ManagerAssumption
    <3> HIDE DEF t
    <3>6. e.start <= Len(t)
      <4>1. CASE e.kind = "running"
        BY <4>1, <1>2, <3>2
      <4>2. CASE e.kind = "resumed"
        <5> DEFINE h == Len(kv.hashes[c]) * BlockSize
        <5>1. h \in Nat /\ e.start <= h /\ h <= Len(t)
          BY <4>2, <1>2, <3>2, <3>5
        <5> HIDE DEF h
        <5> QED BY <5>1, <3>2, <3>4
      <4> QED BY <4>1, <4>2, <3>1, <1>2
    <3>7. Len(kv'.hashes[c]) * BlockSize <= Larger(Len(t), e.start + e.n)
      <4>1. CASE Len(kv'.hashes[c]) = Len(kv.hashes[c])
        <5> DEFINE h == Len(kv.hashes[c]) * BlockSize
        <5>1. h \in Nat /\ h <= Len(t) /\ Len(kv'.hashes[c]) * BlockSize = h
          BY <4>1, <3>2, <3>5
        <5> HIDE DEF h
        <5> QED BY <5>1, <3>2, <3>4 DEF Larger
      <4>2. CASE Len(kv'.hashes[c]) * BlockSize <= e.start + e.n
        <5>1. Len(kv'.hashes[c]) \in Nat
          <6>1. PICK S : kv'.hashes[c] \in Seq(S)
            BY <1>1 DEF ManagerInv, Chain
          <6> QED BY <6>1
        <5> DEFINE h == Len(kv'.hashes[c]) * BlockSize
        <5>2. h \in Nat /\ h <= e.start + e.n
          BY <4>2, <5>1, ManagerAssumption
        <5> HIDE DEF h
        <5>3. h <= Larger(Len(t), e.start + e.n)
          BY <5>2, <3>2, <3>4 DEF Larger
        <5> QED BY <5>3 DEF h
      <4> QED BY <4>1, <4>2, <3>1, <1>2
    <3> QED BY <2>2, <3>2, <3>3, <3>6, <3>7, <1>1 DEF t
  <2> QED BY <2>1, <2>2
<1>7. BlocksMirrored'
  <2> SUFFICES ASSUME NEW r \in Reqs, req'[r].status = "running"
               PROVE  /\ r \notin DOMAIN step'.out => kv'.blocks[r] = runner'.known[r].blocks
                      /\ (/\ r \in DOMAIN runner'.rows
                          /\ r \in DOMAIN step'.out => step'.out[r].kind = "running")
                           => runner'.rows[r].blocks = runner'.known[r].blocks
    BY DEF BlocksMirrored
  <2>1. CASE r # c
    <3>1. req'[r] = req[r] /\ kv'.blocks[r] = kv.blocks[r]
      BY <2>1, <1>1
    <3>2. r \in DOMAIN step'.out <=> r \in DOMAIN step.out
      BY <2>1, <1>1
    <3>3. r \in DOMAIN step.out => step'.out[r] = step.out[r]
      BY <1>1
    <3> QED BY <3>1, <3>2, <3>3, <1>1, <1>3 DEF BlocksMirrored
  <2>2. CASE r = c
    BY <2>2, <1>1, <1>2, <1>3 DEF BlocksMirrored
  <2> QED BY <2>1, <2>2
<1>8. RowsOfRunning' /\ FinishedOver'
  BY <1>1, <1>2, <1>3 DEF RowsOfRunning, FinishedOver, Queued
<1> QED BY <1>5, <1>6, <1>7, <1>8 DEF Mirror

\* A request is scheduled.
LEMMA GivenReadInv ==
  ASSUME KVInv, AssertInv, ReadInv, NEW c, NEW base, NEW new, NEW e,
         Given(c, base, new, e), Told(c, e), ManagerInv(kv')
  PROVE  ReadInv'
BY GivenKVOwn, GivenMirror, GivenDataTrue DEF ReadInv

\* What the output says of a request without drafts
LEMMA ScheduledEntry ==
  ASSUME NEW q, NEW kind, NEW start \in Nat, NEW plan, plan.n \in Nat, NEW ids,
         Len(q.tokens) \in Nat, start + plan.n <= Len(q.tokens)
  PROVE  LET e == Scheduled(q, kind, start, plan, ids, << >>)
         IN  /\ e.kind = kind /\ e.start = start /\ e.n = plan.n /\ e.ids = ids
             /\ e.tokens = IF kind = "new" THEN q.tokens
                           ELSE SubSeq(q.tokens, e.start + 1, e.start + e.n)
<1> DEFINE e == Scheduled(q, kind, start, plan, ids, << >>)
           none == << >>
<1>1. /\ e.kind = kind /\ e.start = start /\ e.n = plan.n /\ e.ids = ids
      /\ e.tokens = IF kind = "new" THEN q.tokens
                    ELSE SubSeq(q.tokens, start + 1,
                                Smaller(start + plan.n - Len(none), Len(q.tokens)))
  BY DEF Scheduled
<1>2. Len(none) = 0
  OBVIOUS
<1>3. Smaller(start + plan.n - Len(none), Len(q.tokens)) = start + plan.n
  <2> HIDE DEF none
  <2> QED BY <1>2 DEF Smaller
<1> HIDE DEF e, none
<1> QED BY <1>1, <1>3 DEF e

\* A running request is scheduled.
LEMMA ScheduleRunningReads ==
  ASSUME Plain, KVInv, AssertInv, ReadInv, ScheduleRunning,
         runner' = runner
  PROVE  ReadInv'
<1>0. PICK c \in Reqs : c = Current
  BY RunningAccount DEF ScheduleRunning
<1> DEFINE q == req[c]
           n == RunningPlan.n
           res == RunningAllocation
           e == Scheduled(q, "running", q.computed, RunningPlan, res.blocks, << >>)
           none == << >>
<1>1. /\ InRunningLoop /\ QueueInv /\ Numbers /\ ManagerInv(kv) /\ SlidingWindow = 0
  BY DEF KVInv, Plain, ScheduleRunning
<1>2. /\ c \notin DOMAIN step.out /\ q.status = "running" /\ n \in Nat
      /\ n # 0 => Allocatable(kv, c, q, n, none)
  BY <1>0, <1>1, RunningAccount
<1>3. /\ q.tokens \in Seq(Nat) /\ Len(q.tokens) \in Nat /\ q.computed \in Nat
  BY StateFacts
<1>4. TrimmedSpec(q, n) = << >>
  <2>1. q.spec = << >>
    BY DEF AssertInv, Fits
  <2> QED BY <2>1, <1>2, <1>3, NothingTrimmed
<1>5. /\ n # 0 /\ res.outcome # "full"
      /\ kv' = res.m /\ req' = req /\ finishedIds' = finishedIds
      /\ step' = [step EXCEPT !.i = @ + 1, !.budget = @ - n,
                              !.out = WithScheduled(@, c, e)]
  BY <1>0, <1>4 DEF ScheduleRunning, ScheduleCurrent
<1>6. Allocatable(kv, c, q, n, none)
  BY <1>2, <1>5
<1>7. /\ none \in Seq(Usable) /\ Len(none) = 0 /\ Len(none) * BlockSize = 0
      /\ kv.blocks[c] \o none = kv.blocks[c]
  <2>1. none \in Seq(Usable) /\ Len(none) = 0
    OBVIOUS
  <2>2. kv.blocks[c] \in Seq(Usable)
    BY StateFacts
  <2>3. kv.blocks[c] \o << >> = kv.blocks[c]
    BY <2>2, ConcatEmptySeq
  <2> QED BY <2>1, <2>3, ManagerAssumption
<1>8. q.computed + n <= Len(q.tokens)
  <2> HIDE DEF q, n, none
  <2> QED BY <1>2, <1>3, <1>6, <1>7 DEF Allocatable
<1>9. /\ res = AllocateSlots(kv, c, q, n, none, 0) /\ ManagerInv(kv')
  <2>1. res = AllocateSlots(kv, c, q, n, none, 0)
    BY <1>0 DEF RunningAllocation, Plain
  <2>2. ManagerInv(res.m)
    BY <1>1, RunningAllocationKeeps
  <2> HIDE DEF res
  <2> QED BY <2>1, <2>2, <1>5
<1>10. /\ e.kind = "running" /\ e.start = q.computed /\ e.n = n /\ e.ids = res.blocks
       /\ e.tokens = SubSeq(q.tokens, e.start + 1, e.start + e.n)
  <2>1. PICK plan, ids, kind : plan = RunningPlan /\ ids = res.blocks /\ kind = "running"
    OBVIOUS
  <2>2. n = plan.n /\ e = Scheduled(q, kind, q.computed, plan, ids, << >>)
    BY <2>1
  <2>3. /\ plan.n \in Nat /\ q.computed \in Nat /\ Len(q.tokens) \in Nat
        /\ q.computed + plan.n <= Len(q.tokens)
    BY <2>2, <1>2, <1>3, <1>8
  <2> HIDE DEF q, n, res, e
  <2>4. LET k0 == Scheduled(q, kind, q.computed, plan, ids, << >>)
        IN  /\ k0.kind = kind /\ k0.start = q.computed /\ k0.n = plan.n /\ k0.ids = ids
            /\ k0.tokens = IF kind = "new" THEN q.tokens
                           ELSE SubSeq(q.tokens, k0.start + 1, k0.start + k0.n)
    BY ONLY <2>3, ScheduledEntry
  <2>5. /\ e.kind = kind /\ e.start = q.computed /\ e.n = plan.n /\ e.ids = ids
        /\ e.tokens = IF kind = "new" THEN q.tokens
                      ELSE SubSeq(q.tokens, e.start + 1, e.start + e.n)
    BY ONLY <2>2, <2>4
  <2> QED BY <2>1, <2>2, <2>5
<1> HIDE DEF e
<1>11. /\ res.outcome = "ok" /\ \A s \in Reqs : s # c => kv'.hashes[s] = kv.hashes[s]
  <2> HIDE DEF none, q, n, res
  <2> QED BY <1>1, <1>5, <1>6, <1>9, AllocateSlotsCounts
<1>12. OnlyOf(c, kv, kv')
  <2>1. ManagerShape(kv)
    BY <1>1 DEF QueueInv, Shapes
  <2> QED BY <2>1, <1>0, <1>5, AllocateSlotsOnlyOf DEF RunningAllocation
<1>13. Allocated(kv, c, q, n, none, res.blocks, kv')
  <2> HIDE DEF none, q, n, res
  <2> QED BY <1>1, <1>5, <1>6, <1>9, <1>11, AllocateSlotsEffect
<1> HIDE DEF res
<1>14. /\ step'.pc = step.pc /\ step'.preempted = step.preempted
       /\ step'.out = WithScheduled(step.out, c, e)
  <2> HIDE DEF n
  <2> QED BY <1>1, <1>5 DEF QueueInv, Shapes, StepShape, InRunningLoop
<1>15. /\ \A i \in DOMAIN kv.hashes[c] : kv.hashes[c][i] = BlockHash(c, q.tokens, i)
       /\ EnableCaching => kv.hashes[c] # << >>
  BY <1>2 DEF ReadInv, KVOwn, OwnHashes, HashesKnown
<1>16. Base(c, kv.blocks[c] \o none, e.start)
  BY <1>2, <1>7, <1>10, RunningBase
<1>17. \A s \in Reqs : s # c => kv'.blocks[s] = kv.blocks[s] /\ kv'.hashes[s] = kv.hashes[s]
  BY <1>11, <1>12 DEF OnlyOf
<1>18. /\ e.n \in Nat \ {0} /\ e.start = q.computed + Len(none) * BlockSize
       /\ e.start + e.n <= Len(q.tokens)
  <2> HIDE DEF n, none, q
  <2> QED BY <1>2, <1>3, <1>5, <1>7, <1>8, <1>10
<1>19. Given(c, kv.blocks[c] \o none, res.blocks, e)
  <2>1. Allocated(kv, c, req[c], e.n, none, res.blocks, kv')
    BY <1>10, <1>13
  <2>2. /\ req[c].status \in Queued \cup {"running"}
        /\ req'[c].status = "running" /\ req'[c].tokens = req[c].tokens
        /\ req'[c].computed = e.start /\ \A s \in Reqs : s # c => req'[s] = req[s]
    BY <1>2, <1>5, <1>10
  <2>3. /\ \A i \in DOMAIN kv.hashes[c] : kv.hashes[c][i] = BlockHash(c, req[c].tokens, i)
        /\ e.start = req[c].computed + Len(none) * BlockSize
        /\ e.start + e.n <= Len(req[c].tokens)
    BY <1>15, <1>18
  <2> HIDE DEF none, q, n
  <2> QED BY <2>1, <2>2, <2>3, <1>1, <1>2, <1>5, <1>7, <1>14, <1>15, <1>16, <1>17, <1>18,
             AllocationGiven
<1>20. Told(c, e)
  <2>1. kv'.blocks[c] = kv.blocks[c] \o e.ids
    <3>1. kv'.blocks[c] = (kv.blocks[c] \o none) \o res.blocks
      BY <1>13 DEF Allocated
    <3> HIDE DEF none
    <3> QED BY <3>1, <1>7, <1>10
  <2>2. Len(kv'.hashes[c]) = Len(kv.hashes[c]) \/ Len(kv'.hashes[c]) * BlockSize <= e.start + e.n
    <3>1. \/ Len(kv'.hashes[c]) = Len(kv.hashes[c])
          \/ Len(kv'.hashes[c]) * BlockSize <= q.computed + Len(none) * BlockSize + n
      BY <1>13 DEF Allocated
    <3>2. q.computed + Len(none) * BlockSize + n = e.start + e.n
      BY <1>10, <1>18
    <3> HIDE DEF none, q, n
    <3> QED BY <3>1, <3>2
  <2> QED BY <2>1, <2>2, <1>2, <1>10, <1>14 DEF Told
<1> QED BY <1>9, <1>19, <1>20, GivenReadInv

\* A request is admitted.
LEMMA AdmitWaitingReads ==
  ASSUME Plain, KVInv, AssertInv, ReadInv, AdmitWaiting,
         runner' = runner
  PROVE  ReadInv'
<1>0. PICK f \in Reqs : f = First
  BY WaitingAccount DEF AdmitWaiting, Admissible
<1> DEFINE q == req[f]
           n == WaitingPlan.n
           m == AfterLookup(kv, f, q)
           res == WaitingAllocation
           hits == GetComputedBlocks(kv, f, q)
           known == KnownHashes(kv, f, q)
           Entry(g) == Scheduled(req[g], IF req[g].status = "preempted" THEN "resumed"
                                         ELSE "new",
                                 StartAfterHits, WaitingPlan, Hits \o res.blocks, << >>)
           e == Entry(f)
<1>1. /\ InWaitingLoop /\ QueueInv /\ Numbers /\ SlidingWindow = 0 /\ step.pc = "waiting"
      /\ ManagerInv(kv)
  BY DEF KVInv, Plain, AdmitWaiting, Admissible, InWaitingLoop
<1>2. /\ f \notin DOMAIN step.out /\ q.status \in Queued
      /\ q.computed = 0 /\ WaitingNewTokens \in Nat \ {0} /\ StartAfterHits \in Nat
      /\ n \in Nat /\ ManagerInv(m)
      /\ \A s \in Reqs : s # f => m.hashes[s] = kv.hashes[s]
      /\ n # 0 => Allocatable(m, f, q, n, Hits)
  BY <1>0, <1>1, WaitingAccount
<1>3. Hits = hits /\ StartAfterHits = Len(hits) * BlockSize
  BY <1>0 DEF Hits, StartAfterHits
<1>4. /\ WaitingNewTokens <= 0 \/ (n # 0 /\ res.outcome # "full")
      /\ kv' = res.m /\ finishedIds' = finishedIds
      /\ req' = [req EXCEPT ![f].status = "running", ![f].computed = StartAfterHits]
      /\ step' = [step EXCEPT !.budget = @ - n, !.out = WithScheduled(@, f, e)]
  <2>1. /\ WaitingNewTokens <= 0 \/ (n # 0 /\ res.outcome # "full")
        /\ kv' = res.m /\ finishedIds' = finishedIds
        /\ req' = [req EXCEPT ![First].status = "running",
                              ![First].computed = StartAfterHits]
        /\ step' = [step EXCEPT !.budget = @ - n,
                                !.out = WithScheduled(@, First, Entry(First))]
    BY DEF AdmitWaiting, AdmitFirst
  <2> HIDE DEF Entry, res, n
  <2> QED BY <2>1, <1>0
<1>5. n # 0 /\ res.outcome # "full"
  BY <1>2, <1>4
<1>6. Allocatable(m, f, q, n, hits)
  BY <1>2, <1>3, <1>5
<1>7. /\ q.tokens \in Seq(Nat) /\ Len(q.tokens) \in Nat /\ kv.blocks[f] = << >>
  BY <1>2, StateFacts DEF Queued
<1>8. /\ hits \in Seq(Usable) /\ Len(hits) \in Nat /\ Base(f, hits, Len(hits) * BlockSize)
      /\ ~ EnableCaching => hits = << >>
      /\ Len(hits) <= Len(known)
  BY <1>1, AdmittedBase
<1>9. StartAfterHits + n <= Len(q.tokens)
  <2> HIDE DEF q, n, m, hits
  <2> QED BY <1>2, <1>3, <1>6 DEF Allocatable
<1>10. /\ res = AllocateSlots(m, f, q, n, hits, 0) /\ ManagerInv(kv')
  <2>1. res = AllocateSlots(m, f, q, n, hits, 0)
    BY <1>0, <1>3 DEF WaitingAllocation, Plain
  <2>2. ManagerInv(res.m)
    BY <1>1, WaitingAllocationKeeps
  <2> HIDE DEF res
  <2> QED BY <2>1, <2>2, <1>4
<1> DEFINE kind == IF q.status = "preempted" THEN "resumed" ELSE "new"
<1>11. /\ e.kind = kind
       /\ e.start = StartAfterHits /\ e.n = n /\ e.ids = hits \o res.blocks
       /\ e.tokens = IF e.kind = "new" THEN q.tokens
                     ELSE SubSeq(q.tokens, e.start + 1, e.start + e.n)
  <2>1. e = Scheduled(q, kind, StartAfterHits, WaitingPlan, Hits \o res.blocks, << >>)
    OBVIOUS
  <2>2. PICK plan, ids, start :
          plan = WaitingPlan /\ ids = Hits \o res.blocks /\ start = StartAfterHits
    OBVIOUS
  <2>3. n = plan.n /\ e = Scheduled(q, kind, start, plan, ids, << >>)
    BY <2>1, <2>2
  <2>4. /\ plan.n \in Nat /\ start \in Nat /\ Len(q.tokens) \in Nat
        /\ start + plan.n <= Len(q.tokens)
    BY <2>2, <2>3, <1>2, <1>7, <1>9
  <2>5. ids = hits \o res.blocks
    BY <2>2, <1>3
  <2> HIDE DEF q, n, res, e, kind, hits
  <2>6. LET k0 == Scheduled(q, kind, start, plan, ids, << >>)
        IN  /\ k0.kind = kind /\ k0.start = start /\ k0.n = plan.n /\ k0.ids = ids
            /\ k0.tokens = IF kind = "new" THEN q.tokens
                           ELSE SubSeq(q.tokens, k0.start + 1, k0.start + k0.n)
    BY ONLY <2>4, ScheduledEntry
  <2>7. /\ e.kind = kind /\ e.start = start /\ e.n = plan.n /\ e.ids = ids
        /\ e.tokens = IF kind = "new" THEN q.tokens
                      ELSE SubSeq(q.tokens, e.start + 1, e.start + e.n)
    BY ONLY <2>3, <2>6
  <2> QED BY <2>2, <2>3, <2>5, <2>7
<1> HIDE DEF e
<1>12. /\ res.outcome = "ok" /\ \A s \in Reqs : s # f => kv'.hashes[s] = kv.hashes[s]
  <2> HIDE DEF hits, q, n, res, m
  <2> QED BY <1>1, <1>2, <1>4, <1>5, <1>6, <1>10, AllocateSlotsCounts
<1>13. OnlyOf(f, kv, kv')
  BY <1>0, <1>1, <1>4, WaitingAllocationOnlyOf
<1>14. Allocated(m, f, q, n, hits, res.blocks, kv')
  <2> HIDE DEF hits, q, n, res, m
  <2> QED BY <1>1, <1>2, <1>4, <1>6, <1>10, <1>12, AllocateSlotsEffect
<1> HIDE DEF res
<1>15. /\ step'.pc = step.pc /\ step'.preempted = step.preempted
       /\ step'.out = WithScheduled(step.out, f, e)
  <2> HIDE DEF n
  <2> QED BY <1>1, <1>4 DEF QueueInv, Shapes, StepShape
<1>16. /\ req'[f].status = "running" /\ req'[f].computed = e.start
       /\ req'[f].tokens = q.tokens
       /\ \A s \in Reqs : s # f => req'[s] = req[s]
  <2>1. e.start = StartAfterHits
    BY <1>11
  <2> HIDE DEF n
  <2> QED BY <2>1, <1>1, <1>4 DEF QueueInv, Shapes
<1>17. /\ m.pool = kv.pool /\ m.blocks = kv.blocks
       /\ m.hashes[f] = IF EnableCaching THEN known ELSE kv.hashes[f]
  <2>1. ManagerShape(kv) /\ f \in DOMAIN kv.hashes
    BY <1>1 DEF ManagerInv, ManagerShape
  <2>2. m = IF EnableCaching THEN [kv EXCEPT !.hashes[f] = known] ELSE kv
    BY DEF AfterLookup
  <2> HIDE DEF m, known
  <2> QED BY <2>1, <2>2 DEF ManagerShape
<1>18. /\ \A i \in DOMAIN m.hashes[f] : m.hashes[f][i] = BlockHash(f, q.tokens, i)
       /\ EnableCaching => m.hashes[f] # << >>
  <2>1. /\ \A i \in DOMAIN known : known[i] = BlockHash(f, q.tokens, i)
        /\ Len(q.tokens) >= BlockSize => known # << >>
    BY KnownOwn
  <2>2. EnableCaching => Len(q.tokens) >= BlockSize
    BY <1>2 DEF ReadInv, KVOwn, HashesKnown
  <2>3. \A i \in DOMAIN kv.hashes[f] : kv.hashes[f][i] = BlockHash(f, q.tokens, i)
    BY DEF ReadInv, KVOwn, OwnHashes
  <2> HIDE DEF m, known
  <2> QED BY <2>1, <2>2, <2>3, <1>17
<1>19. \A s \in Reqs : s # f => kv'.blocks[s] = kv.blocks[s] /\ kv'.hashes[s] = kv.hashes[s]
  BY <1>12, <1>13 DEF OnlyOf
<1>20. /\ e.n \in Nat \ {0} /\ e.start = q.computed + Len(hits) * BlockSize
       /\ e.start + e.n <= Len(q.tokens) /\ e.start = Len(hits) * BlockSize
  <2> HIDE DEF n, q, hits
  <2> QED BY <1>2, <1>3, <1>5, <1>9, <1>11
<1>21. kv.blocks[f] \o hits = hits
  <2> HIDE DEF hits
  <2> QED BY <1>7, <1>8, ConcatEmptySeq
<1>22. Given(f, kv.blocks[f] \o hits, res.blocks, e)
  <2>1. /\ Allocated(m, f, req[f], e.n, hits, res.blocks, kv')
        /\ req[f].status \in Queued \cup {"running"}
        /\ req'[f].tokens = req[f].tokens
        /\ \A i \in DOMAIN m.hashes[f] : m.hashes[f][i] = BlockHash(f, req[f].tokens, i)
        /\ e.start = req[f].computed + Len(hits) * BlockSize
        /\ e.start + e.n <= Len(req[f].tokens)
    BY <1>2, <1>11, <1>14, <1>16, <1>18, <1>20
  <2>2. Base(f, kv.blocks[f] \o hits, e.start)
    BY <1>8, <1>20, <1>21
  <2>3. \A s \in Reqs : m.blocks[s] = kv.blocks[s]
    BY <1>17
  <2> HIDE DEF hits, q, n, m
  <2> QED BY <2>1, <2>2, <2>3, <1>2, <1>4, <1>8, <1>15, <1>16, <1>17, <1>18, <1>19, <1>20,
             AllocationGiven
<1>23. Told(f, e)
  <2>1. kv'.blocks[f] = e.ids
    <3>1. kv'.blocks[f] = (m.blocks[f] \o hits) \o res.blocks
      BY <1>14 DEF Allocated
    <3> HIDE DEF hits, m
    <3> QED BY <3>1, <1>11, <1>17, <1>21
  <2>2. /\ e.kind \in {"resumed", "new"}
        /\ e.kind = "resumed" => q.status = "preempted"
        /\ e.kind = "new" => q.status \in {"waiting_fsm", "waiting"}
    BY <1>2, <1>11 DEF Queued
  <2>3. ASSUME e.kind # "new"
        PROVE  /\ e.start <= Len(kv.hashes[f]) * BlockSize
               /\ Len(m.hashes[f]) = Len(kv.hashes[f])
    <3>1. q.status = "preempted"
      BY <2>2, <2>3
    <3>2. EnableCaching => kv.hashes[f] # << >>
      BY <3>1 DEF ReadInv, KVOwn, HashesKnown
    <3>3. kv.hashes[f] # << >> => known = kv.hashes[f]
      BY KnownOwn
    <3>4. Len(kv.hashes[f]) \in Nat
      BY StateFacts
    <3>5. CASE EnableCaching
      <4>1. known = kv.hashes[f] /\ m.hashes[f] = kv.hashes[f]
        BY <3>2, <3>3, <3>5, <1>17
      <4> DEFINE l == Len(hits)
                 k == Len(kv.hashes[f])
      <4>2. l \in Nat /\ k \in Nat /\ l <= k /\ e.start = l * BlockSize
        BY <4>1, <3>4, <1>8, <1>20
      <4> HIDE DEF l, k
      <4>3. l * BlockSize <= k * BlockSize
        BY <4>2, ManagerAssumption
      <4> QED BY <4>1, <4>2, <4>3 DEF k
    <3>6. CASE ~ EnableCaching
      <4>1. m.hashes[f] = kv.hashes[f] /\ hits = << >>
        BY <3>6, <1>8, <1>17
      <4>2. Len(hits) = 0
        BY <4>1
      <4>3. e.start = 0
        <5> HIDE DEF hits
        <5> QED BY <4>2, <1>20, ManagerAssumption
      <4>4. Len(kv.hashes[f]) * BlockSize >= 0
        BY <3>4, ManagerAssumption
      <4> QED BY <4>1, <4>3, <4>4
    <3> QED BY <3>5, <3>6
  <2>4. Len(kv'.hashes[f]) = Len(m.hashes[f]) \/ Len(kv'.hashes[f]) * BlockSize <= e.start + e.n
    <3>1. \/ Len(kv'.hashes[f]) = Len(m.hashes[f])
          \/ Len(kv'.hashes[f]) * BlockSize <= q.computed + Len(hits) * BlockSize + n
      BY <1>14 DEF Allocated
    <3>2. q.computed + Len(hits) * BlockSize + n = e.start + e.n
      BY <1>11, <1>20
    <3> HIDE DEF hits, q, n, m
    <3> QED BY <3>1, <3>2
  <2>5. /\ e.tokens = IF e.kind = "new" THEN q.tokens
                      ELSE SubSeq(q.tokens, e.start + 1, e.start + e.n)
        /\ step'.pc = step.pc /\ step'.preempted = step.preempted /\ step.pc = "waiting"
    BY <1>1, <1>11, <1>15
  <2> HIDE DEF hits, n, m
  <2> QED BY <2>1, <2>2, <2>3, <2>4, <2>5 DEF Told
<1> QED BY <1>10, <1>22, <1>23, GivenReadInv

\* What a request has computed and hashed does not change when tokens are appended.
LEMMA GrownTokens ==
  ASSUME NEW r, NEW t \in Seq(Nat), NEW g \in Seq(Nat)
  PROVE  /\ t \o g \in Seq(Nat) /\ Len(t \o g) \in Nat /\ Len(t) <= Len(t \o g)
         /\ \A k \in Nat : k <= Len(t) => SubSeq(t \o g, 1, k) = SubSeq(t, 1, k)
         /\ \A i \in Nat : i * BlockSize <= Len(t)
                             => BlockHash(r, t \o g, i) = BlockHash(r, t, i)
         /\ \A pos \in Nat : pos <= Len(t) => KVEntry(r, t \o g, pos) = KVEntry(r, t, pos)
<1>1. t \o g \in Seq(Nat) /\ Len(t \o g) = Len(t) + Len(g) /\ Len(t) \in Nat /\ Len(g) \in Nat
  BY ConcatProperties
<1>2. ASSUME NEW k \in Nat, k <= Len(t)
      PROVE  SubSeq(t \o g, 1, k) = SubSeq(t, 1, k)
  <2>1. k \in 0 .. Len(t)
    BY <1>1, <1>2
  <2>2. \A i \in 1 .. k : (t \o g)[i] = t[i]
    BY <2>1, <1>1, ConcatProperties
  <2>3. PICK u : u = t \o g
    OBVIOUS
  <2>4. SubSeq(u, 1, k) = [i \in 1 .. k |-> u[i]] /\ SubSeq(t, 1, k) = [i \in 1 .. k |-> t[i]]
    OBVIOUS
  <2>5. \A i \in 1 .. k : u[i] = t[i]
    BY <2>2, <2>3
  <2> QED BY ONLY <2>3, <2>4, <2>5
<1>3. ASSUME NEW i \in Nat, i * BlockSize <= Len(t)
      PROVE  BlockHash(r, t \o g, i) = BlockHash(r, t, i)
  <2>1. i * BlockSize \in Nat
    BY ManagerAssumption
  <2> QED BY <2>1, <1>2, <1>3 DEF BlockHash
<1>4. ASSUME NEW pos \in Nat, pos <= Len(t)
      PROVE  KVEntry(r, t \o g, pos) = KVEntry(r, t, pos)
  BY <1>2, <1>4 DEF KVEntry
<1>5. t \o g \in Seq(Nat) /\ Len(t \o g) \in Nat /\ Len(t) <= Len(t \o g)
  <2> DEFINE k == Len(t \o g)
  <2>1. k = Len(t) + Len(g)
    BY <1>1
  <2> HIDE DEF k
  <2>2. k \in Nat /\ Len(t) <= k
    BY <2>1, <1>1
  <2> QED BY <2>2, <1>1 DEF k
<1> QED BY <1>2, <1>3, <1>4, <1>5

\* A step that gives and takes no blocks: at most requests come, are looked up or
\* get the tokens of a batch that is over.
Quiet ==
  /\ \A s \in Reqs :
       /\ kv'.blocks[s] = kv.blocks[s]
       /\ \E g \in Seq(Nat) : /\ req'[s].tokens = req[s].tokens \o g
                              /\ DOMAIN step.out = {} \/ g = << >>
       /\ req'[s].computed = req[s].computed
       /\ \/ req'[s].status = req[s].status
          \/ /\ req[s].status \in {"unborn", "waiting_fsm", "waiting"}
             /\ req'[s].status \in {"waiting_fsm", "waiting"}
       /\ \/ kv'.hashes[s] = kv.hashes[s]
          \/ EnableCaching /\ kv'.hashes[s] = KnownHashes(kv, s, req[s])
       /\ EnableCaching /\ req'[s].status \in Queued => Len(req'[s].tokens) >= BlockSize
  /\ \A b \in Blocks : kv'.pool.hash[b] = kv.pool.hash[b]
  /\ runner' = runner /\ finishedIds' = finishedIds
  /\ step'.out = step.out \/ (DOMAIN step.out = {} /\ DOMAIN step'.out = {})
  /\ step.preempted => step'.preempted
  /\ step'.pc \in {"idle", "update", "waiting"} => ~ step'.preempted

\* What such a step does to one request
LEMMA QuietRequest ==
  ASSUME KVInv, AssertInv, ReadInv, Quiet, NEW s \in Reqs
  PROVE  /\ kv'.blocks[s] = kv.blocks[s] /\ req'[s].computed = req[s].computed
         /\ AdvancedTo(s)' = AdvancedTo(s)
         /\ req'[s].status \notin {"waiting_fsm", "waiting"} => req'[s].status = req[s].status
         /\ req[s].status \in {"finished", "aborted"} => req'[s].status = req[s].status
         /\ req'[s].status \in {"running", "preempted"} => kv'.hashes[s] = kv.hashes[s]
         /\ Len(req'[s].tokens) \in Nat /\ Len(req[s].tokens) <= Len(req'[s].tokens)
         /\ \A k \in Nat : k <= Len(req[s].tokens)
              => SubSeq(req'[s].tokens, 1, k) = SubSeq(req[s].tokens, 1, k)
         /\ \A i \in Nat : i * BlockSize <= Len(req[s].tokens)
              => BlockHash(s, req'[s].tokens, i) = BlockHash(s, req[s].tokens, i)
         /\ \A pos \in Nat : pos <= Len(req[s].tokens)
              => KVEntry(s, req'[s].tokens, pos) = KVEntry(s, req[s].tokens, pos)
         /\ DOMAIN step.out # {} => req'[s].tokens = req[s].tokens
<1>1. req[s].tokens \in Seq(Nat) /\ Len(req[s].tokens) \in Nat
  BY StateFacts
<1>2. PICK g \in Seq(Nat) : /\ req'[s].tokens = req[s].tokens \o g
                            /\ DOMAIN step.out = {} \/ g = << >>
  BY DEF Quiet
<1>3. /\ kv'.blocks[s] = kv.blocks[s] /\ req'[s].computed = req[s].computed
      /\ \/ req'[s].status = req[s].status
         \/ /\ req[s].status \in {"unborn", "waiting_fsm", "waiting"}
            /\ req'[s].status \in {"waiting_fsm", "waiting"}
      /\ \/ kv'.hashes[s] = kv.hashes[s]
         \/ EnableCaching /\ kv'.hashes[s] = KnownHashes(kv, s, req[s])
      /\ step'.out = step.out \/ (DOMAIN step.out = {} /\ DOMAIN step'.out = {})
  BY DEF Quiet
<1>4. AdvancedTo(s)' = AdvancedTo(s)
  BY <1>3, AdvancedToSame
<1>5. /\ req'[s].status \notin {"waiting_fsm", "waiting"} => req'[s].status = req[s].status
      /\ req[s].status \in {"finished", "aborted"} => req'[s].status = req[s].status
  BY <1>3
<1>6. ASSUME req'[s].status \in {"running", "preempted"} PROVE kv'.hashes[s] = kv.hashes[s]
  <2>1. req[s].status \in {"running", "preempted"}
    BY <1>3, <1>6
  <2>2. EnableCaching => kv.hashes[s] # << >>
    BY <2>1 DEF ReadInv, KVOwn, HashesKnown
  <2>3. kv.hashes[s] # << >> => KnownHashes(kv, s, req[s]) = kv.hashes[s]
    BY KnownOwn
  <2> QED BY <2>2, <2>3, <1>3
<1>7. /\ Len(req'[s].tokens) \in Nat /\ Len(req[s].tokens) <= Len(req'[s].tokens)
      /\ \A k \in Nat : k <= Len(req[s].tokens)
           => SubSeq(req'[s].tokens, 1, k) = SubSeq(req[s].tokens, 1, k)
      /\ \A i \in Nat : i * BlockSize <= Len(req[s].tokens)
           => BlockHash(s, req'[s].tokens, i) = BlockHash(s, req[s].tokens, i)
      /\ \A pos \in Nat : pos <= Len(req[s].tokens)
           => KVEntry(s, req'[s].tokens, pos) = KVEntry(s, req[s].tokens, pos)
  <2>1. PICK t : t = req[s].tokens
    OBVIOUS
  <2>2. req'[s].tokens = t \o g /\ t \in Seq(Nat)
    BY <2>1, <1>1, <1>2
  <2>3. /\ Len(t \o g) \in Nat /\ Len(t) <= Len(t \o g)
        /\ \A k \in Nat : k <= Len(t) => SubSeq(t \o g, 1, k) = SubSeq(t, 1, k)
        /\ \A i \in Nat : i * BlockSize <= Len(t)
                            => BlockHash(s, t \o g, i) = BlockHash(s, t, i)
        /\ \A pos \in Nat : pos <= Len(t) => KVEntry(s, t \o g, pos) = KVEntry(s, t, pos)
    BY <2>2, GrownTokens
  <2> QED BY ONLY <2>1, <2>2, <2>3
<1>8. DOMAIN step.out # {} => req'[s].tokens = req[s].tokens
  BY <1>1, <1>2, ConcatEmptySeq
<1> QED BY <1>3, <1>4, <1>5, <1>6, <1>7, <1>8

\* The requests' hashes and blocks stay right in such a step.
LEMMA QuietKVOwn ==
  ASSUME KVInv, AssertInv, ReadInv, Quiet
  PROVE  KVOwn'
<1>1. \A b \in Blocks : kv'.pool.hash[b] = kv.pool.hash[b]
  BY DEF Quiet
<1>2. OwnHashes'
  <2>1. ASSUME NEW s \in Reqs, NEW i \in DOMAIN kv'.hashes[s]
        PROVE  kv'.hashes[s][i] = BlockHash(s, req'[s].tokens, i)
    <3>1. \/ kv'.hashes[s] = kv.hashes[s]
          \/ kv'.hashes[s] = KnownHashes(kv, s, req[s])
      BY DEF Quiet
    <3>2. /\ i \in Nat /\ i * BlockSize <= Len(req[s].tokens)
          /\ kv'.hashes[s][i] = BlockHash(s, req[s].tokens, i)
      <4>1. CASE kv'.hashes[s] = KnownHashes(kv, s, req[s])
        BY <4>1, <2>1, KnownOwn
      <4>2. CASE kv'.hashes[s] = kv.hashes[s]
        <5>1. kv.hashes[s] # << >>
          <6>1. DOMAIN << >> = {}
            OBVIOUS
          <6> QED BY <6>1, <4>2, <2>1
        <5>2. kv'.hashes[s] = KnownHashes(kv, s, req[s])
          BY <5>1, <4>2, KnownOwn
        <5> QED BY <5>2, <2>1, KnownOwn
      <4> QED BY <4>1, <4>2, <3>1
    <3> QED BY <3>2, QuietRequest
  <2>2. ASSUME NEW s \in Reqs, NEW i \in DOMAIN kv'.blocks[s],
               kv'.pool.hash[kv'.blocks[s][i]] # NoHash
        PROVE  /\ kv'.pool.hash[kv'.blocks[s][i]] = BlockHash(s, req'[s].tokens, i)
               /\ i * BlockSize <= Len(req'[s].tokens)
    <3>1. kv'.blocks[s] = kv.blocks[s] /\ i \in DOMAIN kv.blocks[s]
      BY <2>2, QuietRequest
    <3>2. i \in Nat /\ kv.blocks[s][i] \in Blocks
      BY <3>1, StateFacts DEF Usable
    <3>3. kv'.pool.hash[kv'.blocks[s][i]] = kv.pool.hash[kv.blocks[s][i]]
      BY <3>1, <3>2, <1>1
    <3>4. /\ kv.pool.hash[kv.blocks[s][i]] = BlockHash(s, req[s].tokens, i)
          /\ i * BlockSize <= Len(req[s].tokens)
      BY <2>2, <3>1, <3>3 DEF ReadInv, KVOwn, OwnHashes
    <3>5. BlockHash(s, req'[s].tokens, i) = BlockHash(s, req[s].tokens, i)
      BY <3>2, <3>4, QuietRequest
    <3>6. i * BlockSize <= Len(req'[s].tokens)
      <4> DEFINE x == i * BlockSize
      <4>1. /\ x \in Nat /\ x <= Len(req[s].tokens) /\ Len(req[s].tokens) \in Nat
            /\ Len(req'[s].tokens) \in Nat /\ Len(req[s].tokens) <= Len(req'[s].tokens)
        BY <3>2, <3>4, QuietRequest, StateFacts, ManagerAssumption
      <4> HIDE DEF x
      <4>2. x <= Len(req'[s].tokens)
        BY <4>1
      <4> QED BY <4>2 DEF x
    <3> QED BY <3>3, <3>4, <3>5, <3>6
  <2> QED BY <2>1, <2>2 DEF OwnHashes
<1>3. SharedComputed'
  <2> SUFFICES ASSUME NEW r \in Reqs, NEW s \in Reqs, r # s,
                      NEW i \in DOMAIN kv'.blocks[r] \cap DOMAIN kv'.blocks[s],
                      kv'.blocks[r][i] = kv'.blocks[s][i]
               PROVE  /\ kv'.pool.hash[kv'.blocks[r][i]] # NoHash
                      /\ i * BlockSize <= req'[r].computed \/ i * BlockSize <= req'[s].computed
    BY DEF SharedComputed
  <2>1. /\ kv'.blocks[r] = kv.blocks[r] /\ kv'.blocks[s] = kv.blocks[s]
        /\ req'[r].computed = req[r].computed /\ req'[s].computed = req[s].computed
    BY QuietRequest
  <2>2. kv.blocks[r][i] \in Blocks
    BY <2>1, StateFacts DEF Usable
  <2>3. /\ kv.pool.hash[kv.blocks[r][i]] # NoHash
        /\ i * BlockSize <= req[r].computed \/ i * BlockSize <= req[s].computed
    BY <2>1 DEF ReadInv, KVOwn, SharedComputed
  <2> QED BY <2>1, <2>2, <2>3, <1>1
<1>4. EnoughBlocks'
  <2> SUFFICES ASSUME NEW s \in Reqs, req'[s].status = "running"
               PROVE  AdvancedTo(s)' <= Len(kv'.blocks[s]) * BlockSize
    BY DEF EnoughBlocks
  <2>1. /\ kv'.blocks[s] = kv.blocks[s] /\ AdvancedTo(s)' = AdvancedTo(s)
        /\ req[s].status = "running"
    BY QuietRequest
  <2> QED BY <2>1 DEF ReadInv, KVOwn, EnoughBlocks
<1>5. HashesKnown'
  <2> SUFFICES ASSUME EnableCaching, NEW s \in Reqs
               PROVE  /\ req'[s].status \in Queued => Len(req'[s].tokens) >= BlockSize
                      /\ req'[s].status \in {"running", "preempted"} => kv'.hashes[s] # << >>
    BY DEF HashesKnown
  <2>1. ASSUME req'[s].status \in {"running", "preempted"} PROVE kv'.hashes[s] # << >>
    <3>1. kv'.hashes[s] = kv.hashes[s] /\ req[s].status \in {"running", "preempted"}
      BY <2>1, QuietRequest
    <3> QED BY <3>1 DEF ReadInv, KVOwn, HashesKnown
  <2> QED BY <2>1 DEF Quiet
<1> QED BY <1>2, <1>3, <1>4, <1>5 DEF KVOwn

\* So does the worker's mirror.
LEMMA QuietMirror ==
  ASSUME KVInv, AssertInv, ReadInv, Quiet
  PROVE  Mirror'
<1>1. /\ runner' = runner /\ finishedIds' = finishedIds
      /\ step'.out = step.out \/ (DOMAIN step.out = {} /\ DOMAIN step'.out = {})
      /\ step.preempted => step'.preempted
      /\ step'.pc \in {"idle", "update", "waiting"} => ~ step'.preempted
  BY DEF Quiet
<1>2. OutTrue /\ Known /\ BlocksMirrored /\ RowsOfRunning /\ FinishedOver
  BY DEF ReadInv, Mirror
<1>3. DOMAIN step.out \subseteq Reqs /\ DOMAIN step'.out = DOMAIN step.out
  BY <1>1, OutFacts
<1>4. \A r \in DOMAIN step.out : step'.out[r] = step.out[r]
  BY <1>1
<1>5. OutTrue'
  <2> SUFFICES ASSUME NEW r \in DOMAIN step'.out
               PROVE  /\ step'.out[r].kind \in {"new", "running", "resumed"}
                      /\ step'.out[r].start = req'[r].computed
                      /\ step'.out[r].tokens
                           = IF step'.out[r].kind = "new" THEN req'[r].tokens
                             ELSE SubSeq(req'[r].tokens, step'.out[r].start + 1,
                                         step'.out[r].start + step'.out[r].n)
                      /\ kv'.blocks[r] = IF step'.out[r].kind = "running"
                                         THEN runner'.known[r].blocks \o step'.out[r].ids
                                         ELSE step'.out[r].ids
                      /\ step'.out[r].kind = "resumed" => r \notin DOMAIN runner'.rows
    BY DEF OutTrue
  <2>1. r \in DOMAIN step.out /\ step'.out[r] = step.out[r] /\ r \in Reqs
    BY <1>3, <1>4
  <2>2. /\ kv'.blocks[r] = kv.blocks[r] /\ req'[r].computed = req[r].computed
        /\ req'[r].tokens = req[r].tokens
    BY <2>1, QuietRequest
  <2> QED BY <2>1, <2>2, <1>1, <1>2 DEF OutTrue
<1>6. Known'
  <2> SUFFICES ASSUME NEW r \in Reqs, req'[r].status \in {"running", "preempted"}, ~ Fresh(r)'
               PROVE  LET t == runner'.known[r].tokens IN
                      /\ r \in DOMAIN runner'.known
                      /\ Len(t) \in Nat /\ Len(t) <= Len(req'[r].tokens)
                      /\ t = SubSeq(req'[r].tokens, 1, Len(t))
                      /\ req'[r].status = "running" => req'[r].computed <= Len(t)
                      /\ Len(kv'.hashes[r]) * BlockSize <= Larger(Len(t), AdvancedTo(r)')
    BY DEF Known
  <2>1. ~ Fresh(r)
    BY <1>3, <1>4 DEF Fresh
  <2>2. /\ req[r].status = req'[r].status /\ kv'.hashes[r] = kv.hashes[r]
        /\ AdvancedTo(r)' = AdvancedTo(r) /\ req'[r].computed = req[r].computed
    BY QuietRequest
  <2> DEFINE t == runner.known[r].tokens
  <2>3. /\ r \in DOMAIN runner.known
        /\ Len(t) \in Nat /\ Len(t) <= Len(req[r].tokens) /\ t = SubSeq(req[r].tokens, 1, Len(t))
        /\ req[r].status = "running" => req[r].computed <= Len(t)
        /\ Len(kv.hashes[r]) * BlockSize <= Larger(Len(t), AdvancedTo(r))
    BY <2>1, <2>2, <1>2 DEF Known
  <2>4. /\ Len(t) <= Len(req'[r].tokens)
        /\ SubSeq(req'[r].tokens, 1, Len(t)) = SubSeq(req[r].tokens, 1, Len(t))
    <3> HIDE DEF t
    <3>1. /\ Len(req[r].tokens) \in Nat /\ Len(req'[r].tokens) \in Nat
          /\ Len(req[r].tokens) <= Len(req'[r].tokens)
          /\ SubSeq(req'[r].tokens, 1, Len(t)) = SubSeq(req[r].tokens, 1, Len(t))
      BY <2>3, QuietRequest, StateFacts
    <3> QED BY <3>1, <2>3
  <2> QED BY <2>2, <2>3, <2>4, <1>1
<1>7. BlocksMirrored'
  <2> SUFFICES ASSUME NEW r \in Reqs, req'[r].status = "running"
               PROVE  /\ r \notin DOMAIN step'.out => kv'.blocks[r] = runner'.known[r].blocks
                      /\ (/\ r \in DOMAIN runner'.rows
                          /\ r \in DOMAIN step'.out => step'.out[r].kind = "running")
                           => runner'.rows[r].blocks = runner'.known[r].blocks
    BY DEF BlocksMirrored
  <2>1. req[r].status = "running" /\ kv'.blocks[r] = kv.blocks[r]
    BY QuietRequest
  <2> QED BY <2>1, <1>1, <1>2, <1>3, <1>4 DEF BlocksMirrored
<1>8. RowsOfRunning'
  <2>1. ASSUME NEW r \in DOMAIN runner.rows, r \in Reqs, req'[r].status = "preempted"
        PROVE  step'.preempted
    <3>1. req[r].status = "preempted"
      BY <2>1, QuietRequest
    <3> QED BY <3>1, <2>1, <1>1, <1>2 DEF RowsOfRunning
  <2> QED BY <2>1, <1>1 DEF RowsOfRunning
<1>9. FinishedOver'
  <2>1. ASSUME NEW r \in finishedIds, r \in Reqs PROVE req'[r].status \in {"finished", "aborted"}
    <3>1. req[r].status \in {"finished", "aborted"}
      BY <2>1, <1>2 DEF FinishedOver
    <3> QED BY <3>1, <2>1, QuietRequest
  <2> QED BY <2>1, <1>1 DEF FinishedOver
<1> QED BY <1>5, <1>6, <1>7, <1>8, <1>9 DEF Mirror

\* So do the entries.
LEMMA QuietReadInv ==
  ASSUME KVInv, AssertInv, ReadInv, Quiet
  PROVE  ReadInv'
<1>1. /\ runner' = runner /\ \A b \in Blocks : kv'.pool.hash[b] = kv.pool.hash[b]
      /\ step'.out = step.out \/ (DOMAIN step.out = {} /\ DOMAIN step'.out = {})
  BY DEF Quiet
<1>2. \A q \in DOMAIN step.out : /\ q \in DOMAIN step'.out /\ step'.out[q] = step.out[q]
                                 /\ kv'.blocks[q] = kv.blocks[q]
  BY <1>1, OutFacts, QuietRequest
<1>3. ASSUME NEW b, NEW s, NEW entry, Right(runner.data, step.out, kv.blocks, b, s, entry)
      PROVE  Right(runner.data, step'.out, kv'.blocks, b, s, entry)
  BY ONLY <1>2, <1>3, RightStays
<1>4. CachedData'
  <2> SUFFICES ASSUME NEW b \in Blocks, NEW s \in 1 .. BlockSize, kv'.pool.hash[b] # NoHash
               PROVE  Right(runner.data, step'.out, kv'.blocks, b, s,
                            HashData(kv'.pool.hash[b], s))
    BY <1>1 DEF CachedData
  <2>1. kv'.pool.hash[b] = kv.pool.hash[b]
    BY <1>1
  <2>2. Right(runner.data, step.out, kv.blocks, b, s, HashData(kv.pool.hash[b], s))
    BY <2>1 DEF ReadInv, DataTrue, CachedData
  <2> QED BY <2>1, <2>2, <1>3
<1>5. OwnData'
  <2> SUFFICES ASSUME NEW r \in Reqs, req'[r].status = "running",
                      NEW pos \in 1 .. req'[r].computed
               PROVE  Right(runner.data, step'.out, kv'.blocks, kv'.blocks[r][PlaceOf(pos)],
                            SlotOf(pos), KVEntry(r, req'[r].tokens, pos))
    BY <1>1 DEF OwnData
  <2>1. /\ req[r].status = "running" /\ kv'.blocks[r] = kv.blocks[r]
        /\ req'[r].computed = req[r].computed
    BY QuietRequest
  <2>2. pos \in Nat /\ pos <= Len(req[r].tokens)
    <3>1. /\ req[r].computed \in Nat /\ AdvancedTo(r) \in Nat /\ Len(req[r].tokens) \in Nat
          /\ req[r].computed <= AdvancedTo(r) /\ AdvancedTo(r) <= Len(req[r].tokens)
      BY StateFacts
    <3> QED BY <3>1, <2>1
  <2>3. KVEntry(r, req'[r].tokens, pos) = KVEntry(r, req[r].tokens, pos)
    BY <2>2, QuietRequest
  <2>4. Right(runner.data, step.out, kv.blocks, kv.blocks[r][PlaceOf(pos)], SlotOf(pos),
              KVEntry(r, req[r].tokens, pos))
    BY <2>1 DEF ReadInv, DataTrue, OwnData
  <2> QED BY <2>1, <2>3, <2>4, <1>3
<1> QED BY <1>4, <1>5, QuietKVOwn, QuietMirror DEF ReadInv, DataTrue

\* A step after which all requests have the tokens they had.
LEMMA SameTokensReads ==
  ASSUME KVInv, AssertInv, ReadInv,
         \A s \in Reqs :
           /\ req'[s].tokens = req[s].tokens /\ req'[s].computed = req[s].computed
           /\ \/ req'[s].status = req[s].status
              \/ /\ req[s].status \in {"waiting_fsm", "waiting"}
                 /\ req'[s].status \in {"waiting_fsm", "waiting"}
           /\ kv'.blocks[s] = kv.blocks[s]
           /\ \/ kv'.hashes[s] = kv.hashes[s]
              \/ EnableCaching /\ kv'.hashes[s] = KnownHashes(kv, s, req[s]),
         \A b \in Blocks : kv'.pool.hash[b] = kv.pool.hash[b],
         runner' = runner, finishedIds' = finishedIds,
         step'.out = step.out \/ (DOMAIN step.out = {} /\ DOMAIN step'.out = {}),
         step.preempted => step'.preempted,
         step'.pc \in {"idle", "update", "waiting"} => ~ step'.preempted
  PROVE  ReadInv'
<1>1. ASSUME NEW s \in Reqs
      PROVE  \E g \in Seq(Nat) : /\ req'[s].tokens = req[s].tokens \o g
                                 /\ DOMAIN step.out = {} \/ g = << >>
  <2>1. req[s].tokens \in Seq(Nat)
    BY StateFacts
  <2>2. << >> \in Seq(Nat) /\ req[s].tokens \o << >> = req[s].tokens
    BY <2>1, ConcatEmptySeq
  <2> QED BY <2>2
<1>2. ASSUME NEW s \in Reqs, EnableCaching, req'[s].status \in Queued
      PROVE  Len(req'[s].tokens) >= BlockSize
  <2>1. req[s].status \in Queued
    BY <1>2 DEF Queued
  <2> QED BY <2>1, <1>2 DEF ReadInv, KVOwn, HashesKnown
<1>3. Quiet
  BY <1>1, <1>2 DEF Quiet
<1> QED BY <1>3, QuietReadInv

\* A step in which only the locals of a call change.
LEMMA MovesOnReads ==
  ASSUME KVInv, AssertInv, ReadInv, UNCHANGED <<kv, req, runner, finishedIds>>,
         step'.out = step.out \/ (DOMAIN step.out = {} /\ DOMAIN step'.out = {}),
         step.preempted => step'.preempted,
         step'.pc \in {"idle", "update", "waiting"} => ~ step'.preempted
  PROVE  ReadInv'
BY SameTokensReads

\* The first waiting request is put aside.
LEMMA SkipWaitingReads ==
  ASSUME KVInv, AssertInv, ReadInv, SkipWaiting, runner' = runner
  PROVE  ReadInv'
<1> DEFINE f == First
<1>0. QueueInv
  BY DEF KVInv
<1>1. /\ InWaitingLoop /\ kv' = kv /\ finishedIds' = finishedIds
      /\ req' = req \/ (req[f].status = "waiting_fsm"
                          /\ req' = [req EXCEPT ![f].status = "waiting"])
      /\ \E s : step' = [step EXCEPT !.skipped = s]
  BY DEF SkipWaiting
<1>2. f \in Reqs /\ step.pc = "waiting"
  BY <1>0, <1>1, FirstWaits DEF InWaitingLoop
<1> HIDE DEF f
<1>3. \A s \in Reqs : /\ req'[s].tokens = req[s].tokens
                      /\ req'[s].computed = req[s].computed
                      /\ \/ req'[s].status = req[s].status
                         \/ /\ req[s].status \in {"waiting_fsm", "waiting"}
                            /\ req'[s].status \in {"waiting_fsm", "waiting"}
  BY <1>0, <1>1, <1>2 DEF QueueInv, Shapes
<1>4. /\ step'.out = step.out /\ step'.preempted = step.preempted /\ step'.pc = step.pc
  BY <1>0, <1>1, <1>2 DEF QueueInv, Shapes, StepShape
<1>5. step'.pc \in {"idle", "update", "waiting"} => ~ step'.preempted
  BY <1>4 DEF ReadInv, Mirror, RowsOfRunning
<1> QED BY <1>1, <1>3, <1>4, <1>5, SameTokensReads

\* An allocation that fails hands out and hashes nothing.
LEMMA FullAllocation ==
  ASSUME SlidingWindow = 0, NEW m, ManagerInv(m), NEW r \in Reqs, NEW q, NEW n, NEW comp,
         NEW res, res = AllocateSlots(m, r, q, n, comp, 0), res.outcome = "full"
  PROVE  /\ res.m.hashes = m.hashes /\ res.m.pool.hash = m.pool.hash
         /\ \A s \in Reqs : res.m.blocks[s] = m.blocks[s]
<1>1. res.m = FreeSkipped(m, r, q)
  BY DEF AllocateSlots
<1> QED BY <1>1, FreeSkippedFacts

\* The first waiting request is looked up and stays where it is.
LEMMA NotAdmittedReads ==
  ASSUME Plain, KVInv, AssertInv, ReadInv, AdmissionFull \/ AdmissionAwaitsEncoder,
         runner' = runner
  PROVE  ReadInv'
<1>0. PICK f \in Reqs : f = First
  BY WaitingAccount DEF AdmissionFull, AdmissionAwaitsEncoder, Admissible
<1> DEFINE q == req[f]
           n == WaitingPlan.n
           m == AfterLookup(kv, f, q)
           res == WaitingAllocation
<1>1. /\ InWaitingLoop /\ QueueInv /\ SlidingWindow = 0 /\ ManagerInv(kv)
      /\ finishedIds' = finishedIds /\ step' = [step EXCEPT !.pc = "end"]
      /\ req' = IF req[f].status = "waiting_fsm"
                THEN [req EXCEPT ![f].status = "waiting"] ELSE req
  BY <1>0 DEF KVInv, Plain, AdmissionFull, AdmissionAwaitsEncoder, Admissible, InWaitingLoop
<1>2. ManagerInv(m)
  BY <1>0, <1>1, WaitingAccount
<1>3. /\ m.pool = kv.pool /\ m.blocks = kv.blocks
      /\ \A s \in Reqs : \/ m.hashes[s] = kv.hashes[s]
                         \/ EnableCaching /\ m.hashes[s] = KnownHashes(kv, s, req[s])
  <2>1. CASE ~ EnableCaching
    BY <2>1 DEF AfterLookup
  <2>2. CASE EnableCaching
    BY <2>2, <1>1 DEF ManagerInv, ManagerShape, AfterLookup
  <2> QED BY <2>1, <2>2
<1>4. /\ kv'.hashes = m.hashes /\ kv'.pool.hash = m.pool.hash
      /\ \A s \in Reqs : kv'.blocks[s] = m.blocks[s]
  <2>1. CASE AdmissionAwaitsEncoder
    <3>1. kv' = m
      BY <2>1, <1>0 DEF AdmissionAwaitsEncoder
    <3> QED BY <3>1
  <2>2. CASE AdmissionFull
    <3>1. kv' = res.m /\ res.outcome = "full" /\ n # 0
      BY <2>2 DEF AdmissionFull
    <3>2. res = AllocateSlots(m, f, q, n, Hits, 0)
      BY <1>0 DEF WaitingAllocation, Plain
    <3> HIDE DEF res, m, n, q
    <3>3. /\ res.m.hashes = m.hashes /\ res.m.pool.hash = m.pool.hash
          /\ \A s \in Reqs : res.m.blocks[s] = m.blocks[s]
      BY <3>1, <3>2, <1>1, <1>2, FullAllocation
    <3> QED BY <3>1, <3>3
  <2> QED BY <2>1, <2>2
<1> HIDE DEF m, res, n
<1>5. \A s \in Reqs : /\ req'[s].tokens = req[s].tokens /\ req'[s].computed = req[s].computed
                      /\ \/ req'[s].status = req[s].status
                         \/ /\ req[s].status \in {"waiting_fsm", "waiting"}
                            /\ req'[s].status \in {"waiting_fsm", "waiting"}
  BY <1>1 DEF QueueInv, Shapes
<1>6. step'.out = step.out /\ step'.preempted = step.preempted /\ step'.pc = "end"
  BY <1>1 DEF QueueInv, Shapes, StepShape
<1> QED BY <1>1, <1>3, <1>4, <1>5, <1>6, SameTokensReads

\* The steps of schedule() that allocate and free nothing
LEMMA ScheduleMovesOnReads ==
  ASSUME Plain, KVInv, AssertInv, ReadInv, runner' = runner,
         SkipRunning \/ EndRunningLoop \/ EndWaitingLoop
  PROVE  ReadInv'
<1>1. QueueInv
  BY DEF KVInv
<1>2. /\ UNCHANGED <<kv, req, finishedIds>>
      /\ step.pc \in {"running", "waiting"}
      /\ \/ step' = [step EXCEPT !.i = @ + 1] /\ step.pc = "running"
         \/ \E p \in {"waiting", "end"} :
              step' = [step EXCEPT !.pc = p] /\ (p = "waiting" => ~ step.preempted)
  BY DEF SkipRunning, InRunningLoop, EndRunningLoop, EndWaitingLoop
<1>3. /\ step'.out = step.out /\ step'.preempted = step.preempted
      /\ step'.pc \in {"idle", "update", "waiting"} => ~ step'.preempted
  BY <1>1, <1>2 DEF QueueInv, Shapes, StepShape
<1> QED BY <1>2, <1>3, MovesOnReads

\* The steps between two calls of schedule() that append no tokens
LEMMA OtherMovesOnReads ==
  ASSUME KVInv, AssertInv, ReadInv,
         \/ StartStep \/ UpdateUnscheduled \/ FinishUpdate
         \/ \E r \in Reqs : GrammarCompiled(r) /\ runner' = runner
  PROVE  ReadInv'
<1>1. QueueInv /\ (step.pc \in {"idle", "update"} => ~ step.preempted)
      /\ (step.pc \in {"idle", "update"} => DOMAIN step.out = {})
  BY OutFacts DEF KVInv, ReadInv, Mirror, RowsOfRunning
<1>2. DOMAIN NoStep.out = {} /\ ~ NoStep.preempted
  BY DEF NoStep
<1>3. CASE StartStep
  <2>1. /\ UNCHANGED <<kv, req, runner, finishedIds>> /\ step.pc = "idle"
        /\ step' = [NoStep EXCEPT !.pc = "running", !.i = 1,
                                  !.budget = MaxNumScheduledTokens]
    BY <1>3 DEF StartStep, BeginSchedule, Idle
  <2>2. /\ step'.pc = "running" /\ DOMAIN step'.out = {}
    BY <2>1 DEF NoStep
  <2> QED BY <2>1, <2>2, <1>1, MovesOnReads
<1>4. CASE UpdateUnscheduled
  <2>1. /\ UNCHANGED <<kv, req, runner, finishedIds>> /\ step.pc = "update"
        /\ step' = [step EXCEPT !.i = @ + 1, !.keep = Append(@, Current)]
    BY <1>4 DEF UpdateUnscheduled, InUpdateLoop, UpdateSkip
  <2>2. step'.out = step.out /\ step'.preempted = step.preempted
    BY <2>1, <1>1 DEF QueueInv, Shapes, StepShape
  <2> QED BY <2>1, <2>2, <1>1, MovesOnReads
<1>5. CASE FinishUpdate
  <2>1. /\ UNCHANGED <<kv, req, runner, finishedIds>> /\ step.pc = "update"
        /\ step' = NoStep
    BY <1>5 DEF FinishUpdate, EndUpdate
  <2> QED BY <2>1, <1>1, <1>2, MovesOnReads
<1>6. CASE \E r \in Reqs : GrammarCompiled(r) /\ runner' = runner
  <2>1. UNCHANGED <<kv, req, runner, finishedIds, step>>
    BY <1>6 DEF GrammarCompiled
  <2>2. step'.pc \in {"idle", "update", "waiting"} => ~ step'.preempted
    BY <2>1 DEF ReadInv, Mirror, RowsOfRunning
  <2> QED BY <2>1, <2>2, MovesOnReads
<1> QED BY <1>3, <1>4, <1>5, <1>6

\* A request that is added has a block of tokens at least.
LEMMA AddRequestReads ==
  ASSUME KVInv, AssertInv, ReadInv, NEW r \in Reqs, AddRequest(r),
         runner' = runner,
         EnableCaching => Len(Prompt[r]) >= BlockSize
  PROVE  ReadInv'
<1> DEFINE w == IF r \in FsmReqs THEN "waiting_fsm" ELSE "waiting"
           q == [status |-> w, tokens |-> Prompt[r], computed |-> 0, spec |-> << >>]
<1>1. /\ QueueInv /\ UNCHANGED <<kv, step, finishedIds>>
      /\ req[r].status = "unborn" /\ req' = [req EXCEPT ![r] = q] /\ step.pc = "idle"
  BY DEF KVInv, AddRequest, Idle
<1>2. /\ q.status = w /\ q.tokens = Prompt[r] /\ q.computed = 0
      /\ w \in {"waiting_fsm", "waiting"}
  OBVIOUS
<1> HIDE DEF q, w
<1>3. req'[r] = q /\ \A s \in Reqs : s # r => req'[s] = req[s]
  BY <1>1 DEF QueueInv, Shapes
<1>4. DOMAIN step.out = {} /\ ~ step.preempted
  BY <1>1, OutFacts DEF ReadInv, Mirror, RowsOfRunning
<1>5. req[r].tokens = << >> /\ req[r].computed = 0
  <2>1. Fits(r)
    BY DEF AssertInv
  <2> QED BY <2>1, <1>1 DEF Fits, Queued
<1>6. Prompt[r] \in Seq(Nat) /\ << >> \o Prompt[r] = Prompt[r]
  <2>1. Prompt[r] \in Seq(Nat)
    BY SchedulerAssumption
  <2> QED BY <2>1, ConcatEmptySeq
<1>7. ASSUME NEW s \in Reqs
      PROVE  /\ kv'.blocks[s] = kv.blocks[s] /\ kv'.hashes[s] = kv.hashes[s]
             /\ \E g \in Seq(Nat) : req'[s].tokens = req[s].tokens \o g
             /\ req'[s].computed = req[s].computed
             /\ \/ req'[s].status = req[s].status
                \/ /\ req[s].status \in {"unborn", "waiting_fsm", "waiting"}
                   /\ req'[s].status \in {"waiting_fsm", "waiting"}
             /\ EnableCaching /\ req'[s].status \in Queued => Len(req'[s].tokens) >= BlockSize
  <2>1. CASE s = r
    <3>1. req'[s].tokens = req[s].tokens \o Prompt[r]
      BY <2>1, <1>2, <1>3, <1>5, <1>6
    <3> QED BY <2>1, <3>1, <1>1, <1>2, <1>3, <1>5, <1>6
  <2>2. CASE s # r
    <3>1. req'[s] = req[s]
      BY <2>2, <1>3
    <3>2. req[s].tokens \in Seq(Nat)
      BY StateFacts
    <3>3. << >> \in Seq(Nat) /\ req[s].tokens \o << >> = req[s].tokens
      BY <3>2, ConcatEmptySeq
    <3>4. EnableCaching /\ req[s].status \in Queued => Len(req[s].tokens) >= BlockSize
      BY DEF ReadInv, KVOwn, HashesKnown
    <3> QED BY <3>1, <3>3, <3>4, <1>1
  <2> QED BY <2>1, <2>2
<1>8. Quiet
  BY <1>1, <1>4, <1>7 DEF Quiet
<1> QED BY <1>8, QuietReadInv

\* A running or waiting request that is not in the batch loses its blocks: it is
\* preempted, or it is gone.
Dropped(r) ==
  /\ r \notin DOMAIN step.out
  /\ req[r].status \in Queued \cup {"running"}
  /\ kv'.blocks[r] = << >>
  /\ \A b \in Blocks : kv'.pool.hash[b] = kv.pool.hash[b]
  /\ \A s \in Reqs : s # r => /\ req'[s] = req[s]
                              /\ kv'.blocks[s] = kv.blocks[s] /\ kv'.hashes[s] = kv.hashes[s]
  /\ req'[r].computed = 0
  /\ \/ /\ req[r].status = "running" /\ req'[r].status = "preempted"
        /\ req'[r].tokens = req[r].tokens /\ kv'.hashes[r] = kv.hashes[r]
        /\ step'.preempted /\ step'.pc \in {"running", "end"}
        /\ finishedIds' = finishedIds
     \/ /\ req'[r].status \in {"finished", "aborted"} /\ kv'.hashes[r] = << >>
        /\ step'.preempted = step.preempted /\ step'.pc = step.pc
        /\ finishedIds' = finishedIds \cup {r}
  /\ step'.out = step.out /\ runner' = runner

\* The hashes and blocks of the others stay right.
LEMMA DroppedKVOwn ==
  ASSUME KVInv, AssertInv, ReadInv, NEW r \in Reqs, Dropped(r)
  PROVE  KVOwn'
<1>1. /\ kv'.blocks[r] = << >> /\ step'.out = step.out
      /\ \A b \in Blocks : kv'.pool.hash[b] = kv.pool.hash[b]
      /\ \A s \in Reqs : s # r => /\ req'[s] = req[s] /\ kv'.blocks[s] = kv.blocks[s]
                                  /\ kv'.hashes[s] = kv.hashes[s]
      /\ \/ /\ req[r].status = "running" /\ req'[r].status = "preempted"
            /\ req'[r].tokens = req[r].tokens /\ kv'.hashes[r] = kv.hashes[r]
         \/ req'[r].status \in {"finished", "aborted"} /\ kv'.hashes[r] = << >>
  BY DEF Dropped
<1>2. DOMAIN << >> = {}
  OBVIOUS
<1>3. OwnHashes'
  <2>1. ASSUME NEW s \in Reqs, NEW i \in DOMAIN kv'.hashes[s]
        PROVE  kv'.hashes[s][i] = BlockHash(s, req'[s].tokens, i)
    <3>1. kv'.hashes[s] = kv.hashes[s] /\ req'[s].tokens = req[s].tokens
      BY <2>1, <1>1, <1>2
    <3> QED BY <3>1, <2>1 DEF ReadInv, KVOwn, OwnHashes
  <2>2. ASSUME NEW s \in Reqs, NEW i \in DOMAIN kv'.blocks[s],
               kv'.pool.hash[kv'.blocks[s][i]] # NoHash
        PROVE  /\ kv'.pool.hash[kv'.blocks[s][i]] = BlockHash(s, req'[s].tokens, i)
               /\ i * BlockSize <= Len(req'[s].tokens)
    <3>1. s # r
      BY <2>2, <1>1, <1>2
    <3>2. kv'.blocks[s] = kv.blocks[s] /\ req'[s].tokens = req[s].tokens
      BY <3>1, <1>1
    <3>3. kv.blocks[s][i] \in Blocks
      BY <2>2, <3>2, StateFacts DEF Usable
    <3>4. kv'.pool.hash[kv'.blocks[s][i]] = kv.pool.hash[kv.blocks[s][i]]
      BY <3>2, <3>3, <1>1
    <3> QED BY <2>2, <3>2, <3>4 DEF ReadInv, KVOwn, OwnHashes
  <2> QED BY <2>1, <2>2 DEF OwnHashes
<1>4. SharedComputed'
  <2> SUFFICES ASSUME NEW q \in Reqs, NEW s \in Reqs, q # s,
                      NEW i \in DOMAIN kv'.blocks[q] \cap DOMAIN kv'.blocks[s],
                      kv'.blocks[q][i] = kv'.blocks[s][i]
               PROVE  /\ kv'.pool.hash[kv'.blocks[q][i]] # NoHash
                      /\ i * BlockSize <= req'[q].computed \/ i * BlockSize <= req'[s].computed
    BY DEF SharedComputed
  <2>1. q # r /\ s # r
    BY <1>1, <1>2
  <2>2. /\ kv'.blocks[q] = kv.blocks[q] /\ kv'.blocks[s] = kv.blocks[s]
        /\ req'[q] = req[q] /\ req'[s] = req[s]
    BY <2>1, <1>1
  <2>3. kv.blocks[q][i] \in Blocks
    BY <2>2, StateFacts DEF Usable
  <2>4. /\ kv.pool.hash[kv.blocks[q][i]] # NoHash
        /\ i * BlockSize <= req[q].computed \/ i * BlockSize <= req[s].computed
    BY <2>2 DEF ReadInv, KVOwn, SharedComputed
  <2> QED BY <2>2, <2>3, <2>4, <1>1
<1>5. EnoughBlocks'
  <2> SUFFICES ASSUME NEW s \in Reqs, req'[s].status = "running"
               PROVE  AdvancedTo(s)' <= Len(kv'.blocks[s]) * BlockSize
    BY DEF EnoughBlocks
  <2>1. s # r
    BY <1>1
  <2>2. kv'.blocks[s] = kv.blocks[s] /\ AdvancedTo(s)' = AdvancedTo(s) /\ req'[s] = req[s]
    BY <2>1, <1>1, AdvancedToSame
  <2> QED BY <2>2 DEF ReadInv, KVOwn, EnoughBlocks
<1>6. HashesKnown'
  <2> SUFFICES ASSUME EnableCaching, NEW s \in Reqs
               PROVE  /\ req'[s].status \in Queued => Len(req'[s].tokens) >= BlockSize
                      /\ req'[s].status \in {"running", "preempted"} => kv'.hashes[s] # << >>
    BY DEF HashesKnown
  <2>1. CASE s # r
    BY <2>1, <1>1 DEF ReadInv, KVOwn, HashesKnown
  <2>2. CASE s = r
    <3>1. CASE req'[r].status \in {"finished", "aborted"}
      BY <2>2, <3>1 DEF Queued
    <3>2. CASE req'[r].status \notin {"finished", "aborted"}
      <4>1. kv.hashes[r] # << >> /\ kv'.hashes[r] = kv.hashes[r] /\ req'[r].tokens = req[r].tokens
        BY <3>2, <1>1 DEF ReadInv, KVOwn, HashesKnown
      <4>2. Len(req[r].tokens) >= BlockSize
        <5> DEFINE l == Len(kv.hashes[r])
                   t == Len(req[r].tokens)
        <5>1. l \in Nat /\ l * BlockSize <= t /\ t \in Nat /\ BlockSize \in Nat
          BY StateFacts, ManagerAssumption
        <5>2. l # 0
          <6>1. PICK S : kv.hashes[r] \in Seq(S)
            BY DEF KVInv, ManagerInv, Chain
          <6> QED BY <6>1, <4>1
        <5> HIDE DEF l, t
        <5>3. l * BlockSize >= BlockSize
          BY <5>1, <5>2
        <5>4. t >= BlockSize
          <6> DEFINE x == l * BlockSize
          <6>1. x \in Nat /\ x <= t /\ x >= BlockSize
            BY <5>1, <5>3
          <6> HIDE DEF x
          <6> QED BY <6>1, <5>1
        <5> QED BY <5>4 DEF t
      <4> QED BY <2>2, <4>1, <4>2
    <3> QED BY <3>1, <3>2
  <2> QED BY <2>1, <2>2
<1> QED BY <1>3, <1>4, <1>5, <1>6 DEF KVOwn

\* The worker keeps what it knows of a preempted request, for when it is resumed.
LEMMA DroppedMirror ==
  ASSUME KVInv, AssertInv, ReadInv, NEW r \in Reqs, Dropped(r)
  PROVE  Mirror'
<1>1. /\ r \notin DOMAIN step.out /\ step'.out = step.out /\ runner' = runner
      /\ req[r].status \in Queued \cup {"running"}
      /\ \A s \in Reqs : s # r => /\ req'[s] = req[s] /\ kv'.blocks[s] = kv.blocks[s]
                                  /\ kv'.hashes[s] = kv.hashes[s]
      /\ req'[r].computed = 0
      /\ \/ /\ req[r].status = "running" /\ req'[r].status = "preempted"
            /\ req'[r].tokens = req[r].tokens /\ kv'.hashes[r] = kv.hashes[r]
            /\ step'.preempted /\ step'.pc \in {"running", "end"}
            /\ finishedIds' = finishedIds
         \/ /\ req'[r].status \in {"finished", "aborted"}
            /\ step'.preempted = step.preempted /\ step'.pc = step.pc
            /\ finishedIds' = finishedIds \cup {r}
  BY DEF Dropped
<1>2. OutTrue /\ Known /\ BlocksMirrored /\ RowsOfRunning /\ FinishedOver
  BY DEF ReadInv, Mirror
<1>3. DOMAIN step.out \subseteq Reqs
  BY OutFacts
<1>4. OutTrue'
  <2> SUFFICES ASSUME NEW q \in DOMAIN step.out
               PROVE  /\ step.out[q].kind \in {"new", "running", "resumed"}
                      /\ step.out[q].start = req'[q].computed
                      /\ step.out[q].tokens
                           = IF step.out[q].kind = "new" THEN req'[q].tokens
                             ELSE SubSeq(req'[q].tokens, step.out[q].start + 1,
                                         step.out[q].start + step.out[q].n)
                      /\ kv'.blocks[q] = IF step.out[q].kind = "running"
                                         THEN runner.known[q].blocks \o step.out[q].ids
                                         ELSE step.out[q].ids
                      /\ step.out[q].kind = "resumed" => q \notin DOMAIN runner.rows
    BY <1>1 DEF OutTrue
  <2>1. q # r /\ q \in Reqs
    BY <1>1, <1>3
  <2>2. req'[q] = req[q] /\ kv'.blocks[q] = kv.blocks[q]
    BY <2>1, <1>1
  <2> QED BY <2>2, <1>2 DEF OutTrue
<1>5. Known'
  <2> SUFFICES ASSUME NEW q \in Reqs, req'[q].status \in {"running", "preempted"}, ~ Fresh(q)'
               PROVE  LET t == runner.known[q].tokens IN
                      /\ q \in DOMAIN runner.known
                      /\ Len(t) \in Nat /\ Len(t) <= Len(req'[q].tokens)
                      /\ t = SubSeq(req'[q].tokens, 1, Len(t))
                      /\ req'[q].status = "running" => req'[q].computed <= Len(t)
                      /\ Len(kv'.hashes[q]) * BlockSize <= Larger(Len(t), AdvancedTo(q)')
    BY <1>1 DEF Known
  <2>1. ~ Fresh(q)
    BY <1>1 DEF Fresh
  <2>2. /\ req[q].status \in {"running", "preempted"} /\ kv'.hashes[q] = kv.hashes[q]
        /\ req'[q].tokens = req[q].tokens
    BY <1>1
  <2> DEFINE t == runner.known[q].tokens
             l == Len(kv.hashes[q]) * BlockSize
  <2>3. /\ q \in DOMAIN runner.known
        /\ Len(t) \in Nat /\ Len(t) <= Len(req[q].tokens) /\ t = SubSeq(req[q].tokens, 1, Len(t))
        /\ req[q].status = "running" => req[q].computed <= Len(t)
        /\ l <= Larger(Len(t), AdvancedTo(q))
    BY <2>1, <2>2, <1>2 DEF Known
  <2>4. l <= Larger(Len(t), AdvancedTo(q)') /\ (req'[q].status = "running" => q # r)
    <3>1. CASE q # r
      <4>1. AdvancedTo(q)' = AdvancedTo(q)
        BY <3>1, <1>1, AdvancedToSame
      <4> HIDE DEF l, t
      <4> QED BY <4>1, <3>1, <2>3
    <3>2. CASE q = r
      <4>1. /\ AdvancedTo(r) = req[r].computed /\ AdvancedTo(r)' = 0
            /\ req[r].status = "running" /\ req'[r].status = "preempted"
        <5>1. req[r].computed \in Nat
          BY StateFacts
        <5> QED BY <5>1, <3>2, <1>1 DEF AdvancedTo
      <4>2. Larger(Len(t), AdvancedTo(q)) = Len(t)
        <5>1. req[r].computed \in Nat /\ req[r].computed <= Len(t)
          BY <4>1, <3>2, <2>3, StateFacts
        <5> HIDE DEF t
        <5> QED BY <5>1, <4>1, <3>2, <2>3 DEF Larger
      <4>3. Larger(Len(t), 0) = Len(t)
        <5> HIDE DEF t
        <5> QED BY <2>3 DEF Larger
      <4> HIDE DEF l, t
      <4> QED BY <4>1, <4>2, <4>3, <3>2, <2>3
    <3> QED BY <3>1, <3>2
  <2>5. req'[q].status = "running" => req'[q].computed <= Len(t)
    <3> HIDE DEF t, l
    <3> QED BY <2>3, <2>4, <1>1
  <2> QED BY <2>2, <2>3, <2>4, <2>5
<1>6. BlocksMirrored'
  <2> SUFFICES ASSUME NEW q \in Reqs, req'[q].status = "running"
               PROVE  /\ q \notin DOMAIN step.out => kv'.blocks[q] = runner.known[q].blocks
                      /\ (/\ q \in DOMAIN runner.rows
                          /\ q \in DOMAIN step.out => step.out[q].kind = "running")
                           => runner.rows[q].blocks = runner.known[q].blocks
    BY <1>1 DEF BlocksMirrored
  <2>1. q # r
    BY <1>1
  <2>2. req'[q] = req[q] /\ kv'.blocks[q] = kv.blocks[q]
    BY <2>1, <1>1
  <2> QED BY <2>2, <1>2 DEF BlocksMirrored
<1>7. RowsOfRunning'
  <2>1. ASSUME NEW q \in DOMAIN runner.rows, q \in Reqs, req'[q].status = "preempted"
        PROVE  step'.preempted
    <3>1. CASE q = r
      BY <3>1, <2>1, <1>1
    <3>2. CASE q # r
      BY <3>2, <2>1, <1>1, <1>2 DEF RowsOfRunning
    <3> QED BY <3>1, <3>2
  <2>2. step'.pc \in {"idle", "update", "waiting"} => ~ step'.preempted
    BY <1>1, <1>2 DEF RowsOfRunning
  <2> QED BY <2>1, <2>2, <1>1 DEF RowsOfRunning
<1>8. FinishedOver'
  <2>1. r \notin finishedIds
    BY <1>1, <1>2 DEF FinishedOver, Queued
  <2>2. ASSUME NEW q \in finishedIds', q \in Reqs PROVE req'[q].status \in {"finished", "aborted"}
    BY <2>1, <2>2, <1>1, <1>2 DEF FinishedOver
  <2> QED BY <2>2 DEF FinishedOver
<1> QED BY <1>4, <1>5, <1>6, <1>7, <1>8 DEF Mirror

\* The blocks keep their entries.
LEMMA DroppedReadInv ==
  ASSUME KVInv, AssertInv, ReadInv, NEW r \in Reqs, Dropped(r)
  PROVE  ReadInv'
<1>1. /\ r \notin DOMAIN step.out /\ step'.out = step.out /\ runner' = runner
      /\ \A b \in Blocks : kv'.pool.hash[b] = kv.pool.hash[b]
      /\ \A s \in Reqs : s # r => req'[s] = req[s] /\ kv'.blocks[s] = kv.blocks[s]
      /\ req'[r].status # "running"
  BY DEF Dropped
<1>2. \A q \in DOMAIN step.out : /\ q \in DOMAIN step'.out /\ step'.out[q] = step.out[q]
                                 /\ kv'.blocks[q] = kv.blocks[q]
  BY <1>1, OutFacts
<1>3. ASSUME NEW b, NEW s, NEW entry, Right(runner.data, step.out, kv.blocks, b, s, entry)
      PROVE  Right(runner.data, step'.out, kv'.blocks, b, s, entry)
  BY ONLY <1>2, <1>3, RightStays
<1>4. CachedData'
  <2> SUFFICES ASSUME NEW b \in Blocks, NEW s \in 1 .. BlockSize, kv'.pool.hash[b] # NoHash
               PROVE  Right(runner.data, step'.out, kv'.blocks, b, s,
                            HashData(kv'.pool.hash[b], s))
    BY <1>1 DEF CachedData
  <2>1. kv'.pool.hash[b] = kv.pool.hash[b]
    BY <1>1
  <2>2. Right(runner.data, step.out, kv.blocks, b, s, HashData(kv.pool.hash[b], s))
    BY <2>1 DEF ReadInv, DataTrue, CachedData
  <2> QED BY <2>1, <2>2, <1>3
<1>5. OwnData'
  <2> SUFFICES ASSUME NEW s \in Reqs, req'[s].status = "running",
                      NEW pos \in 1 .. req'[s].computed
               PROVE  Right(runner.data, step'.out, kv'.blocks, kv'.blocks[s][PlaceOf(pos)],
                            SlotOf(pos), KVEntry(s, req'[s].tokens, pos))
    BY <1>1 DEF OwnData
  <2>1. req'[s] = req[s] /\ kv'.blocks[s] = kv.blocks[s]
    BY <1>1
  <2>2. Right(runner.data, step.out, kv.blocks, kv.blocks[s][PlaceOf(pos)], SlotOf(pos),
              KVEntry(s, req[s].tokens, pos))
    BY <2>1 DEF ReadInv, DataTrue, OwnData
  <2> QED BY <2>1, <2>2, <1>3
<1> QED BY <1>4, <1>5, DroppedKVOwn, DroppedMirror DEF ReadInv, DataTrue

\* The last running request is preempted.
LEMMA PreemptReads ==
  ASSUME Plain, KVInv, AssertInv, ReadInv, Preempt, runner' = runner
  PROVE  ReadInv'
<1>0. PICK c \in Reqs : c = Current
  BY RunningAccount DEF Preempt
<1>1. PICK v : v = Victim
  OBVIOUS
<1> DEFINE q == req[c]
           n == RunningPlan.n
           res == RunningAllocation
           none == << >>
<1>2. /\ InRunningLoop /\ QueueInv /\ Numbers /\ ManagerInv(kv) /\ SlidingWindow = 0
      /\ step.pc = "running"
  BY DEF KVInv, Plain, Preempt, InRunningLoop
<1>3. /\ n # 0 /\ res.outcome = "full" /\ finishedIds' = finishedIds
      /\ req' = [req EXCEPT ![v] = Preempted(@)] /\ kv' = Free(res.m, v)
      /\ step' = [step EXCEPT !.preempted = TRUE]
  BY <1>1 DEF Preempt
<1>4. running \in Seq(Reqs) /\ running # << >> /\ v = running[Len(running)]
  BY <1>1, <1>2 DEF QueueInv, Shapes, StepShape, Victim, InRunningLoop
<1>5. Len(running) \in DOMAIN running /\ step.i <= Len(running) /\ step.i \in Nat
  BY <1>2, <1>4 DEF QueueInv, Shapes, StepShape, InRunningLoop
<1>6. v \in Reqs /\ v \notin DOMAIN step.out /\ req[v].status = "running"
  <2>1. v \in Reqs /\ v \in Range(running)
    BY <1>4, <1>5, RangeFacts
  <2>2. v \in DOMAIN step.out => Len(running) < step.i
    BY <1>2, <1>4, <1>5 DEF AssertInv, WithinLimits
  <2>3. Len(running) \in Nat
    BY <1>4
  <2>4. req[v].status = "running"
    BY <2>1, <1>2 DEF QueueInv, StatusesMatch, Live
  <2> QED BY <2>1, <2>2, <2>3, <2>4, <1>5
<1>7. /\ ManagerInv(res.m) /\ res.m.hashes = kv.hashes /\ res.m.pool.hash = kv.pool.hash
      /\ \A s \in Reqs : res.m.blocks[s] = kv.blocks[s]
  <2>1. res = AllocateSlots(kv, c, q, n, none, 0)
    BY <1>0 DEF RunningAllocation, Plain
  <2>2. ManagerInv(res.m)
    BY <1>2, RunningAllocationKeeps
  <2> HIDE DEF none, q, n, res
  <2> QED BY <2>1, <2>2, <1>2, <1>3, FullAllocation
<1> HIDE DEF res
<1>8. /\ kv'.hashes = kv.hashes /\ kv'.pool.hash = kv.pool.hash /\ kv'.blocks[v] = << >>
      /\ \A s \in Reqs : s # v => kv'.blocks[s] = kv.blocks[s]
  <2>1. kv'.hashes = kv.hashes /\ kv'.pool.hash = kv.pool.hash
    BY <1>3, <1>6, <1>7, FreeKeeps
  <2>2. OnlyOf(v, res.m, kv') /\ kv'.blocks[v] = << >>
    BY <1>3, <1>6, <1>7, FreeOnlyOf DEF ManagerInv
  <2> QED BY <2>1, <2>2, <1>7 DEF OnlyOf
<1>9. /\ \A s \in Reqs : s # v => req'[s] = req[s]
      /\ req'[v].status = "preempted" /\ req'[v].computed = 0
      /\ req'[v].tokens = req[v].tokens
  BY <1>2, <1>3, <1>6 DEF QueueInv, Shapes, Preempted
<1>10. /\ step'.out = step.out /\ step'.preempted /\ step'.pc \in {"running", "end"}
  BY <1>2, <1>3 DEF QueueInv, Shapes, StepShape
<1>11. Dropped(v)
  BY <1>3, <1>6, <1>8, <1>9, <1>10 DEF Dropped
<1> QED BY <1>6, <1>11, DroppedReadInv

\* A request is gone, stopped or aborted.
LEMMA GoneReads ==
  ASSUME KVInv, AssertInv, ReadInv, NEW r \in Reqs, NEW status \in {"finished", "aborted"},
         req[r].status \in Queued \cup {"running"},
         req' = [req EXCEPT ![r] = Gone(status)], kv' = Released(kv, r),
         DOMAIN step.out = {}, step'.out = step.out, step'.preempted = step.preempted,
         step'.pc = step.pc, finishedIds' = finishedIds \cup {r}, runner' = runner
  PROVE  ReadInv'
<1>1. QueueInv /\ ManagerInv(kv)
  BY DEF KVInv
<1>2. OnlyOf(r, kv, kv') /\ kv'.blocks[r] = << >>
  BY <1>1, ReleasedOnlyOf DEF QueueInv, Shapes
<1>3. kv'.pool.hash = kv.pool.hash /\ kv'.hashes[r] = << >>
      /\ \A s \in Reqs : s # r => kv'.hashes[s] = kv.hashes[s]
  <2> DEFINE n == Free(kv, r)
  <2>1. ManagerInv(n) /\ n.hashes = kv.hashes /\ n.pool.hash = kv.pool.hash
    BY <1>1, FreeKeeps
  <2>2. kv' = FreeBlockHashes(n, r)
    BY DEF Released
  <2> HIDE DEF n
  <2>3. /\ FreeBlockHashes(n, r).pool = n.pool /\ FreeBlockHashes(n, r).hashes[r] = << >>
        /\ \A s \in Reqs : s # r => FreeBlockHashes(n, r).hashes[s] = n.hashes[s]
    BY <2>1 DEF ManagerInv, ManagerShape, FreeBlockHashes
  <2> QED BY <2>1, <2>2, <2>3
<1>4. /\ req'[r] = Gone(status) /\ \A s \in Reqs : s # r => req'[s] = req[s]
  BY <1>1 DEF QueueInv, Shapes
<1>5. req'[r].status = status /\ req'[r].computed = 0
  BY <1>4 DEF Gone
<1>6. \A s \in Reqs : s # r => kv'.blocks[s] = kv.blocks[s]
  BY <1>2 DEF OnlyOf
<1>7. Dropped(r)
  BY <1>2, <1>3, <1>4, <1>5, <1>6 DEF Dropped
<1> QED BY <1>7, DroppedReadInv

\* The prefix cache is emptied while nobody holds a block.
LEMMA ResetReads ==
  ASSUME KVInv, AssertInv, ReadInv, ResetPrefixCacheCall, runner' = runner
  PROVE  ReadInv'
<1>1. /\ QueueInv /\ ManagerInv(kv) /\ kv' = ResetCache(kv) /\ CanResetPrefixCache(kv.pool)
      /\ UNCHANGED <<req, finishedIds, step>> /\ step.pc = "idle"
  BY DEF KVInv, ResetPrefixCacheCall, Idle
<1>2. \A r \in Reqs : kv.blocks[r] = << >>
  BY <1>1, NobodyHolds
<1>3. kv'.blocks = kv.blocks /\ kv'.hashes = kv.hashes
      /\ \A b \in Blocks : kv'.pool.hash[b] = NoHash
  <2>1. kv'.blocks = kv.blocks /\ kv'.hashes = kv.hashes /\ kv'.pool = ResetPrefixCache(kv.pool)
    BY <1>1 DEF ManagerInv, ManagerShape, ResetCache
  <2> QED BY <2>1, <1>1, ResetPrefixCacheFacts DEF ManagerInv
<1>4. DOMAIN << >> = {} /\ Len(<< >>) = 0
  OBVIOUS
<1>5. ASSUME NEW r \in Reqs, req[r].status = "running" PROVE req[r].computed = 0
  <2>1. AdvancedTo(r) <= Len(kv.blocks[r]) * BlockSize
    BY <1>5 DEF ReadInv, KVOwn, EnoughBlocks
  <2>2. 0 * BlockSize = 0
    BY ManagerAssumption
  <2> QED BY <2>1, <2>2, <1>2, <1>4, StateFacts
<1>6. KVOwn'
  <2>1. OwnHashes'
    BY <1>1, <1>2, <1>3, <1>4 DEF ReadInv, KVOwn, OwnHashes
  <2>2. SharedComputed'
    BY <1>2, <1>3, <1>4 DEF SharedComputed
  <2>3. EnoughBlocks'
    BY <1>1, <1>3 DEF ReadInv, KVOwn, EnoughBlocks, AdvancedTo
  <2>4. HashesKnown'
    BY <1>1, <1>3 DEF ReadInv, KVOwn, HashesKnown
  <2> QED BY <2>1, <2>2, <2>3, <2>4 DEF KVOwn
<1>7. Mirror'
  <2>1. DOMAIN step.out = {}
    BY <1>1, OutFacts
  <2>2. OutTrue'
    BY <2>1, <1>1 DEF OutTrue
  <2>3. Known'
    BY <1>1, <1>3 DEF ReadInv, Mirror, Known, Fresh, AdvancedTo
  <2>4. BlocksMirrored'
    BY <1>1, <1>3 DEF ReadInv, Mirror, BlocksMirrored
  <2>5. RowsOfRunning' /\ FinishedOver'
    BY <1>1 DEF ReadInv, Mirror, RowsOfRunning, FinishedOver
  <2> QED BY <2>2, <2>3, <2>4, <2>5 DEF Mirror
<1>8. DataTrue'
  <2>1. CachedData'
    BY <1>3 DEF CachedData
  <2>2. \A r \in Reqs : req'[r].status = "running" => 1 .. req'[r].computed = {}
    BY <1>1, <1>5
  <2>3. OwnData'
    BY <2>2 DEF OwnData
  <2> QED BY <2>1, <2>3 DEF DataTrue
<1> QED BY <1>6, <1>7, <1>8 DEF ReadInv

\* A token is appended to a request, or it stops.
LEMMA UpdateScheduledReads ==
  ASSUME Plain, KVInv, AssertInv, ReadInv, UpdateScheduled
  PROVE  ReadInv'
<1>1. QueueInv /\ Numbers /\ InUpdateLoop /\ step.pc = "update"
  BY DEF KVInv, UpdateScheduled, InUpdateLoop
<1>2. PICK r \in Reqs : r = Current /\ req[r].status = "running"
  BY <1>1, CurrentRuns DEF InUpdateLoop
<1>3. PICK e : e = Oldest[r]
  OBVIOUS
<1>4. PICK g \in Generated(e.spec, e.sampled) :
        \E d \in Drafts(g, Len(req[r].tokens) + Len(g)) : UpdateRequest(e, g, d)
  BY <1>2, <1>3 DEF UpdateScheduled
<1>5. PICK d \in Drafts(g, Len(req[r].tokens) + Len(g)) : UpdateRequest(e, g, d)
  BY <1>4
<1>6. e.spec = << >> /\ Len(e.spec) = 0
  <2>1. 1 \in DOMAIN batches /\ r \in DOMAIN Oldest
    BY <1>1, <1>2 DEF Numbers, BatchNumbers, UpdateScheduled
  <2>2. e.spec = << >>
    BY <2>1, <1>3 DEF AssertInv, NoDraftsInFlight, Oldest
  <2> QED BY <2>2
<1>7. g \in Seq(Nat)
  BY <1>4, <1>6, GeneratedTokens
<1> DEFINE q == [req[r] EXCEPT !.spec = d]
<1>8. /\ runner' = runner
      /\ IF StopAt(r, q, g) = {}
         THEN /\ req' = [req EXCEPT ![r] = [q EXCEPT !.tokens = @ \o g]]
              /\ step' = [step EXCEPT !.i = @ + 1, !.keep = Append(@, r)]
              /\ kv' = kv /\ finishedIds' = finishedIds
         ELSE /\ req' = [req EXCEPT ![r] = Gone("finished")]
              /\ kv' = Released(kv, r)
              /\ step' = [step EXCEPT !.i = @ + 1]
              /\ finishedIds' = finishedIds \cup {r}
  <2>1. Verified(req[r], e, g) = req[r]
    BY <1>6 DEF Verified
  <2> QED BY <2>1, <1>2, <1>5 DEF UpdateRequest, UpdateScheduled
<1>9. /\ q.tokens = req[r].tokens /\ q.status = req[r].status
      /\ q.computed = req[r].computed
      /\ {"status", "tokens", "computed", "spec"} \subseteq DOMAIN q
  BY <1>1 DEF QueueInv, Shapes
<1> HIDE DEF q
<1>10. /\ step'.out = step.out /\ step'.pc = "update" /\ step'.preempted = step.preempted
       /\ DOMAIN step.out = {} /\ ~ step.preempted
  <2>1. /\ step'.out = step.out /\ step'.pc = "update" /\ step'.preempted = step.preempted
    BY <1>1, <1>8 DEF QueueInv, Shapes, StepShape
  <2> QED BY <2>1, <1>1, OutFacts DEF ReadInv, Mirror, RowsOfRunning
<1>11. CASE StopAt(r, q, g) = {}
  <2>1. /\ req'[r].tokens = req[r].tokens \o g /\ req'[r].status = "running"
        /\ req'[r].computed = req[r].computed
        /\ \A s \in Reqs : s # r => req'[s] = req[s]
        /\ kv' = kv /\ finishedIds' = finishedIds
    BY <1>1, <1>2, <1>8, <1>9, <1>11 DEF QueueInv, Shapes
  <2>2. ASSUME NEW s \in Reqs
        PROVE  /\ \E h \in Seq(Nat) : req'[s].tokens = req[s].tokens \o h
               /\ req'[s].computed = req[s].computed /\ req'[s].status = req[s].status
               /\ EnableCaching /\ req'[s].status \in Queued
                    => Len(req'[s].tokens) >= BlockSize
    <3>1. CASE s = r
      BY <3>1, <2>1, <1>2, <1>7 DEF Queued
    <3>2. CASE s # r
      <4>1. req'[s] = req[s]
        BY <3>2, <2>1
      <4>2. req[s].tokens \in Seq(Nat)
        BY StateFacts
      <4>3. << >> \in Seq(Nat) /\ req[s].tokens \o << >> = req[s].tokens
        BY <4>2, ConcatEmptySeq
      <4>4. EnableCaching /\ req[s].status \in Queued => Len(req[s].tokens) >= BlockSize
        BY DEF ReadInv, KVOwn, HashesKnown
      <4> QED BY <4>1, <4>3, <4>4
    <3> QED BY <3>1, <3>2
  <2>3. Quiet
    BY <2>1, <2>2, <1>8, <1>10 DEF Quiet
  <2> QED BY <2>3, QuietReadInv
<1>12. CASE StopAt(r, q, g) # {}
  <2>1. /\ req' = [req EXCEPT ![r] = Gone("finished")] /\ kv' = Released(kv, r)
        /\ finishedIds' = finishedIds \cup {r}
    BY <1>8, <1>12
  <2> QED BY <2>1, <1>1, <1>2, <1>8, <1>10, GoneReads
<1> QED BY <1>11, <1>12

\* Calls from outside
LEMMA ExternalReads ==
  ASSUME KVInv, AssertInv, ReadInv, External \/ Reset,
         EnableCaching => \A r \in Reqs : Len(Prompt[r]) >= BlockSize
  PROVE  ReadInv'
<1>1. CASE Reset
  BY <1>1, ResetReads DEF Reset
<1>2. CASE External
  <2>1. PICK r \in Reqs : AddRequest(r) \/ GrammarCompiled(r) \/ FinishRequests(r)
    BY <1>2 DEF External
  <2>2. runner' = runner
    BY <1>2 DEF External
  <2>3. CASE AddRequest(r)
    BY <2>2, <2>3, AddRequestReads
  <2>4. CASE GrammarCompiled(r)
    BY <2>2, <2>4, OtherMovesOnReads
  <2>5. CASE FinishRequests(r)
    <3>1. /\ req' = [req EXCEPT ![r] = Gone("aborted")] /\ kv' = Released(kv, r)
          /\ step.pc = "idle" /\ step' = step /\ finishedIds' = finishedIds \cup {r}
          /\ req[r].status \in Queued \cup {"running"}
      BY <2>5 DEF FinishRequests, Idle, Queued
    <3>2. DOMAIN step.out = {}
      BY <3>1, OutFacts
    <3> QED BY <3>1, <3>2, <2>2, GoneReads
  <2> QED BY <2>1, <2>3, <2>4, <2>5
<1> QED BY <1>1, <1>2

\* The worker's state once it has run the batch that was put together
KnownNow == KnownAfter(runner.known, SchedulerOutput)
RowsNow == RowsAfter(runner.rows, KnownNow, SchedulerOutput)
DataNow == ForwardPass(runner.data, RowsNow, step.out)

\* The tokens the worker is told continue those it knows.
LEMMA TokensAfterFacts ==
  ASSUME NEW t \in Seq(Nat), NEW k, Len(k) \in Nat, Len(k) <= Len(t),
         k = SubSeq(t, 1, Len(k)), NEW e, e.start \in Nat, e.n \in Nat \ {0},
         e.start <= Len(k), e.start + e.n <= Len(t),
         e.tokens = SubSeq(t, e.start + 1, e.start + e.n)
  PROVE  TokensAfter(k, e) = SubSeq(t, 1, Larger(Len(k), e.start + e.n))
<1> DEFINE a == e.start
           n == e.n
           l == Len(k)
           num == e.start + Len(e.tokens) - Len(k)
<1>1. a \in Nat /\ n \in Nat \ {0} /\ l \in Nat /\ l <= Len(t) /\ a <= l /\ a + n <= Len(t)
      /\ Len(t) \in Nat
  OBVIOUS
<1>2. Len(e.tokens) = n
  <2>1. \A i \in a + 1 .. a + n : t[i] \in Nat
    <3> HIDE DEF a, n
    <3>1. \A i \in a + 1 .. a + n : i \in 1 .. Len(t)
      BY <1>1
    <3> QED BY <3>1
  <2>2. a + 1 \in Int /\ a + n \in Int /\ a + 1 <= a + n /\ (a + n) - (a + 1) + 1 = n
    <3> HIDE DEF a, n
    <3> QED BY <1>1
  <2>3. Len(SubSeq(t, a + 1, a + n)) = n
    <3> HIDE DEF a, n
    <3> QED BY <2>1, <2>2, SubSeqProperties
  <2> QED BY <2>3
<1>3. num = a + n - l
  BY <1>2
<1>4. TokensAfter(k, e) = IF num > 0 THEN k \o LastOf(e.tokens, num) ELSE k
  BY DEF TokensAfter
<1>5. CASE num > 0
  <2>1. LastOf(e.tokens, num) = SubSeq(e.tokens, l - a + 1, n)
    <3>1. LastOf(e.tokens, num) = SubSeq(e.tokens, Larger(1, n + 1 - num), n)
      BY <1>2 DEF LastOf
    <3>2. Larger(1, n + 1 - num) = l - a + 1
      <4> HIDE DEF a, n, l, num
      <4> QED BY <1>1, <1>3 DEF Larger
    <3> QED BY <3>1, <3>2
  <2>2. SubSeq(SubSeq(t, a + 1, a + n), l - a + 1, n) = SubSeq(t, l + 1, a + n)
    <3> DEFINE i == a + 1
               j == a + n
               m == l - a + 1
    <3>1. /\ i \in 1 .. Len(t) /\ j \in 1 .. Len(t) /\ j - i + 1 = n
          /\ m \in 1 .. n /\ n \in 1 .. n
          /\ i + m - 1 = l + 1 /\ i + n - 1 = a + n
      <4> HIDE DEF a, n, l, num
      <4> QED BY <1>1, <1>3, <1>5
    <3>2. m \in 1 .. j - i + 1 /\ n \in 1 .. j - i + 1
      BY <3>1
    <3> HIDE DEF a, n, l, num, i, j, m
    <3>3. SubSeq(SubSeq(t, i, j), m, n) = SubSeq(t, i + m - 1, i + n - 1)
      BY <3>1, <3>2, SubSeqOfSubSeq
    <3> QED BY <3>1, <3>3 DEF i, j, m
  <2>3. SubSeq(t, 1, l) \o SubSeq(t, l + 1, a + n) = SubSeq(t, 1, a + n)
    <3>1. 1 \in 1 .. Len(t) + 1 /\ l \in 1 - 1 .. Len(t) /\ a + n \in l .. Len(t)
      <4> HIDE DEF a, n, l, num
      <4> QED BY <1>1, <1>3, <1>5
    <3> HIDE DEF a, n, l, num
    <3> QED BY <3>1, ConcatAdjacentSubSeq
  <2>4. Larger(l, a + n) = a + n
    <3> HIDE DEF a, n, l, num
    <3> QED BY <1>1, <1>3, <1>5 DEF Larger
  <2> HIDE DEF a, n, l, num
  <2> QED BY <1>4, <1>5, <2>1, <2>2, <2>3, <2>4 DEF a, n, l
<1>6. CASE ~ (num > 0)
  <2>1. Larger(l, a + n) = l
    <3> HIDE DEF a, n, l, num
    <3> QED BY <1>1, <1>3, <1>6 DEF Larger
  <2> HIDE DEF num
  <2> QED BY <1>4, <1>6, <2>1
<1> QED BY <1>5, <1>6

\* What the worker knows of a request once the batch has run: as many of its tokens
\* as are computed then, at least, and the blocks it has.
LEMMA KnownNowFacts ==
  ASSUME KVInv, AssertInv, ReadInv, NEW r \in Reqs, req[r].status \in {"running", "preempted"}
  PROVE  LET k == KnownNow[r].tokens
         IN  /\ r \in DOMAIN KnownNow
             /\ Len(k) \in Nat /\ Len(k) <= Len(req[r].tokens)
             /\ k = SubSeq(req[r].tokens, 1, Len(k))
             /\ req[r].status = "running" => AdvancedTo(r) <= Len(k)
             /\ Len(kv.hashes[r]) * BlockSize <= Len(k)
             /\ req[r].status = "running" => KnownNow[r].blocks = kv.blocks[r]
<1> DEFINE t == req[r].tokens
           was == runner.known[r].tokens
           h == Len(kv.hashes[r]) * BlockSize
<1>1. /\ t \in Seq(Nat) /\ Len(t) \in Nat /\ req[r].computed \in Nat /\ AdvancedTo(r) \in Nat
      /\ AdvancedTo(r) <= Len(t) /\ req[r].computed <= AdvancedTo(r)
      /\ h <= Len(t) /\ h \in Nat
  <2>1. h \in Nat
    BY StateFacts, ManagerAssumption
  <2> QED BY <2>1, StateFacts
<1>2. OutTrue /\ Known /\ BlocksMirrored /\ FinishedOver
  BY DEF ReadInv, Mirror
<1>3. /\ DOMAIN KnownNow = (DOMAIN runner.known \ finishedIds) \cup DOMAIN step.out
      /\ r \notin DOMAIN step.out /\ r \in DOMAIN KnownNow => KnownNow[r] = runner.known[r]
      /\ r \in DOMAIN step.out =>
           KnownNow[r] = IF step.out[r].kind = "new"
                         THEN [tokens |-> step.out[r].tokens, blocks |-> step.out[r].ids]
                         ELSE [tokens |-> TokensAfter(runner.known[r].tokens, step.out[r]),
                               blocks |-> BlocksAfter(runner.known[r].blocks, step.out[r])]
  BY DEF KnownNow, KnownAfter, SchedulerOutput
<1>4. CASE r \notin DOMAIN step.out
  <2>1. /\ r \in DOMAIN runner.known
        /\ Len(was) \in Nat /\ Len(was) <= Len(t) /\ was = SubSeq(t, 1, Len(was))
        /\ req[r].status = "running" => req[r].computed <= Len(was)
        /\ h <= Len(was)
    BY <1>4, KnownUnscheduled
  <2>2. r \notin finishedIds
    BY <1>2 DEF FinishedOver
  <2>3. r \in DOMAIN KnownNow /\ KnownNow[r] = runner.known[r]
    BY <2>1, <2>2, <1>3, <1>4
  <2>4. AdvancedTo(r) = req[r].computed
    BY <1>1, <1>4 DEF AdvancedTo
  <2>5. req[r].status = "running" => KnownNow[r].blocks = kv.blocks[r]
    BY <2>3, <1>2, <1>4 DEF BlocksMirrored
  <2> QED BY <2>1, <2>3, <2>4, <2>5
<1>5. CASE r \in DOMAIN step.out
  <2> DEFINE e == step.out[r]
             upto == e.start + e.n
  <2>1. /\ e.kind \in {"new", "running", "resumed"} /\ e.start = req[r].computed
        /\ e.tokens = IF e.kind = "new" THEN t ELSE SubSeq(t, e.start + 1, upto)
        /\ kv.blocks[r] = IF e.kind = "running" THEN runner.known[r].blocks \o e.ids
                          ELSE e.ids
    BY <1>2, <1>5 DEF OutTrue
  <2>2. e.n \in Nat \ {0} /\ req[r].status = "running" /\ AdvancedTo(r) = upto
    BY <2>1, <1>5, OutFacts DEF AdvancedTo
  <2>3. r \in DOMAIN KnownNow
    BY <1>3, <1>5
  <2>4. CASE e.kind = "new"
    <3>1. KnownNow[r].tokens = t /\ KnownNow[r].blocks = kv.blocks[r]
      BY <2>1, <2>4, <1>3, <1>5
    <3>2. t = SubSeq(t, 1, Len(t))
      BY <1>1, SubSeqFull
    <3> QED BY <2>3, <3>1, <3>2, <1>1
  <2>5. CASE e.kind # "new"
    <3>1. /\ Len(was) \in Nat /\ Len(was) <= Len(t) /\ was = SubSeq(t, 1, Len(was))
          /\ e.start <= Len(was)
          /\ h <= Larger(Len(was), upto)
      <4>1. ~ Fresh(r)
        BY <2>5 DEF Fresh
      <4> HIDE DEF e, upto
      <4> QED BY <4>1, <2>1, <2>2, <1>2 DEF Known
    <3>2. KnownNow[r].tokens = TokensAfter(was, e)
      BY <2>5, <1>3, <1>5
    <3>3. KnownNow[r].blocks = kv.blocks[r]
      <4>1. KnownNow[r].blocks = BlocksAfter(runner.known[r].blocks, e)
        BY <2>5, <1>3, <1>5
      <4>2. e.kind = "running" \/ e.kind = "resumed"
        BY <2>1, <2>5
      <4> HIDE DEF e
      <4>3. BlocksAfter(runner.known[r].blocks, e)
              = IF e.kind = "running" THEN runner.known[r].blocks \o e.ids ELSE e.ids
        BY <4>2 DEF BlocksAfter
      <4> QED BY <4>1, <4>3, <2>1
    <3>4. TokensAfter(was, e) = SubSeq(t, 1, Larger(Len(was), upto))
      <4>1. /\ e.start \in Nat /\ e.n \in Nat \ {0} /\ e.start <= Len(was)
            /\ e.start + e.n <= Len(t) /\ e.tokens = SubSeq(t, e.start + 1, e.start + e.n)
        BY <2>1, <2>2, <2>5, <3>1, <1>1
      <4>2. PICK x, k, y : x = t /\ k = was /\ y = e
        OBVIOUS
      <4>3. TokensAfter(k, y) = SubSeq(x, 1, Larger(Len(k), y.start + y.n))
        <5>1. /\ x \in Seq(Nat) /\ Len(k) \in Nat /\ Len(k) <= Len(x)
              /\ k = SubSeq(x, 1, Len(k))
          BY <4>2, <1>1, <3>1
        <5>2. /\ y.start \in Nat /\ y.n \in Nat \ {0} /\ y.start <= Len(k)
              /\ y.start + y.n <= Len(x) /\ y.tokens = SubSeq(x, y.start + 1, y.start + y.n)
          BY <4>1, <4>2
        <5> QED BY ONLY <5>1, <5>2, TokensAfterFacts
      <4> QED BY <4>2, <4>3
    <3> DEFINE m == Larger(Len(was), upto)
    <3>5. m \in Nat /\ m <= Len(t) /\ upto <= m
      <4>1. upto \in Nat /\ upto <= Len(t)
        BY <2>2, <1>1
      <4> HIDE DEF upto, was
      <4> QED BY <4>1, <3>1, <1>1 DEF Larger
    <3>6. Len(SubSeq(t, 1, m)) = m
      <4> HIDE DEF m, t
      <4>1. \A i \in 1 .. m : t[i] \in Nat
        BY <3>5, <1>1
      <4>2. Len(SubSeq(t, 1, m)) = IF 1 <= m THEN m - 1 + 1 ELSE 0
        BY <4>1, <3>5, SubSeqProperties
      <4> QED BY <4>2, <3>5
    <3>7. /\ KnownNow[r].tokens = SubSeq(t, 1, m) /\ Len(KnownNow[r].tokens) = m
          /\ h <= m /\ AdvancedTo(r) <= m
      BY <2>2, <3>1, <3>2, <3>4, <3>5, <3>6
    <3> HIDE DEF m
    <3> QED BY <2>3, <3>3, <3>5, <3>7
  <2> QED BY <2>4, <2>5
<1> QED BY <1>4, <1>5

\* The row the worker computes from has the tokens and the blocks of the request.
LEMMA RowsNowFacts ==
  ASSUME KVInv, AssertInv, ReadInv, NEW r \in DOMAIN step.out
  PROVE  /\ \E S : RowsNow[r].tokens \in [1 .. MaxModelLen -> S]
         /\ \A p \in Positions(step.out[r]) : RowsNow[r].tokens[p] = req[r].tokens[p]
         /\ RowsNow[r].blocks = kv.blocks[r]
<1> DEFINE e == step.out[r]
           t == req[r].tokens
           k == KnownNow[r].tokens
           upto == e.start + e.n
           M == MaxModelLen
<1>1. /\ r \in Reqs /\ req[r].status = "running" /\ e.n \in Nat \ {0}
      /\ e.spec = << >>
  BY OutFacts
<1>2. /\ e.kind \in {"new", "running", "resumed"} /\ e.start = req[r].computed
      /\ e.tokens = IF e.kind = "new" THEN t ELSE SubSeq(t, e.start + 1, upto)
      /\ kv.blocks[r] = IF e.kind = "running" THEN runner.known[r].blocks \o e.ids
                        ELSE e.ids
      /\ e.kind = "resumed" => r \notin DOMAIN runner.rows
  BY DEF ReadInv, Mirror, OutTrue
<1>3. /\ t \in Seq(Nat) /\ Len(t) \in Nat /\ Len(t) <= M /\ e.start \in Nat
      /\ AdvancedTo(r) = upto /\ upto <= Len(t) /\ upto \in Nat
  <2>1. AdvancedTo(r) = upto
    BY <1>2 DEF AdvancedTo
  <2> QED BY <2>1, <1>1, <1>2, StateFacts
<1>4. /\ Len(k) \in Nat /\ upto <= Len(k) /\ Len(k) <= Len(t) /\ k = SubSeq(t, 1, Len(k))
      /\ KnownNow[r].blocks = kv.blocks[r]
  <2> HIDE DEF upto
  <2> QED BY <1>1, <1>3, KnownNowFacts
<1>5. M \in Nat
  BY ManagerAssumption
<1> DEFINE a == e.start
           n == e.n
<1>10. /\ a \in Nat /\ n \in Nat \ {0} /\ upto = a + n /\ upto \in Nat /\ upto <= Len(t)
       /\ \A i \in a + 1 .. upto : i \in 1 .. Len(t) /\ t[i] \in Nat
       /\ \A i \in 1 .. Len(t) : t[i] \in Nat
       /\ a + 1 \in Int /\ a + 1 <= upto /\ upto - (a + 1) + 1 = n /\ n \in Nat
  <2>1. a \in Nat /\ n \in Nat \ {0} /\ upto = a + n /\ upto \in Nat /\ upto <= Len(t)
    BY <1>1, <1>3
  <2>2. \A i \in 1 .. Len(t) : t[i] \in Nat
    BY <1>3
  <2>3. Len(t) \in Nat
    BY <1>3
  <2> HIDE DEF a, n, upto, t
  <2>4. \A i \in a + 1 .. upto : i \in 1 .. Len(t)
    BY <2>1, <2>3
  <2>5. a + 1 \in Int /\ a + 1 <= upto /\ upto - (a + 1) + 1 = n
    BY <2>1
  <2> QED BY <2>1, <2>2, <2>4, <2>5
<1>11. ASSUME NEW p \in Positions(e)
       PROVE  /\ p \in 1 .. M /\ p \in Nat \ {0} /\ p <= Len(k) /\ p \in 1 .. Len(t)
              /\ p - a \in 1 .. n /\ a + (p - a) = p
  <2>1. p \in a + 1 .. a + n
    BY DEF Positions
  <2> HIDE DEF a, n, upto, t, k, M, e
  <2> QED BY <2>1, <1>3, <1>4, <1>5, <1>10
<1>6. ASSUME NEW f, f = [i \in 1 .. M |-> f[i]]
      PROVE  \E S : f \in [1 .. M -> S]
  BY <1>6, f \in [1 .. M -> {f[i] : i \in 1 .. M}]
<1>7. RowsNow[r] = IF r \in RowsKept(runner.rows, SchedulerOutput) /\ e.kind # "new"
                   THEN RowAfter(runner.rows[r], e) ELSE NewRow(KnownNow[r])
  BY DEF RowsNow, RowsAfter, SchedulerOutput
<1>8. CASE r \in RowsKept(runner.rows, SchedulerOutput) /\ e.kind # "new"
  <2>1. r \in DOMAIN runner.rows /\ e.kind = "running"
    BY <1>2, <1>8 DEF RowsKept
  <2>2. runner.rows[r].blocks = runner.known[r].blocks
    BY <2>1, <1>1 DEF ReadInv, Mirror, BlocksMirrored
  <2> DEFINE new == e.tokens \o e.spec
  <2>3. /\ RowsNow[r].tokens = [i \in 1 .. M |-> IF i - e.start \in DOMAIN new THEN new[i - e.start]
                                                 ELSE runner.rows[r].tokens[i]]
        /\ RowsNow[r].blocks = runner.rows[r].blocks \o e.ids
    <3>1. RowsNow[r] = RowAfter(runner.rows[r], e)
      BY <1>7, <1>8
    <3> HIDE DEF e
    <3>2. RowAfter(runner.rows[r], e).blocks = runner.rows[r].blocks \o e.ids
      BY DEF RowAfter
    <3>3. RowAfter(runner.rows[r], e).tokens
            = [i \in 1 .. M |-> IF i - e.start \in DOMAIN new THEN new[i - e.start]
                                ELSE runner.rows[r].tokens[i]]
      BY DEF RowAfter
    <3> QED BY <3>1, <3>2, <3>3
  <2>4. new = SubSeq(t, e.start + 1, upto)
    <3>2. SubSeq(t, a + 1, upto) \in Seq(Nat)
      <4> DEFINE c == a + 1
      <4>1. c \in Int /\ upto \in Int /\ \A i \in c .. upto : t[i] \in Nat
        <5> HIDE DEF a, n, upto, t
        <5> QED BY <1>10
      <4> HIDE DEF c, upto, t
      <4>2. SubSeq(t, c, upto) \in Seq(Nat)
        BY <4>1, SubSeqProperties
      <4> QED BY <4>2 DEF c
    <3>3. e.tokens \in Seq(Nat) /\ e.tokens = SubSeq(t, e.start + 1, upto)
      BY <3>2, <2>1, <1>2
    <3> QED BY <3>3, <1>1, ConcatEmptySeq
  <2>5. Len(new) = e.n /\ new \in Seq(Nat) /\ \A i \in 1 .. e.n : new[i] = t[e.start + i]
    <3> DEFINE c == a + 1
    <3>1. /\ c \in Int /\ upto \in Int /\ c <= upto /\ upto - c + 1 = n /\ n \in Nat
          /\ \A i \in c .. upto : t[i] \in Nat
      BY <1>10
    <3>2. new = SubSeq(t, c, upto)
      BY <2>4
    <3>3. \A i \in 1 .. n : c + i - 1 = a + i
      <4> HIDE DEF a, n
      <4> QED BY <1>10
    <3> HIDE DEF c, n, a, new, upto, t
    <3>4. /\ Len(new) = n /\ new \in Seq(Nat)
          /\ \A i \in 1 .. n : new[i] = t[c + i - 1]
      BY <3>1, <3>2, SubSeqProperties
    <3>5. \A i \in 1 .. n : new[i] = t[a + i]
      BY <3>3, <3>4
    <3> QED BY <3>4, <3>5 DEF n, a
  <2>6. ASSUME NEW p \in Positions(e) PROVE RowsNow[r].tokens[p] = t[p]
    <3>1. p \in 1 .. M /\ p - e.start \in 1 .. e.n /\ e.start + (p - e.start) = p
      BY <1>11
    <3>2. p - e.start \in DOMAIN new
      <4> HIDE DEF new
      <4> QED BY <3>1, <2>5
    <3>3. RowsNow[r].tokens[p] = new[p - e.start]
      <4> HIDE DEF new
      <4> QED BY <3>1, <3>2, <2>3
    <3> HIDE DEF new
    <3> QED BY <3>1, <3>3, <2>5
  <2>7. \E S : RowsNow[r].tokens \in [1 .. M -> S]
    BY <1>6, <2>3
  <2> QED BY <2>1, <2>2, <2>3, <2>6, <2>7, <1>2
<1>9. CASE ~ (r \in RowsKept(runner.rows, SchedulerOutput) /\ e.kind # "new")
  <2>1. /\ RowsNow[r].tokens = [i \in 1 .. M |-> IF i <= Len(k) THEN k[i] ELSE NoToken]
        /\ RowsNow[r].blocks = KnownNow[r].blocks
    BY <1>7, <1>9 DEF NewRow
  <2>2. ASSUME NEW p \in Positions(e) PROVE RowsNow[r].tokens[p] = t[p]
    <3>1. p \in 1 .. M /\ p \in Nat \ {0} /\ p <= Len(k)
      BY <1>11
    <3>2. RowsNow[r].tokens[p] = k[p]
      <4> HIDE DEF k
      <4> QED BY <2>1, <3>1
    <3>3. SubSeq(t, 1, Len(k))[p] = t[p]
      <4> DEFINE l == Len(k)
      <4>0. l \in Nat /\ l <= Len(t) /\ Len(t) \in Nat /\ p \in Nat \ {0} /\ p <= l
        BY <1>3, <1>4, <3>1
      <4> HIDE DEF l, t
      <4>1. /\ l \in Nat /\ 1 <= l /\ l - 1 + 1 = l /\ \A i \in 1 .. l : t[i] \in Nat
            /\ p \in 1 .. l - 1 + 1 /\ 1 + p - 1 = p
        <5>1. \A i \in 1 .. Len(t) : t[i] \in Nat
          BY <1>10
        <5>2. \A i \in 1 .. l : i \in 1 .. Len(t)
          BY <4>0
        <5> QED BY <4>0, <5>1, <5>2
      <4>3. SubSeq(t, 1, l)[p] = t[p]
        BY <4>1, SubSeqProperties
      <4> QED BY <4>3 DEF l
    <3> QED BY <3>2, <3>3, <1>4
  <2>3. \E S : RowsNow[r].tokens \in [1 .. M -> S]
    BY <1>6, <2>1
  <2> QED BY <2>1, <2>2, <2>3, <1>4
<1> QED BY <1>8, <1>9

\* A position computed or scheduled has a block, and its place in the row is
\* that of the manager.
LEMMA PlacesHeld ==
  ASSUME KVInv, AssertInv, ReadInv, NEW r \in Reqs, req[r].status = "running",
         NEW pos \in 1 .. AdvancedTo(r)
  PROVE  /\ pos \in Nat \ {0} /\ PlaceOf(pos) \in DOMAIN kv.blocks[r]
         /\ kv.blocks[r][PlaceOf(pos)] \in Blocks /\ SlotOf(pos) \in 1 .. BlockSize
         /\ r \in DOMAIN step.out =>
              BlockOf(RowsNow[r], pos) = kv.blocks[r][PlaceOf(pos)]
<1>1. AdvancedTo(r) \in Nat /\ pos \in Nat \ {0}
  BY StateFacts
<1>2. AdvancedTo(r) <= Len(kv.blocks[r]) * BlockSize
  BY DEF ReadInv, KVOwn, EnoughBlocks
<1>3. /\ PlaceOf(pos) \in Nat \ {0} /\ SlotOf(pos) \in 1 .. BlockSize
      /\ \A n \in Nat : PlaceOf(pos) <= n <=> pos <= n * BlockSize
  BY <1>1, PlaceFacts
<1>4. kv.blocks[r] \in Seq(Usable)
  BY StateFacts
<1>5. Len(kv.blocks[r]) \in Nat /\ DOMAIN kv.blocks[r] = 1 .. Len(kv.blocks[r])
  BY <1>4
<1>6. pos <= Len(kv.blocks[r]) * BlockSize
  <2> DEFINE c == Len(kv.blocks[r]) * BlockSize
  <2>1. c \in Nat
    BY <1>5, ManagerAssumption
  <2> HIDE DEF c
  <2> QED BY <2>1, <1>1, <1>2 DEF c
<1>7. PlaceOf(pos) \in DOMAIN kv.blocks[r]
  BY <1>3, <1>5, <1>6
<1>8. kv.blocks[r][PlaceOf(pos)] \in Blocks
  BY <1>7, StateFacts DEF Usable
<1>9. ASSUME r \in DOMAIN step.out
      PROVE  BlockOf(RowsNow[r], pos) = kv.blocks[r][PlaceOf(pos)]
  BY <1>9, RowsNowFacts DEF BlockOf, PlaceOf
<1> QED BY <1>1, <1>3, <1>7, <1>8, <1>9

\* Two requests with the same slot have the same position there and the same text up
\* to it, and one of them at least has it computed.
LEMMA SameSlot ==
  ASSUME KVInv, AssertInv, ReadInv,
         NEW q \in Reqs, req[q].status = "running", NEW p \in 1 .. AdvancedTo(q),
         NEW w \in Reqs, req[w].status = "running", NEW x \in 1 .. AdvancedTo(w),
         kv.blocks[q][PlaceOf(p)] = kv.blocks[w][PlaceOf(x)], SlotOf(p) = SlotOf(x)
  PROVE  /\ p = x
         /\ q # w => /\ p <= req[q].computed \/ p <= req[w].computed
                     /\ KVEntry(q, req[q].tokens, p) = KVEntry(w, req[w].tokens, p)
<1> DEFINE i == PlaceOf(p)
<1>1. /\ p \in Nat \ {0} /\ i \in DOMAIN kv.blocks[q]
      /\ x \in Nat \ {0} /\ PlaceOf(x) \in DOMAIN kv.blocks[w]
  BY PlacesHeld
<1>2. i = PlaceOf(x)
  <2>1. Placed(kv)
    BY DEF KVInv, ManagerInv
  <2> QED BY <1>1, <2>1 DEF Placed
<1>3. p = x
  BY <1>1, <1>2, PlaceFacts
<1>4. ASSUME q # w
      PROVE  /\ p <= req[q].computed \/ p <= req[w].computed
             /\ KVEntry(q, req[q].tokens, p) = KVEntry(w, req[w].tokens, p)
  <2> DEFINE b == kv.blocks[q][i]
             end == i * BlockSize
  <2>1. i \in DOMAIN kv.blocks[q] \cap DOMAIN kv.blocks[w] /\ kv.blocks[w][i] = b
    BY <1>1, <1>2
  <2>2. /\ kv.pool.hash[b] # NoHash
        /\ end <= req[q].computed \/ end <= req[w].computed
    <3>1. SharedComputed
      BY DEF ReadInv, KVOwn
    <3> QED BY <1>4, <2>1, <3>1 DEF SharedComputed
  <2>3. p <= end /\ end \in Nat
    <3>1. p <= end /\ i \in Nat
      BY <1>1, PlaceFacts
    <3> QED BY <3>1, ManagerAssumption
  <2>4. req[q].computed \in Nat /\ req[w].computed \in Nat
    BY StateFacts
  <2>5. p <= req[q].computed \/ p <= req[w].computed
    <3> HIDE DEF end
    <3> QED BY <1>1, <2>2, <2>3, <2>4
  <2>6. /\ kv.pool.hash[b] = BlockHash(q, req[q].tokens, i) /\ end <= Len(req[q].tokens)
        /\ kv.pool.hash[b] = BlockHash(w, req[w].tokens, i) /\ end <= Len(req[w].tokens)
    <3>1. OwnHashes
      BY DEF ReadInv, KVOwn
    <3> QED BY <2>1, <2>2, <3>1 DEF OwnHashes
  <2>7. req[q].tokens \in Seq(Nat) /\ req[w].tokens \in Seq(Nat)
    BY StateFacts
  <2>8. /\ HashData(kv.pool.hash[b], SlotOf(p)) = KVEntry(q, req[q].tokens, p)
        /\ HashData(kv.pool.hash[b], SlotOf(p)) = KVEntry(w, req[w].tokens, p)
    BY <2>6, <2>7, <1>1, HashDataFacts
  <2> QED BY <2>5, <2>8
<1> QED BY <1>3, <1>4

\* What is written in this batch is what is pending.
LEMMA WritesNow ==
  ASSUME KVInv, AssertInv, ReadInv
  PROVE  /\ \A q \in DOMAIN step.out : \A p \in Positions(step.out[q]) :
              /\ q \in Reqs /\ req[q].status = "running" /\ p \in 1 .. AdvancedTo(q)
              /\ req[q].computed < p /\ p \in Nat \ {0}
              /\ BlockOf(RowsNow[q], p) = kv.blocks[q][PlaceOf(p)]
         /\ \A b, s : Untouched(RowsNow, step.out, b, s)
                        <=> ~ Pending(step.out, kv.blocks, b, s)
<1>1. ASSUME NEW q \in DOMAIN step.out, NEW p \in Positions(step.out[q])
      PROVE  /\ q \in Reqs /\ req[q].status = "running" /\ p \in 1 .. AdvancedTo(q)
             /\ req[q].computed < p /\ p \in Nat \ {0}
             /\ BlockOf(RowsNow[q], p) = kv.blocks[q][PlaceOf(p)]
  <2> DEFINE a == step.out[q].start
             n == step.out[q].n
  <2>1. q \in Reqs /\ req[q].status = "running" /\ n \in Nat \ {0}
    BY OutFacts
  <2>2. a = req[q].computed
    BY DEF ReadInv, Mirror, OutTrue
  <2>3. AdvancedTo(q) = a + n /\ a \in Nat
    BY <2>1, <2>2, StateFacts DEF AdvancedTo
  <2>4. p \in a + 1 .. a + n
    BY DEF Positions
  <2>5. p \in 1 .. AdvancedTo(q) /\ a < p /\ p \in Nat \ {0}
    <3> HIDE DEF a, n
    <3> QED BY <2>1, <2>3, <2>4
  <2> QED BY <2>1, <2>2, <2>5, PlacesHeld
<1>2. ASSUME NEW b, NEW s
      PROVE  Untouched(RowsNow, step.out, b, s) <=> ~ Pending(step.out, kv.blocks, b, s)
  BY <1>1 DEF Untouched, WritesTo, Pending
<1> QED BY <1>1, <1>2

\* The batch meets what the forward pass needs.
LEMMA BatchFacts ==
  ASSUME KVInv, AssertInv, ReadInv,
         NEW t, t = [r \in Reqs |-> req[r].tokens]
  PROVE  /\ RowsTrue(RowsNow, step.out, t)
         /\ OneWriter(RowsNow, step.out)
         /\ PrefixComes(runner.data, RowsNow, step.out, t)
<1> DEFINE out == step.out
<1>1. ASSUME NEW q, NEW p, NEW b, NEW s, WritesTo(RowsNow, out, q, p, b, s)
      PROVE  /\ q \in DOMAIN out /\ p \in Positions(out[q])
             /\ q \in Reqs /\ req[q].status = "running" /\ p \in 1 .. AdvancedTo(q)
             /\ req[q].computed < p /\ p \in Nat \ {0}
             /\ kv.blocks[q][PlaceOf(p)] = b /\ SlotOf(p) = s
  BY <1>1, WritesNow DEF WritesTo
<1>2. \A q \in DOMAIN out :
        /\ q \in Reqs /\ req[q].status = "running" /\ out[q].start = req[q].computed
        /\ out[q].n \in Nat \ {0} /\ t[q] = req[q].tokens
        /\ out[q].start \in Nat /\ out[q].start + out[q].n = AdvancedTo(q)
  BY OutFacts, StateFacts DEF ReadInv, Mirror, OutTrue, AdvancedTo
<1>3. RowsTrue(RowsNow, out, t)
  <2> SUFFICES ASSUME NEW q \in DOMAIN out
               PROVE  /\ out[q].start \in Nat /\ out[q].n \in Nat \ {0}
                      /\ t[q] \in Seq(Nat) /\ out[q].start + out[q].n <= Len(t[q])
                      /\ Len(t[q]) <= MaxModelLen
                      /\ \E S : RowsNow[q].tokens \in [1 .. MaxModelLen -> S]
                      /\ \A p \in Positions(out[q]) : /\ RowsNow[q].tokens[p] = t[q][p]
                                                      /\ BlockOf(RowsNow[q], p) \in Blocks
    BY DEF RowsTrue
  <2>1. /\ t[q] \in Seq(Nat) /\ AdvancedTo(q) <= Len(t[q]) /\ Len(t[q]) <= MaxModelLen
    BY <1>2, StateFacts
  <2>2. /\ \E S : RowsNow[q].tokens \in [1 .. MaxModelLen -> S]
        /\ \A p \in Positions(out[q]) : RowsNow[q].tokens[p] = t[q][p]
    BY <1>2, RowsNowFacts
  <2>3. \A p \in Positions(out[q]) : BlockOf(RowsNow[q], p) \in Blocks
    BY WritesNow, PlacesHeld
  <2> HIDE DEF out
  <2> QED BY <1>2, <2>1, <2>2, <2>3
<1>4. OneWriter(RowsNow, out)
  <2> SUFFICES ASSUME NEW q, NEW w, NEW p, NEW x, NEW b, NEW s,
                      WritesTo(RowsNow, out, q, p, b, s), WritesTo(RowsNow, out, w, x, b, s)
               PROVE  q = w /\ p = x
    BY DEF OneWriter
  <2>1. /\ q \in Reqs /\ req[q].status = "running" /\ p \in 1 .. AdvancedTo(q)
        /\ w \in Reqs /\ req[w].status = "running" /\ x \in 1 .. AdvancedTo(w)
        /\ kv.blocks[q][PlaceOf(p)] = kv.blocks[w][PlaceOf(x)] /\ SlotOf(p) = SlotOf(x)
        /\ req[q].computed < p /\ req[w].computed < x /\ p \in Nat /\ x \in Nat
    BY <1>1
  <2>2. p = x
    BY <2>1, SameSlot
  <2>3. q # w => p <= req[q].computed \/ p <= req[w].computed
    BY <2>1, SameSlot
  <2>4. req[q].computed \in Nat /\ req[w].computed \in Nat
    BY <2>1, StateFacts
  <2> QED BY <2>1, <2>2, <2>3, <2>4
<1>5. PrefixComes(runner.data, RowsNow, out, t)
  <2> SUFFICES ASSUME NEW q \in DOMAIN out, out[q].start > 0, NEW b, NEW s,
                      b = BlockOf(RowsNow[q], out[q].start), s = SlotOf(out[q].start)
               PROVE  /\ Untouched(RowsNow, out, b, s)
                           => runner.data[b][s] = KVEntry(q, t[q], out[q].start)
                      /\ b \in Blocks
                      /\ \A w, x : WritesTo(RowsNow, out, w, x, b, s) =>
                           /\ KVEntry(w, t[w], x) = KVEntry(q, t[q], out[q].start)
                           /\ out[w].start < out[q].start
    BY DEF PrefixComes
  <2> DEFINE a == out[q].start
  <2>1. /\ q \in Reqs /\ req[q].status = "running" /\ a = req[q].computed /\ a \in Nat
        /\ t[q] = req[q].tokens /\ a + out[q].n = AdvancedTo(q) /\ out[q].n \in Nat
        /\ a \in 1 .. AdvancedTo(q) /\ a \in 1 .. req[q].computed
    <3>1. /\ q \in Reqs /\ req[q].status = "running" /\ a = req[q].computed /\ a \in Nat
          /\ t[q] = req[q].tokens /\ a + out[q].n = AdvancedTo(q) /\ out[q].n \in Nat
      BY <1>2
    <3>2. a > 0
      OBVIOUS
    <3> HIDE DEF out, a
    <3> QED BY <3>1, <3>2
  <2>2. b = kv.blocks[q][PlaceOf(a)] /\ b \in Blocks
    <3> HIDE DEF a
    <3>1. b = BlockOf(RowsNow[q], a)
      BY DEF a
    <3> QED BY <2>1, <3>1, PlacesHeld DEF out
  <2>3. ASSUME Untouched(RowsNow, out, b, s)
        PROVE  runner.data[b][s] = KVEntry(q, t[q], a)
    <3>1. ~ Pending(out, kv.blocks, b, s)
      BY <2>3, WritesNow
    <3>2. Right(runner.data, out, kv.blocks, kv.blocks[q][PlaceOf(a)], SlotOf(a),
                KVEntry(q, req[q].tokens, a))
      <4>1. OwnData
        BY DEF ReadInv, DataTrue
      <4> HIDE DEF a
      <4> QED BY <2>1, <4>1 DEF OwnData
    <3> QED BY <2>1, <2>2, <3>1, <3>2 DEF Right
  <2>4. ASSUME NEW w, NEW x, WritesTo(RowsNow, out, w, x, b, s)
        PROVE  KVEntry(w, t[w], x) = KVEntry(q, t[q], a) /\ out[w].start < a
    <3>1. /\ w \in DOMAIN out /\ w \in Reqs /\ req[w].status = "running"
          /\ x \in 1 .. AdvancedTo(w) /\ req[w].computed < x /\ x \in Nat
          /\ kv.blocks[w][PlaceOf(x)] = b /\ SlotOf(x) = s
      BY <2>4, <1>1
    <3>2. kv.blocks[q][PlaceOf(a)] = kv.blocks[w][PlaceOf(x)] /\ SlotOf(a) = SlotOf(x)
      BY <2>2, <3>1
    <3> HIDE DEF a
    <3>3. /\ a = x
          /\ q # w => KVEntry(q, req[q].tokens, a) = KVEntry(w, req[w].tokens, a)
      BY <2>1, <3>1, <3>2, SameSlot
    <3>4. out[w].start = req[w].computed /\ t[w] = req[w].tokens
      BY <3>1, <1>2
    <3>5. q # w
      <4>1. req[w].computed \in Nat
        BY <3>1, StateFacts
      <4>2. req[q].computed = x /\ req[w].computed < x
        BY <2>1, <3>1, <3>3
      <4>3. req[w].computed # x
        BY <4>1, <4>2
      <4> QED BY <4>2, <4>3
    <3>6. KVEntry(w, t[w], x) = KVEntry(q, t[q], a)
      <4>1. KVEntry(w, t[w], x) = KVEntry(w, req[w].tokens, a)
        BY <3>3, <3>4
      <4>2. KVEntry(q, t[q], a) = KVEntry(q, req[q].tokens, a)
        BY <2>1
      <4> QED BY <4>1, <4>2, <3>3, <3>5
    <3>7. out[w].start < a
      BY <3>1, <3>3, <3>4
    <3> QED BY <3>6, <3>7
  <2> QED BY <2>2, <2>3, <2>4
<1> QED BY <1>3, <1>4, <1>5

\* After the batch has run, every computed position and every cached block has its
\* entry: nothing is pending any more.
LEMMA DataNowFacts ==
  ASSUME KVInv, AssertInv, ReadInv
  PROVE  /\ \A r \in Reqs : req[r].status = "running" =>
              \A pos \in 1 .. AdvancedTo(r) :
                DataNow[kv.blocks[r][PlaceOf(pos)]][SlotOf(pos)]
                  = KVEntry(r, req[r].tokens, pos)
         /\ \A b \in Blocks, s \in 1 .. BlockSize :
              kv.pool.hash[b] # NoHash => DataNow[b][s] = HashData(kv.pool.hash[b], s)
<1> DEFINE t == [r \in Reqs |-> req[r].tokens]
           out == step.out
<1>1. \A b \in Blocks : \A s \in 1 .. BlockSize :
        /\ Untouched(RowsNow, out, b, s) => DataNow[b][s] = runner.data[b][s]
        /\ \A q, p : WritesTo(RowsNow, out, q, p, b, s) => DataNow[b][s] = KVEntry(q, t[q], p)
  <2>1. IsFiniteSet(DOMAIN out)
    BY OutFacts
  <2>2. PICK d, o, u, rows : d = runner.data /\ o = out /\ u = t /\ rows = RowsNow
    OBVIOUS
  <2>3. /\ IsFiniteSet(DOMAIN o) /\ RowsTrue(rows, o, u) /\ OneWriter(rows, o)
        /\ PrefixComes(d, rows, o, u)
    BY <2>1, <2>2, BatchFacts
  <2>4. LET after == ForwardPass(d, rows, o)
        IN  \A b \in Blocks : \A s \in 1 .. BlockSize :
              /\ Untouched(rows, o, b, s) => after[b][s] = d[b][s]
              /\ \A q, p : WritesTo(rows, o, q, p, b, s) => after[b][s] = KVEntry(q, u[q], p)
    BY ONLY <2>3, ForwardPassFacts
  <2>5. DataNow = ForwardPass(d, rows, o)
    BY <2>2 DEF DataNow
  <2> HIDE DEF t, out
  <2> QED BY <2>2, <2>4, <2>5
<1>2. \A b, s : Untouched(RowsNow, out, b, s) <=> ~ Pending(out, kv.blocks, b, s)
  BY WritesNow
<1>3. ASSUME NEW q, NEW p, NEW b, NEW s, WritesTo(RowsNow, out, q, p, b, s)
      PROVE  /\ q \in Reqs /\ req[q].status = "running" /\ p \in 1 .. AdvancedTo(q)
             /\ p \in Nat \ {0} /\ t[q] = req[q].tokens
             /\ kv.blocks[q][PlaceOf(p)] = b /\ SlotOf(p) = s
  BY <1>3, WritesNow DEF WritesTo
<1>4. ASSUME NEW r \in Reqs, req[r].status = "running", NEW pos \in 1 .. AdvancedTo(r)
      PROVE  DataNow[kv.blocks[r][PlaceOf(pos)]][SlotOf(pos)] = KVEntry(r, req[r].tokens, pos)
  <2> DEFINE b == kv.blocks[r][PlaceOf(pos)]
             s == SlotOf(pos)
  <2>1. b \in Blocks /\ s \in 1 .. BlockSize /\ pos \in Nat \ {0}
    BY <1>4, PlacesHeld
  <2>2. CASE Untouched(RowsNow, out, b, s)
    <3>1. ~ Pending(out, kv.blocks, b, s) /\ DataNow[b][s] = runner.data[b][s]
      BY <1>1, <1>2, <2>1, <2>2
    <3>2. pos \in 1 .. req[r].computed
      <4>1. SUFFICES ASSUME ~ (pos \in 1 .. req[r].computed) PROVE FALSE
        OBVIOUS
      <4>2. req[r].computed \in Nat /\ AdvancedTo(r) \in Nat
        BY StateFacts
      <4>3. r \in DOMAIN out
        BY <4>1, <4>2, <1>4 DEF AdvancedTo
      <4>4. out[r].start = req[r].computed /\ out[r].n \in Nat
        BY <4>3, OutFacts DEF ReadInv, Mirror, OutTrue
      <4>5. pos \in Positions(out[r])
        <5> DEFINE n == out[r].n
        <5>1. AdvancedTo(r) = req[r].computed + n
          BY <4>3 DEF AdvancedTo
        <5>2. pos \in out[r].start + 1 .. out[r].start + n
          <6> HIDE DEF n
          <6> QED BY <4>1, <4>2, <4>4, <5>1, <1>4
        <5> QED BY <5>2 DEF Positions
      <4> QED BY <3>1, <4>3, <4>5 DEF Pending
    <3>3. OwnData
      BY DEF ReadInv, DataTrue
    <3>4. Right(runner.data, out, kv.blocks, b, s, KVEntry(r, req[r].tokens, pos))
      BY <1>4, <3>2, <3>3 DEF OwnData
    <3> HIDE DEF b, s, out
    <3> QED BY <3>1, <3>4 DEF Right, b, s
  <2>3. CASE ~ Untouched(RowsNow, out, b, s)
    <3> HIDE DEF b, s, t, out
    <3>1. PICK q, p : WritesTo(RowsNow, out, q, p, b, s)
      BY <2>3 DEF Untouched
    <3>2. DataNow[b][s] = KVEntry(q, t[q], p)
      BY <1>1, <2>1, <3>1
    <3>3. /\ q \in Reqs /\ req[q].status = "running" /\ p \in 1 .. AdvancedTo(q)
          /\ p \in Nat \ {0} /\ t[q] = req[q].tokens
          /\ kv.blocks[q][PlaceOf(p)] = b /\ SlotOf(p) = s
      BY <3>1, <1>3
    <3>4. /\ pos = p
          /\ r # q => KVEntry(r, req[r].tokens, pos) = KVEntry(q, req[q].tokens, pos)
      <4>1. kv.blocks[r][PlaceOf(pos)] = kv.blocks[q][PlaceOf(p)] /\ SlotOf(pos) = SlotOf(p)
        BY <3>3 DEF b, s
      <4> QED BY <1>4, <3>3, <4>1, SameSlot
    <3>5. KVEntry(q, t[q], p) = KVEntry(r, req[r].tokens, pos)
      BY <3>3, <3>4
    <3> QED BY <3>2, <3>5 DEF b, s
  <2> QED BY <2>2, <2>3
<1>5. ASSUME NEW b \in Blocks, NEW s \in 1 .. BlockSize, kv.pool.hash[b] # NoHash
      PROVE  DataNow[b][s] = HashData(kv.pool.hash[b], s)
  <2>1. CASE Untouched(RowsNow, out, b, s)
    <3>1. ~ Pending(out, kv.blocks, b, s) /\ DataNow[b][s] = runner.data[b][s]
      BY <1>1, <1>2, <2>1
    <3>2. Right(runner.data, out, kv.blocks, b, s, HashData(kv.pool.hash[b], s))
      BY <1>5 DEF ReadInv, DataTrue, CachedData
    <3> HIDE DEF out
    <3> QED BY <3>1, <3>2 DEF Right
  <2>2. CASE ~ Untouched(RowsNow, out, b, s)
    <3> HIDE DEF t, out
    <3>1. PICK q, p : WritesTo(RowsNow, out, q, p, b, s)
      BY <2>2 DEF Untouched
    <3>2. DataNow[b][s] = KVEntry(q, t[q], p)
      BY <1>1, <3>1
    <3>3. /\ q \in Reqs /\ req[q].status = "running" /\ p \in 1 .. AdvancedTo(q)
          /\ p \in Nat \ {0} /\ t[q] = req[q].tokens
          /\ kv.blocks[q][PlaceOf(p)] = b /\ SlotOf(p) = s
      BY <3>1, <1>3
    <3>4. PlaceOf(p) \in DOMAIN kv.blocks[q]
      BY <3>3, PlacesHeld
    <3>5. /\ kv.pool.hash[b] = BlockHash(q, req[q].tokens, PlaceOf(p))
          /\ PlaceOf(p) * BlockSize <= Len(req[q].tokens)
      <4>1. OwnHashes
        BY DEF ReadInv, KVOwn
      <4> QED BY <1>5, <3>3, <3>4, <4>1 DEF OwnHashes
    <3>6. req[q].tokens \in Seq(Nat)
      BY <3>3, StateFacts
    <3>7. HashData(kv.pool.hash[b], s) = KVEntry(q, req[q].tokens, p)
      BY <3>3, <3>5, <3>6, HashDataFacts
    <3> QED BY <3>2, <3>3, <3>7
  <2> QED BY <2>1, <2>2
<1> QED BY <1>4, <1>5

\* So a scheduled token reads what its own request's tokens are.
LEMMA ReadInvReads ==
  ASSUME Plain, KVInv, AssertInv, ReadInv
  PROVE  ReadsOwnPrefix
<1> DEFINE t == [r \in Reqs |-> req[r].tokens]
           o == SchedulerOutput
<1>1. SUFFICES ASSUME NEW r \in DOMAIN step.out, NEW pos \in ReadPositions(step.out[r])
               PROVE  KVAt(Execute(runner, o).data, Execute(runner, o).rows[r], pos)
                        = <<ExtraKeys[r], SubSeq(t[r], 1, pos)>>
  <2>1. o.out = step.out
    BY DEF SchedulerOutput
  <2> HIDE DEF o, t
  <2>2. ReadsOwn(runner, o, t) => ReadsOwnPrefix
    BY DEF ReadsOwnPrefix, o, t
  <2>3. ReadsOwn(runner, o, t)
    BY <2>1, <1>1 DEF ReadsOwn
  <2> QED BY <2>2, <2>3
<1>2. Execute(runner, o).data = DataNow /\ Execute(runner, o).rows = RowsNow
  <2>1. o.out = step.out
    BY DEF SchedulerOutput
  <2> HIDE DEF o
  <2> QED BY <2>1 DEF Execute, DataNow, RowsNow, KnownNow, o
<1>3. /\ r \in Reqs /\ req[r].status = "running" /\ step.out[r].n \in Nat
      /\ step.out[r].spec = << >> /\ step.out[r].start = req[r].computed
  BY OutFacts DEF ReadInv, Mirror, OutTrue
<1>4. pos \in 1 .. AdvancedTo(r)
  <2> DEFINE a == step.out[r].start
             n == step.out[r].n
  <2>1. a \in Nat /\ n \in Nat /\ AdvancedTo(r) = a + n
    BY <1>3, StateFacts DEF AdvancedTo
  <2>2. ReadPositions(step.out[r]) = Larger(1, 1) .. a + n - 0
    BY <1>3 DEF ReadPositions, Plain
  <2>3. Larger(1, 1) = 1
    BY DEF Larger
  <2> HIDE DEF a, n
  <2> QED BY <2>1, <2>2, <2>3
<1>5. BlockOf(RowsNow[r], pos) = kv.blocks[r][PlaceOf(pos)]
  BY <1>3, <1>4, PlacesHeld
<1>6. KVAt(DataNow, RowsNow[r], pos) = KVEntry(r, req[r].tokens, pos)
  BY <1>3, <1>4, <1>5, DataNowFacts DEF KVAt
<1>7. t[r] = req[r].tokens
  BY <1>3
<1> QED BY <1>2, <1>6, <1>7 DEF KVEntry

\* The batch is run: what was pending is there, and the worker knows the tokens
\* that are computed.
LEMMA SubmitAndWaitReads ==
  ASSUME KVInv, AssertInv, ReadInv, SubmitAndWait
  PROVE  ReadInv'
<1>1. /\ EndSchedule("update") /\ kv' = kv /\ finishedIds' = {}
      /\ runner' = Execute(runner, SchedulerOutput)
      /\ step' = [NoStep EXCEPT !.pc = "update", !.i = 1]
  BY DEF SubmitAndWait, EndSchedule
<1>2. \A r \in Reqs : /\ req'[r].status = req[r].status /\ req'[r].tokens = req[r].tokens
                      /\ req'[r].computed = AdvancedTo(r) /\ AdvancedTo(r)' = AdvancedTo(r)
                      /\ req[r].computed \in Nat /\ AdvancedTo(r) \in Nat
                      /\ req[r].computed <= AdvancedTo(r)
  BY <1>1, EndScheduleRequests, StateFacts
<1>3. DOMAIN step'.out = {} /\ ~ step'.preempted
  BY <1>1 DEF NoStep
<1>4. runner'.known = KnownNow /\ runner'.rows = RowsNow /\ runner'.data = DataNow
  <2>1. SchedulerOutput.out = step.out
    BY DEF SchedulerOutput
  <2> DEFINE o == SchedulerOutput
  <2>2. runner' = Execute(runner, o) /\ o.out = step.out
    BY <1>1, <2>1
  <2> HIDE DEF o
  <2> QED BY <2>2 DEF Execute, DataNow, RowsNow, KnownNow, o
<1>5. KVOwn'
  <2>1. OwnHashes'
    BY <1>1, <1>2 DEF ReadInv, KVOwn, OwnHashes
  <2>2. SharedComputed'
    <3> SUFFICES ASSUME NEW r \in Reqs, NEW s \in Reqs, r # s,
                        NEW i \in DOMAIN kv.blocks[r] \cap DOMAIN kv.blocks[s],
                        kv.blocks[r][i] = kv.blocks[s][i]
                 PROVE  /\ kv.pool.hash[kv.blocks[r][i]] # NoHash
                        /\ i * BlockSize <= req'[r].computed \/ i * BlockSize <= req'[s].computed
      BY <1>1 DEF SharedComputed
    <3> DEFINE e == i * BlockSize
    <3>1. /\ kv.pool.hash[kv.blocks[r][i]] # NoHash
          /\ e <= req[r].computed \/ e <= req[s].computed
      BY DEF ReadInv, KVOwn, SharedComputed
    <3>2. e \in Nat
      <4>1. i \in Nat
        BY StateFacts
      <4> QED BY <4>1, ManagerAssumption
    <3> HIDE DEF e
    <3>3. e <= req'[r].computed \/ e <= req'[s].computed
      BY <3>1, <3>2, <1>2
    <3> QED BY <3>1, <3>3 DEF e
  <2>3. EnoughBlocks'
    BY <1>1, <1>2 DEF ReadInv, KVOwn, EnoughBlocks
  <2>4. HashesKnown'
    BY <1>1, <1>2 DEF ReadInv, KVOwn, HashesKnown
  <2> QED BY <2>1, <2>2, <2>3, <2>4 DEF KVOwn
<1>6. Mirror'
  <2>1. OutTrue'
    BY <1>3 DEF OutTrue
  <2>2. Known'
    <3> SUFFICES ASSUME NEW r \in Reqs, req[r].status \in {"running", "preempted"}
                 PROVE  LET t == KnownNow[r].tokens IN
                        /\ r \in DOMAIN KnownNow
                        /\ Len(t) \in Nat /\ Len(t) <= Len(req[r].tokens)
                        /\ t = SubSeq(req[r].tokens, 1, Len(t))
                        /\ req[r].status = "running" => AdvancedTo(r) <= Len(t)
                        /\ Len(kv.hashes[r]) * BlockSize <= Larger(Len(t), AdvancedTo(r))
      BY <1>1, <1>2, <1>4 DEF Known
    <3> DEFINE t == KnownNow[r].tokens
               h == Len(kv.hashes[r]) * BlockSize
    <3>1. /\ r \in DOMAIN KnownNow
          /\ Len(t) \in Nat /\ Len(t) <= Len(req[r].tokens) /\ t = SubSeq(req[r].tokens, 1, Len(t))
          /\ req[r].status = "running" => AdvancedTo(r) <= Len(t)
          /\ h <= Len(t)
      BY KnownNowFacts
    <3>2. h \in Nat
      BY StateFacts, ManagerAssumption
    <3>3. h <= Larger(Len(t), AdvancedTo(r))
      <4> HIDE DEF t, h
      <4> QED BY <3>1, <3>2, <1>2 DEF Larger
    <3> QED BY <3>1, <3>3
  <2>3. BlocksMirrored'
    <3>1. ASSUME NEW r \in Reqs, req[r].status = "running"
          PROVE  kv.blocks[r] = KnownNow[r].blocks
      BY <3>1, KnownNowFacts
    <3>2. ASSUME NEW r \in DOMAIN RowsNow PROVE RowsNow[r].blocks = kv.blocks[r]
      <4>1. r \in DOMAIN step.out
        BY DEF RowsNow, RowsAfter, SchedulerOutput
      <4> QED BY <4>1, RowsNowFacts
    <3> QED BY <3>1, <3>2, <1>1, <1>2, <1>3, <1>4 DEF BlocksMirrored
  <2>4. RowsOfRunning'
    <3>1. \A r \in DOMAIN RowsNow : req[r].status = "running"
      <4>1. DOMAIN RowsNow = DOMAIN step.out
        BY DEF RowsNow, RowsAfter, SchedulerOutput
      <4> QED BY <4>1, OutFacts
    <3> QED BY <3>1, <1>2, <1>3, <1>4 DEF RowsOfRunning
  <2>5. FinishedOver'
    BY <1>1 DEF FinishedOver
  <2> QED BY <2>1, <2>2, <2>3, <2>4, <2>5 DEF Mirror
<1>7. DataTrue'
  <2>1. CachedData'
    BY <1>1, <1>4, DataNowFacts DEF CachedData, Right
  <2>2. OwnData'
    BY <1>1, <1>2, <1>4, DataNowFacts DEF OwnData, Right
  <2> QED BY <2>1, <2>2 DEF DataTrue
<1> QED BY <1>5, <1>6, <1>7 DEF ReadInv

\* Every step of schedule()
LEMMA ScheduleStepReads ==
  ASSUME Plain, KVInv, AssertInv, ReadInv, ScheduleStep, runner' = runner
  PROVE  ReadInv'
BY ScheduleRunningReads, PreemptReads, SkipWaitingReads, AdmitWaitingReads,
   NotAdmittedReads, ScheduleMovesOnReads DEF ScheduleStep

\* Every step, without a batch queue
LEMMA NextReadInv ==
  ASSUME Plain, MaxBatches = 1, EnableCaching => \A r \in Reqs : Len(Prompt[r]) >= BlockSize,
         KVInv, AssertInv, ReadInv, [Next]_vars
  PROVE  ReadInv'
<1>1. CASE UNCHANGED vars
  <2>1. UNCHANGED <<kv, req, step, runner, finishedIds>>
    BY <1>1 DEF vars
  <2>2. step.pc \in {"idle", "update", "waiting"} => ~ step.preempted
    BY DEF ReadInv, Mirror, RowsOfRunning
  <2> QED BY <2>1, <2>2, MovesOnReads
<1>2. CASE External \/ Reset
  BY <1>2, ExternalReads
<1>3. CASE StartStep \/ UpdateUnscheduled \/ FinishUpdate
  BY <1>3, OtherMovesOnReads
<1>4. CASE Scheduling
  BY <1>4, ScheduleStepReads DEF Scheduling
<1>5. CASE SubmitAndWait
  BY <1>5, SubmitAndWaitReads
<1>6. CASE UpdateScheduled
  BY <1>6, UpdateScheduledReads
<1>7. ~ StartUpdate /\ ~ Submit /\ ~ NothingScheduled
  <2>1. ~ (MaxBatches > 1)
    OBVIOUS
  <2> QED BY <2>1 DEF StartUpdate, Submit, NothingScheduled
<1> QED BY <1>1, <1>2, <1>3, <1>4, <1>5, <1>6, <1>7 DEF Next, EngineStep

\* Whatever is shared, evicted, preempted, resumed or aborted, a scheduled token
\* attends only to entries of its own request's tokens: the worker's block lists,
\* rows and KV cache (_update_states(), the forward pass) are in step with what the
\* scheduler and the KV cache manager decided. For any requests, pool, block size,
\* budgets, encoder cache and vocabulary, with or without prefix caching, chunks,
\* grammars and prompt_logprobs, when every batch is waited for (step()) and there
\* are no drafts, lookahead slots, LoRA limit or sliding window. With prefix caching
\* the prompts fill a block at least: with LongPrefill = 1, BlockSize = 2 and shorter
\* prompts the property fails, because the worker samples a token where the scheduler
\* expects none.
THEOREM ReadsOwnPrefixAlways ==
  ASSUME MaxBatches = 1, SlidingWindow = 0, SpecMethod = "none", NumLookahead = 0,
         MaxLoras = 0, EnableCaching => \A r \in Reqs : Len(Prompt[r]) >= BlockSize
  PROVE  Spec => []ReadsOwnPrefix
<1>1. Init => AssertInv /\ ReadInv
  BY InitAssertInv, InitReadInv
<1>2. KVInv /\ AssertInv /\ ReadInv /\ [Next]_vars => AssertInv' /\ ReadInv'
  BY NextAsserts, NextReadInv DEF Plain
<1>3. KVInv /\ AssertInv /\ ReadInv => ReadsOwnPrefix
  BY ReadInvReads DEF Plain
<1> QED BY <1>1, <1>2, <1>3, KVInvAlways, PTL DEF Spec
=============================================================================
