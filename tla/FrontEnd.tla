------------------------------ MODULE FrontEnd ------------------------------
(***************************************************************************)
(* The asynchronous front end of the engine core: the generate() tasks and *)
(* the output handler of AsyncLLM (vllm/v1/engine/async_llm.py), the       *)
(* OutputProcessor and the RequestOutputCollector between them             *)
(* (output_processor.py), and the parents of requests with n > 1           *)
(* (parallel_sampling.py).                                                 *)
(*                                                                         *)
(* All tasks share one event loop and are interrupted only where they      *)
(* await; the engine core is another process, reached over FIFO queues.    *)
(* A completion is the sequence of its tokens, the token numbers 1, 2, ... *)
(* of its child request, and whether it is finished.                       *)
(***************************************************************************)
EXTENDS Integers, Sequences, FiniteSets, Functions, SequencesExt

CONSTANTS Reqs,
          Params,       \* sampling parameters the requests may have together:
                        \* n and output_kind of each
          MaxTokens,    \* max_tokens of each completion
          MaxPending,   \* bound: batches of outputs on the way
          None,         \* an empty slot
          Dead,         \* EngineDeadError, or the message ENGINE_CORE_DEAD
          Suspends      \* sending to the engine may suspend the task, as it
                        \* does when it starts a wave of data-parallel engines

Kinds == {"DELTA", "CUMULATIVE", "FINAL_ONLY"}

AllIndices == UNION {0 .. f[p].n - 1 : f \in Params, p \in Reqs}
Children == Reqs \X AllIndices

\* CompletionOutput; the completions of a RequestOutput by index, and the
\* RequestOutput; the EngineCoreOutputs of a step
Completions == [toks : Seq(Nat), finished : BOOLEAN]
ByIndex == UNION {[I -> Completions] : I \in SUBSET AllIndices}
RequestOutputs == [finished : BOOLEAN, comps : ByIndex]
EngineCoreOutputs == Seq([req : Children, finished : BOOLEAN])

ASSUME FrontEndAssumption ==
  /\ Params \subseteq [Reqs -> [n : Nat \ {0}, kind : Kinds]]
  /\ MaxTokens \in Nat \ {0} /\ MaxPending \in Nat \ {0} /\ Suspends \in BOOLEAN
  /\ None \notin RequestOutputs /\ None # Dead
  /\ Dead \notin RequestOutputs /\ Dead \notin EngineCoreOutputs

VARIABLES param,        \* the sampling parameters, which never change
          gen,          \* each generate(): where it is, and the child it adds next
          output, ready,    \* each RequestOutputCollector: its slot and its event
          seen,         \* what the caller of generate() has got, per index
          states,       \* request_states, as a set of children
          parents,      \* parent_requests
          childRequests,    \* child_requests of each parent
          aggregator,   \* output_aggregator of each parent
          tokens,       \* tokens of each child that were processed
          handler,      \* output_handler: step, outputs left, requests to abort
          engineDead,   \* resources.engine_dead
          toEngine,     \* messages to the engine core
          outputs,      \* its messages to the output handler
          live, made    \* the engine core: unfinished requests, tokens made

tasks == <<param, gen, seen>>
processor == <<states, parents, childRequests, aggregator, tokens>>
engine == <<live, made>>
vars == <<tasks, output, ready, processor, handler, engineDead, toEngine, outputs, engine>>

N(p) == param[p].n
Kind(p) == param[p].kind
Indices(p) == 0 .. N(p) - 1

NoCompletions == [i \in {} |-> << >>]

Init ==
  /\ param \in Params
  /\ gen = [p \in Reqs |-> [pc |-> "new", next |-> 0]]
  /\ output = [p \in Reqs |-> None] /\ ready = [p \in Reqs |-> FALSE]
  /\ seen = [p \in Reqs |-> NoCompletions]
  /\ states = {} /\ parents = {}
  /\ childRequests = [p \in Reqs |-> {}]
  /\ aggregator = [p \in Reqs |-> NoCompletions]
  /\ tokens = [c \in Children |-> 0]
  /\ handler = [pc |-> "get", todo |-> << >>, abort |-> {}]
  /\ engineDead = FALSE
  /\ toEngine = << >> /\ outputs = << >>
  /\ live = {} /\ made = [c \in Children |-> 0]

Over(p) == gen[p].pc \in {"ended", "cancelled", "failed", "closed"}

\* No task is in the middle of something: none is, unless sending suspends.
Yielded == Suspends \/ \A p \in Reqs : gen[p].pc # "adding"

-----------------------------------------------------------------------------
(* The engine core *)

EngineReceive ==
  /\ toEngine # << >>
  /\ LET msg == Head(toEngine)
     IN  live' = IF msg.kind = "add" THEN live \cup msg.reqs ELSE live \ msg.reqs
  /\ toEngine' = Tail(toEngine)
  /\ UNCHANGED <<tasks, output, ready, processor, handler, engineDead, outputs, made>>

\* A step gives some of the requests a token; the last of max_tokens, or any,
\* finishes the request.
EngineStep ==
  /\ Len(outputs) < MaxPending
  /\ \E batch \in (SUBSET live) \ {{}} : \E fin \in SUBSET batch :
       /\ {c \in batch : made[c] + 1 = MaxTokens} \subseteq fin
       /\ made' = [c \in Children |-> IF c \in batch THEN made[c] + 1 ELSE made[c]]
       /\ live' = live \ fin
       /\ outputs' = Append(outputs, SetToSeq({[req |-> c, finished |-> c \in fin] : c \in batch}))
  /\ UNCHANGED <<tasks, output, ready, processor, handler, engineDead, toEngine>>

EngineDies ==
  /\ Dead \notin Range(outputs) /\ ~engineDead
  /\ outputs' = Append(outputs, Dead)
  /\ live' = {}
  /\ UNCHANGED <<tasks, output, ready, processor, handler, engineDead, toEngine, made>>

\* process_outputs_socket runs ahead of the output handler.
SocketSeesDead ==
  /\ Yielded /\ Dead \in Range(outputs) /\ ~engineDead
  /\ engineDead' = TRUE
  /\ UNCHANGED <<tasks, output, ready, processor, handler, toEngine, outputs, engine>>

-----------------------------------------------------------------------------
(* RequestOutputCollector *)

\* A merge that keeps the newer completion only.
MergedNewest(p, old, new) == new

\* CompletionOutput of the same index: deltas are joined, otherwise the new
\* one replaces the old one.
Merged(p, old, new) ==
  IF Kind(p) = "DELTA" THEN [toks |-> old.toks \o new.toks, finished |-> new.finished]
  ELSE new

\* RequestOutput.add
Added(p, old, new) ==
  [finished |-> old.finished \/ new.finished,
   comps |-> [i \in DOMAIN old.comps \cup DOMAIN new.comps |->
                IF i \notin DOMAIN new.comps THEN old.comps[i]
                ELSE IF i \notin DOMAIN old.comps THEN new.comps[i]
                ELSE Merged(p, old.comps[i], new.comps[i])]]

\* put
Put(p, out) ==
  IF output[p] = None \/ out = Dead
  THEN output' = [output EXCEPT ![p] = out] /\ ready' = [ready EXCEPT ![p] = TRUE]
  ELSE /\ output' = IF output[p] = Dead THEN output
                    ELSE [output EXCEPT ![p] = Added(p, @, out)]
       /\ UNCHANGED ready

-----------------------------------------------------------------------------
(* OutputProcessor *)

\* An abort that forgets the children of a parent.
AbortedSelf(p) == IF N(p) = 1 THEN states \cap {<<p, 0>>} ELSE {}

\* abort_requests of the request the caller knows: itself, or its children
Aborted(p) == IF N(p) = 1 THEN states \cap {<<p, 0>>}
              ELSE IF p \in parents THEN childRequests[p] ELSE {}

\* abort_requests_async
SendAbort(reqs) ==
  toEngine' = IF reqs = {} \/ engineDead THEN toEngine
              ELSE Append(toEngine, [kind |-> "abort", reqs |-> reqs])

Abort(p) ==
  /\ states' = states \ Aborted(p)
  /\ parents' = parents \ {p}
  /\ SendAbort(Aborted(p))
  /\ UNCHANGED <<childRequests, aggregator, tokens>>

Numbers(a, b) == [k \in 1 .. b - a + 1 |-> a + k - 1]

\* _new_completion_output
Completion(p, k, fin) ==
  [toks |-> IF Kind(p) = "DELTA" THEN <<k>> ELSE Numbers(1, k), finished |-> fin]

\* The stream of a parent is finished when the child at hand is.
ParentFinishedByOne(p, left, fin) == fin

\* get_outputs: finished = not self.child_requests
ParentFinished(p, left, fin) == left = {}

\* process_outputs for one output: the request's state, the child's place in
\* its parent, and what is put into the collector.  stop: the detokenizer
\* met a stop string.
ProcessOne(o, stop) ==
  LET c == o.req
      p == c[1]
      i == c[2]
      k == tokens[c] + 1
      fin == o.finished \/ stop
      comp == Completion(p, k, fin)
      left == IF fin THEN childRequests[p] \ {c} ELSE childRequests[p]
      single == [j \in {i} |-> comp]
      all == [j \in DOMAIN aggregator[p] \cup {i} |->
                IF j = i THEN comp ELSE aggregator[p][j]]
      finished == IF N(p) = 1 THEN fin ELSE ParentFinished(p, left, fin)
  IN  /\ tokens' = [tokens EXCEPT ![c] = k]
      /\ states' = IF fin THEN states \ {c} ELSE states
      /\ childRequests' = [childRequests EXCEPT ![p] = left]
      /\ parents' = IF fin /\ left = {} THEN parents \ {p} ELSE parents
      /\ IF Kind(p) # "FINAL_ONLY"
         THEN Put(p, [finished |-> finished, comps |-> single]) /\ UNCHANGED aggregator
         ELSE IF ~fin THEN UNCHANGED <<output, ready, aggregator>>
         ELSE IF N(p) = 1
         THEN Put(p, [finished |-> TRUE, comps |-> single]) /\ UNCHANGED aggregator
         ELSE /\ aggregator' = [aggregator EXCEPT ![p] = all]
              /\ IF left = {} THEN Put(p, [finished |-> finished, comps |-> all])
                 ELSE UNCHANGED <<output, ready>>

-----------------------------------------------------------------------------
(* output_handler *)

HandlerGets ==
  /\ Yielded /\ handler.pc = "get" /\ outputs # << >> /\ Head(outputs) # Dead
  /\ handler' = [handler EXCEPT !.pc = "slice", !.todo = Head(outputs)]
  /\ outputs' = Tail(outputs)
  /\ UNCHANGED <<tasks, output, ready, processor, engineDead, toEngine, engine>>

\* The parents are not told, as no child of theirs has their id.
ToldSingles == {c[1] : c \in {d \in states : N(d[1]) = 1}}

Told == {c[1] : c \in states}

\* propagate_error, to the requests that are known now
HandlerFails ==
  /\ Yielded /\ handler.pc = "get" /\ outputs # << >> /\ Head(outputs) = Dead /\ engineDead
  /\ output' = [p \in Reqs |-> IF p \in Told THEN Dead ELSE output[p]]
  /\ ready' = [p \in Reqs |-> p \in Told \/ ready[p]]
  /\ handler' = [handler EXCEPT !.pc = "dead"]
  /\ outputs' = Tail(outputs)
  /\ UNCHANGED <<tasks, processor, engineDead, toEngine, engine>>

\* A slice of one output; outputs of requests that are gone are ignored.  The
\* other tasks have a turn before its request is aborted, except after the
\* last slice.
HandlerProcesses ==
  /\ Yielded /\ handler.pc = "slice"
  /\ \E stop \in BOOLEAN :
       LET o == Head(handler.todo)
           known == o.req \in states
           abort == IF known /\ stop /\ ~o.finished THEN {o.req} ELSE {}
           last == Len(handler.todo) = 1
       IN  /\ IF known THEN ProcessOne(o, stop)
              ELSE UNCHANGED <<output, ready, processor>>
           /\ handler' = [pc |-> IF last THEN "get" ELSE "abort",
                          todo |-> Tail(handler.todo),
                          abort |-> IF last THEN {} ELSE abort]
           /\ IF last THEN SendAbort(abort) ELSE UNCHANGED toEngine
  /\ UNCHANGED <<tasks, engineDead, outputs, engine>>

HandlerAborts ==
  /\ Yielded /\ handler.pc = "abort"
  /\ SendAbort(handler.abort)
  /\ handler' = [handler EXCEPT !.pc = "slice", !.abort = {}]
  /\ UNCHANGED <<tasks, output, ready, processor, engineDead, outputs, engine>>

-----------------------------------------------------------------------------
(* generate *)

Errored == engineDead \/ handler.pc = "dead"

Turns(p, pc) == gen' = [gen EXCEPT ![p].pc = pc]

\* add_request, up to the first child
Generate(p) ==
  /\ Yielded /\ gen[p].pc = "new"
  /\ Turns(p, IF Errored THEN "failed" ELSE "adding")
  /\ UNCHANGED <<param, seen, output, ready, processor, handler, engineDead, toEngine, outputs, engine>>

\* get_child_info and _add_request, for one child
AddChild(p) ==
  LET c == <<p, gen[p].next>>
      last == gen[p].next = N(p) - 1
  IN  /\ gen[p].pc = "adding"
      /\ states' = states \cup {c}
      /\ IF N(p) = 1 THEN UNCHANGED <<parents, childRequests>>
         ELSE /\ parents' = parents \cup {p}
              /\ childRequests' = [childRequests EXCEPT ![p] = @ \cup {c}]
      /\ IF engineDead
         THEN toEngine' = toEngine /\ Turns(p, "failed")
         ELSE /\ toEngine' = Append(toEngine, [kind |-> "add", reqs |-> {c}])
              /\ gen' = [gen EXCEPT ![p] = [pc |-> IF last THEN "loop" ELSE "adding",
                                            next |-> @.next + 1]]
      /\ UNCHANGED <<param, seen, output, ready, aggregator, tokens, handler, engineDead,
                     outputs, engine>>

\* What the caller has after out, on top of what it had
SeenAfter(p, out) ==
  [i \in DOMAIN seen[p] \cup DOMAIN out.comps |->
     IF i \notin DOMAIN out.comps THEN seen[p][i]
     ELSE IF i \notin DOMAIN seen[p] THEN out.comps[i]
     ELSE IF Kind(p) = "DELTA"
          THEN [toks |-> seen[p][i].toks \o out.comps[i].toks,
                finished |-> out.comps[i].finished]
          ELSE out.comps[i]]

\* An output, or the exception, is taken out of the slot.
Take(p) ==
  /\ output' = [output EXCEPT ![p] = None]
  /\ ready' = [ready EXCEPT ![p] = FALSE]
  /\ IF output[p] = Dead THEN Turns(p, "failed") /\ UNCHANGED seen
     ELSE /\ seen' = [seen EXCEPT ![p] = SeenAfter(p, output[p])]
          /\ Turns(p, IF output[p].finished THEN "ended" ELSE "yield")

\* get_nowait, or get from its start
GenerateGets(p) ==
  /\ Yielded /\ gen[p].pc = "loop"
  /\ IF output[p] # None THEN Take(p)
     ELSE Turns(p, "wait") /\ UNCHANGED <<seen, output, ready>>
  /\ UNCHANGED <<param, processor, handler, engineDead, toEngine, outputs, engine>>

\* ready.wait() returns
GenerateWakes(p) ==
  /\ Yielded /\ gen[p].pc = "wait" /\ ready[p]
  /\ IF output[p] # None THEN Take(p)
     ELSE Turns(p, "wait") /\ UNCHANGED <<seen, output, ready>>
  /\ UNCHANGED <<param, processor, handler, engineDead, toEngine, outputs, engine>>

\* The caller asks for the next output.
CallerResumes(p) ==
  /\ Yielded /\ gen[p].pc = "yield"
  /\ Turns(p, "loop")
  /\ UNCHANGED <<param, seen, output, ready, processor, handler, engineDead, toEngine, outputs, engine>>

\* CancelledError where generate() awaits
Cancel(p) ==
  /\ Yielded /\ gen[p].pc \in {"adding", "wait"}
  /\ Turns(p, "cancelled")
  /\ Abort(p)
  /\ UNCHANGED <<param, seen, output, ready, handler, engineDead, outputs, engine>>

\* The caller gives up between two outputs: GeneratorExit, which no clause
\* of generate() catches.
Close(p) ==
  /\ Yielded /\ gen[p].pc = "yield"
  /\ Turns(p, "closed")
  /\ UNCHANGED <<param, seen, output, ready, processor, handler, engineDead, toEngine, outputs, engine>>

-----------------------------------------------------------------------------
Task(p) == AddChild(p) \/ GenerateGets(p) \/ GenerateWakes(p) \/ CallerResumes(p)

Handler == HandlerGets \/ HandlerFails \/ HandlerProcesses \/ HandlerAborts

Next ==
  \/ EngineReceive \/ EngineStep \/ EngineDies \/ SocketSeesDead \/ Handler
  \/ \E p \in Reqs : Generate(p) \/ Task(p) \/ Cancel(p) \/ Close(p)

Spec == Init /\ [][Next]_vars

\* The event loop runs every task that can run; the engine takes its
\* messages and makes tokens until it dies.
FairSpec ==
  /\ Spec /\ WF_vars(EngineReceive) /\ WF_vars(EngineStep) /\ WF_vars(SocketSeesDead)
  /\ WF_vars(Handler) /\ \A p \in Reqs : WF_vars(Task(p))

-----------------------------------------------------------------------------
(* Properties *)

\* What the caller of generate() has and what lies in the slot for it make up
\* exactly the tokens that were processed: a collector whose reader is slow
\* loses, repeats and mixes up nothing.  Only an error overwrites an output.
StreamFaithful ==
  \A p \in Reqs : output[p] # Dead /\ gen[p].pc # "failed" =>
    LET all == IF output[p] = None THEN seen[p] ELSE SeenAfter(p, output[p])
    IN  \A i \in Indices(p) :
          IF i \in DOMAIN all
          THEN all[i].toks = Numbers(1, tokens[<<p, i>>])
          ELSE Kind(p) = "FINAL_ONLY" \/ tokens[<<p, i>>] = 0

\* A generate() that ends by itself has yielded each of the n completions to
\* its end, and the request has left the output processor.
EndsComplete ==
  \A p \in Reqs : gen[p].pc = "ended" =>
    /\ DOMAIN seen[p] = Indices(p)
    /\ \A i \in Indices(p) :
         /\ seen[p][i].finished /\ seen[p][i].toks = Numbers(1, tokens[<<p, i>>])
         /\ <<p, i>> \notin states
    /\ p \notin parents

\* Nothing is computed for nobody: a request the engine works on, or is about
\* to be given, is one the output processor knows, or its abort is on the way
\* (by cancellation, by a stop string, for each child of a parent); and a
\* request the output processor knows has not ended and was not cancelled.
NoOrphans ==
  /\ \A c \in states : gen[c[1]].pc \notin {"ended", "cancelled"}
  /\ \/ engineDead \/ Dead \in Range(outputs)
     \/ LET Sent(kind) == UNION {m.reqs : m \in {n \in Range(toEngine) : n.kind = kind}}
        IN  live \cup Sent("add") \subseteq states \cup handler.abort \cup Sent("abort")

\* A generate() that was started ends: with the last output, or an error when
\* the engine dies, however its output and the failure cross.
GenerateEnds == \A p \in Reqs : gen[p].pc = "adding" ~> Over(p)
=============================================================================
