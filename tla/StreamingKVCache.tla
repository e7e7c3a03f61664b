-------------------------- MODULE StreamingKVCache --------------------------
(***************************************************************************)
(* StreamingKVCacheManager (vllm/attention/backends/streaming_kv_cache.py) *)
(* and the two loops that StartRecentKVCache, the class it was ported      *)
(* from, is driven by: the chat of run_streaming_llama.py, which makes     *)
(* room for a whole turn beforehand, and the token-wise reading of         *)
(* eval_long_ppl.py, which trims the cache after each token.               *)
(*                                                                         *)
(* A token is its position in the text, 1, 2, 3, ...; the cache is the     *)
(* sequence of the tokens whose keys and values it holds (the same in      *)
(* every layer).  No cache yet (None) is the empty one.                    *)
(***************************************************************************)
EXTENDS Integers, Sequences

CONSTANTS StartSize,    \* start_size: the attention sinks
          RecentSize,   \* recent_size
          MaxPrompt,    \* the longest prompt of a turn
          MaxGenLen,    \* max_gen_len
          MaxSeen       \* bound: the length of the text

ASSUME StreamingAssumption ==
  /\ StartSize \in Nat \ {0} /\ RecentSize \in Nat \ {0}
  /\ MaxPrompt \in Nat \ {0} /\ MaxGenLen \in Nat \ {0}
  /\ MaxSeen \in Nat

VARIABLES cache,        \* past_key_values
          seen,         \* how many tokens of the text went through the model
          coming,       \* tokens the turn may still add to the cache
          pc            \* "idle" between turns, "prompt", "generate"; "eval"

vars == <<cache, seen, coming, pc>>

CacheSize == StartSize + RecentSize

\* k[:, a:b], which cuts b down to the length
Slice(c, a, b) == SubSeq(c, a + 1, IF b < Len(c) THEN b ELSE Len(c))

\* An _apply_start_recent_policy that is off by one.
StartRecentTooLate(c) ==
  Slice(c, 0, StartSize) \o Slice(c, Len(c) - RecentSize + 1, Len(c))

\* _apply_start_recent_policy
StartRecent(c) == Slice(c, 0, StartSize) \o Slice(c, Len(c) - RecentSize, Len(c))

\* __call__
Call(c) == IF Len(c) <= CacheSize THEN c ELSE StartRecent(c)

\* An eviction that takes the sinks with it.
EvictForSpaceOldest(c, n) ==
  IF Len(c) + n <= CacheSize THEN c ELSE Slice(c, Len(c) + n - CacheSize, Len(c))

\* An eviction of one token too few.
EvictForSpaceOne(c, n) ==
  IF Len(c) + n <= CacheSize THEN c
  ELSE Slice(c, 0, StartSize)
         \o Slice(c, StartSize + Len(c) + n - 1 - CacheSize, Len(c))

\* An eviction that starts from an empty window every time.
EvictForSpaceAll(c, n) ==
  IF Len(c) + n <= CacheSize THEN c ELSE Slice(c, 0, StartSize)

\* evict_for_space(c, n)
EvictForSpace(c, n) ==
  LET evictCount == Len(c) + n - CacheSize
  IN  IF Len(c) + n <= CacheSize THEN c
      ELSE Slice(c, 0, StartSize) \o Slice(c, StartSize + evictCount, Len(c))

\* StartRecentKVCache.evict_for_space, of the original package
OriginalEvictForSpace(c, n) ==
  IF Len(c) + n <= CacheSize THEN c
  ELSE Slice(c, 0, StartSize) \o Slice(c, Len(c) - RecentSize + n, Len(c))

\* Rotary positions of the queries in a pass over the next n tokens, of which
\* the model counts the cached ones: clamped to the cache, or one too low.
QueryPositionsLow(n) ==
  LET last == IF CacheSize < Len(cache) + n THEN CacheSize ELSE Len(cache) + n - 1
  IN  [i \in 1 .. n |-> IF Len(cache) + i <= last THEN Len(cache) + i - 1 ELSE last - 1]

QueryPositions(n) ==
  LET last == IF CacheSize < Len(cache) + n THEN CacheSize ELSE Len(cache) + n
  IN  [i \in 1 .. n |-> IF Len(cache) + i <= last THEN Len(cache) + i - 1 ELSE last - 1]

\* The keys are cached unrotated and rotated by their places in the cache.
KeyPositions(n) == [i \in 1 .. Len(cache) + n |-> i - 1]

\* The cache after a forward pass over the next n tokens
Forward(c, n) == c \o [i \in 1 .. n |-> seen + i]

-----------------------------------------------------------------------------
Init == /\ cache = << >>
        /\ seen = 0
        /\ coming = 0
        /\ pc \in {"idle", "eval"}

\* streaming_inference: room is made for a prompt of n tokens and an answer
\* of MaxGenLen.
StartTurn(n) ==
  /\ pc = "idle"
  /\ seen + n + MaxGenLen <= MaxSeen
  /\ cache' = EvictForSpace(cache, n + MaxGenLen)
  /\ coming' = n + MaxGenLen
  /\ pc' = "prompt"
  /\ UNCHANGED seen

\* greedy_generate: the prompt; what it predicts is fed in the loop after it.
ReadPrompt ==
  LET n == coming - MaxGenLen
  IN  /\ pc = "prompt"
      /\ cache' = Forward(cache, n)
      /\ seen' = seen + n
      /\ coming' = MaxGenLen - 1
      /\ pc' = "generate"

Generate ==
  /\ pc = "generate"
  /\ coming > 0
  /\ cache' = Forward(cache, 1)
  /\ seen' = seen + 1
  /\ coming' = coming - 1
  /\ UNCHANGED pc

\* The loop ends after max_gen_len - 1 rounds, or after one that predicted
\* the end of the text; the last predicted token is never fed.
EndTurn ==
  /\ pc = "generate"
  /\ coming = 0 \/ coming < MaxGenLen - 1
  /\ coming' = 0
  /\ pc' = "idle"
  /\ UNCHANGED <<cache, seen>>

\* eval_long_ppl.py
EvalToken ==
  /\ pc = "eval"
  /\ seen < MaxSeen
  /\ cache' = Call(Forward(cache, 1))
  /\ seen' = seen + 1
  /\ UNCHANGED <<coming, pc>>

Next == \/ \E n \in 1 .. MaxPrompt : StartTurn(n)
        \/ ReadPrompt \/ Generate \/ EndTurn
        \/ EvalToken

Spec == Init /\ [][Next]_vars

-----------------------------------------------------------------------------
\* The cached tokens when the first StartSize and the last ones are kept
Window(len) == [i \in 1 .. len |-> IF i <= StartSize THEN i ELSE seen - len + i]

\* The types of the cache and the counts of the loops.
TypeOK ==
  /\ cache \in Seq(1 .. seen)
  /\ seen \in 0 .. MaxSeen
  /\ coming \in 0 .. MaxPrompt + MaxGenLen
  /\ pc \in {"idle", "prompt", "generate", "eval"}

\* However the turns fall, the cache is the attention sinks followed by the
\* most recent tokens without a gap (StreamingKVCacheManager's docstring:
\* "maintains only attention sinks (initial tokens) and recent tokens").
SinksAndRecent == /\ Len(cache) <= seen
                  /\ cache = Window(Len(cache))
                  /\ Len(cache) < StartSize => Len(cache) = seen

\* evict_for_space returns a "KV cache with space reserved for incoming
\* tokens": whatever the turn still adds, the cache stays within its size.
SpaceReserved == Len(cache) + coming <= CacheSize

\* Reading token by token the cache forgets nothing that still fits.
EvalKeepsAll ==
  pc = "eval" => Len(cache) = IF seen < CacheSize THEN seen ELSE CacheSize

\* The ported evict_for_space cuts where the original one does.
PortAgrees ==
  \A n \in 1 .. MaxPrompt + MaxGenLen :
    EvictForSpace(cache, n) = OriginalEvictForSpace(cache, n)

\* In each forward pass of a chat a token's query is rotated to the place of
\* its own key, which lies within the cache size the model was trained for:
\* the clamp of llama_streaming_attention_forward never bites, and it computes
\* what the original llama_pos_shift_attention_forward does.
QueriesAtTheirKeys ==
  pc \in {"prompt", "generate"} =>
    LET n == IF pc = "prompt" THEN coming - MaxGenLen ELSE IF coming > 0 THEN 1 ELSE 0
    IN  \A i \in 1 .. n : /\ QueryPositions(n)[i] = KeyPositions(n)[Len(cache) + i]
                          /\ QueryPositions(n)[i] < CacheSize

\* A turn evicts no more than it needs room for.
EvictsOnlyForSpace ==
  [][Len(cache') < Len(cache) => Len(cache') + coming' = CacheSize]_vars
=============================================================================
