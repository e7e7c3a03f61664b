---------------------------- MODULE KVCacheManager ----------------------------
(***************************************************************************)
(* vllm/v1/core/kv_cache_manager.py with the two specialized managers.     *)
(* The manager's state is a record                                         *)
(*                                                                         *)
(*   pool     the BlockPool                                                *)
(*   blocks   req_to_blocks (no entry: << >>)                              *)
(*   hashes   req_to_block_hashes (no entry: << >>)                        *)
(*   ncached  num_cached_block (no entry: Absent)                          *)
(*                                                                         *)
(* and its methods are operators on it, applied by the scheduler.  What    *)
(* they read of a Request is passed as q: its all_token_ids (tokens),      *)
(* num_computed_tokens (computed) and spec_token_ids (spec).  Metrics      *)
(* (PrefixCacheStats) are left out.                                        *)
(***************************************************************************)
EXTENDS BlockPool

CONSTANTS Reqs,             \* request ids
          BlockSize,        \* tokens per block
          MaxModelLen,      \* max_model_len
          SlidingWindow,    \* sliding_window of the kv_cache_spec, 0: full attention
          UseEagle,         \* use_eagle
          ExtraKeys,        \* request -> its extra hash keys (LoRA id, mm hashes)
          PromptLogprobs    \* the requests that ask for prompt_logprobs

ASSUME ManagerAssumption ==
  /\ IsFiniteSet(Reqs)
  /\ BlockSize \in Nat \ {0}
  /\ MaxModelLen \in Nat \ {0}
  /\ SlidingWindow \in Nat
  /\ UseEagle \in BOOLEAN
  /\ PromptLogprobs \subseteq Reqs

Absent == -1

CDiv(a, b) == (a + b - 1) \div b
Smaller(a, b) == IF a < b THEN a ELSE b
Larger(a, b) == IF a > b THEN a ELSE b

MaxNumBlocksPerReq == CDiv(MaxModelLen, BlockSize)

InitManager ==
  [pool    |-> InitPool,
   blocks  |-> [r \in Reqs |-> << >>],
   hashes  |-> [r \in Reqs |-> << >>],
   ncached |-> [r \in Reqs |-> Absent]]

\* A chain that leaves the request's extra keys out of the hash.
BlockHashTokensOnly(r, tokens, i) == <<0, SubSeq(tokens, 1, i * BlockSize)>>

-----------------------------------------------------------------------------
\* hash_block_tokens chained over the first i blocks of tokens
BlockHash(r, tokens, i) == <<ExtraKeys[r], SubSeq(tokens, 1, i * BlockSize)>>

HashRequestTokens(r, tokens) ==
  [i \in 1 .. Len(tokens) \div BlockSize |-> BlockHash(r, tokens, i)]

\* The blocks at positions i .. j of a chain of hashes are all cached.
AllCached(p, hs, i, j) == \A k \in i .. j : GetCachedBlock(p, hs[k]) # NullBlock

\* The longest cached prefix of hs
FullAttentionHit(p, hs) ==
  LET n == CHOOSE k \in 0 .. Len(hs) :
             /\ AllCached(p, hs, 1, k)
             /\ k < Len(hs) => ~ AllCached(p, hs, k + 1, k + 1)
  IN  [i \in 1 .. n |-> GetCachedBlock(p, hs[i])]

\* sliding_window_contiguous_blocks; a first hit ends the search even if 0
ContiguousBlocks == Larger(1, CDiv(SlidingWindow - 1, BlockSize))

\* The rightmost run of cached blocks that covers a window, with null blocks
\* before it; without such a run, the longest cached prefix.
SlidingWindowHit(p, hs) ==
  LET ends == {e \in ContiguousBlocks .. Len(hs) :
                 AllCached(p, hs, e + 1 - ContiguousBlocks, e)}
      last == CHOOSE e \in ends : \A f \in ends : f <= e
  IN  IF ends = {} THEN FullAttentionHit(p, hs)
      ELSE [i \in 1 .. last |-> IF i <= last - ContiguousBlocks THEN NullBlock
                                ELSE GetCachedBlock(p, hs[i])]

FindLongestCacheHit(p, hs) ==
  IF SlidingWindow = 0 THEN FullAttentionHit(p, hs) ELSE SlidingWindowHit(p, hs)

ButLast(s) == SubSeq(s, 1, Len(s) - 1)

\* req_to_block_hashes[r] once get_computed_blocks has run
KnownHashes(m, r, q) ==
  IF m.hashes[r] = << >> THEN HashRequestTokens(r, q.tokens) ELSE m.hashes[r]

\* A lookup that keeps the block of the last token.
GetComputedBlocksWhole(m, r, q) ==
  IF ~ EnableCaching \/ r \in PromptLogprobs THEN << >>
  ELSE FindLongestCacheHit(m.pool, KnownHashes(m, r, q))

\* get_computed_blocks: the blocks it returns (num_computed_tokens is their
\* number times BlockSize)
GetComputedBlocks(m, r, q) ==
  LET known == KnownHashes(m, r, q)
      \* the last token must be recomputed, and with it its whole block
      looked == IF Len(known) * BlockSize = Len(q.tokens) THEN ButLast(known)
                ELSE known
      hit == FindLongestCacheHit(m.pool, looked)
  IN  IF ~ EnableCaching \/ r \in PromptLogprobs THEN << >>
      ELSE IF UseEagle /\ hit # << >> THEN ButLast(hit)
      ELSE hit

\* The state get_computed_blocks leaves
AfterLookup(m, r, q) ==
  IF EnableCaching THEN [m EXCEPT !.hashes[r] = KnownHashes(m, r, q)] ELSE m

\* remove_skipped_blocks: the positions it replaces by the null block
SkippedPositions(bs, computed) ==
  LET lastUseful == (computed - SlidingWindow + 1) \div BlockSize
  IN  IF SlidingWindow = 0 THEN {}
      ELSE {i \in 1 .. lastUseful : \A j \in i .. lastUseful : bs[j] # NullBlock}

\* Skipped blocks that are freed but stay in the request's block list.
FreeSkippedKeep(m, r, q) ==
  LET bs == m.blocks[r]
      skip == SkippedPositions(bs, q.computed)
  IN  [m EXCEPT !.pool = FreeBlocks(@, Reversed(Without([i \in DOMAIN bs |->
                                         IF i \in skip THEN bs[i] ELSE NullBlock],
                                       {NullBlock})))]

\* allocate_slots up to its test for space: the skipped blocks are freed,
\* the last one first, even if nothing can be allocated.
FreeSkipped(m, r, q) ==
  LET bs == m.blocks[r]
      skip == SkippedPositions(bs, q.computed)
      freed == Reversed(Without([i \in DOMAIN bs |->
                                   IF i \in skip THEN bs[i] ELSE NullBlock],
                                {NullBlock}))
  IN  [m EXCEPT !.pool = FreeBlocks(@, freed),
                !.blocks[r] = [i \in DOMAIN @ |-> IF i \in skip THEN NullBlock
                                                  ELSE @[i]]]

NumNewBlocks(m, r, q, n, comp, lookahead) ==
  CDiv(q.computed + Len(comp) * BlockSize + n + lookahead, BlockSize)
    - Len(m.blocks[r]) - Len(comp)

\* ref_cnt = 0 among the hits: eviction candidates (or the null block)
NumEvictable(p, comp) == Cardinality({i \in DOMAIN comp : p.ref[comp[i]] = 0})

HasSpace(m, r, q, n, comp, lookahead) ==
  NumNewBlocks(m, r, q, n, comp, lookahead)
    <= NumFreeBlocks(m.pool) - NumEvictable(m.pool, comp)

\* The hits held and appended to the request's blocks
TakeHits(m, r, comp) ==
  [m EXCEPT !.pool = IF EnableCaching THEN Touch(@, comp) ELSE @,
            !.blocks[r] = @ \o comp]

\* The number of blocks asked of the pool, after the hits were taken
NumAllocated(m, r, num) ==
  Smaller(num, Smaller(NumFreeBlocks(m.pool),
                       MaxNumBlocksPerReq - Len(m.blocks[r])))

TakeNew(m, r, num) ==
  IF num <= 0 THEN m
  ELSE [m EXCEPT !.pool = GetNewBlocks(@, num),
                 !.blocks[r] = @ \o NewBlocks(m.pool, num)]

\* num_full_blocks_after_append; computed includes the hits
NumFull(q, computed, n) == (computed + n - Len(q.spec)) \div BlockSize

\* num_cached_blocks
NumCached(m, r, comp) ==
  IF m.ncached[r] = Absent THEN Len(comp) ELSE m.ncached[r]

\* The hashes of the full blocks: those known, and the rest computed from
\* the request's tokens.
HashesUpTo(m, r, q, nf) ==
  m.hashes[r] \o [i \in 1 .. Larger(0, nf - Len(m.hashes[r])) |->
                    BlockHash(r, q.tokens, Len(m.hashes[r]) + i)]

\* The asserts on the way to the cache: enough tokens for every block hashed
\* here, and those of BlockPool.cache_full_blocks
CacheAsserts(m, r, q, nc, nf) ==
  /\ CacheFullBlocksAsserts(m.pool, m.blocks[r], m.hashes[r], nc, nf)
  /\ nf > Larger(nc, Len(m.hashes[r])) => nf * BlockSize <= Len(q.tokens)

CacheFull(m, r, q, nc, nf) ==
  LET hs == IF nf > nc THEN HashesUpTo(m, r, q, nf) ELSE m.hashes[r]
  IN  [m EXCEPT !.pool = CacheFullBlocks(@, m.blocks[r], hs, nc, nf),
                !.hashes[r] = hs,
                !.ncached[r] = nf]

\* allocate_slots for n more tokens of r, its hits comp.  outcome: "full" is
\* the result None, "assert" an assertion of the code that does not hold;
\* blocks is the list returned.
AllocateSlots(m, r, q, n, comp, lookahead) ==
  LET freed == FreeSkipped(m, r, q)
      num == NumNewBlocks(freed, r, q, n, comp, lookahead)
      hits == TakeHits(freed, r, comp)
      got == IF num <= 0 THEN 0 ELSE NumAllocated(hits, r, num)
      taken == TakeNew(hits, r, got)
      new == NewBlocks(hits.pool, got)
      nc == NumCached(m, r, comp)
      nf == NumFull(q, q.computed + Len(comp) * BlockSize, n)
  IN  IF ~ HasSpace(freed, r, q, n, comp, lookahead)
      THEN [outcome |-> "full", m |-> freed, blocks |-> << >>]
      ELSE IF num > 0 /\ got <= 0
      THEN [outcome |-> "assert", m |-> hits, blocks |-> << >>]
      ELSE IF ~ EnableCaching
      THEN [outcome |-> "ok", m |-> taken, blocks |-> new]
      ELSE IF ~ CacheAsserts(taken, r, q, nc, nf)
      THEN [outcome |-> "assert", m |-> taken, blocks |-> new]
      ELSE [outcome |-> "ok", m |-> CacheFull(taken, r, q, nc, nf),
            blocks |-> new]

-----------------------------------------------------------------------------
\* free: the tail blocks are evicted first when caching is enabled.
Free(m, r) ==
  [m EXCEPT
     !.pool = FreeBlocks(@, IF EnableCaching THEN Reversed(m.blocks[r])
                            ELSE m.blocks[r]),
     !.blocks[r] = << >>,
     !.ncached[r] = Absent]

FreeBlockHashes(m, r) == [m EXCEPT !.hashes[r] = << >>]

ResetCache(m) == [m EXCEPT !.pool = ResetPrefixCache(@)]

\* A common prefix of two requests taken for one of all.
NumCommonPrefixBlocksOfTwo(m, r, numRunning) ==
  LET bs == m.blocks[r]
  IN  CHOOSE k \in 0 .. Len(bs) :
        /\ \A i \in 1 .. k : m.pool.ref[bs[i]] >= Smaller(2, numRunning)
        /\ k < Len(bs) => m.pool.ref[bs[k + 1]] < Smaller(2, numRunning)

\* get_num_common_prefix_blocks for a running request r
NumCommonPrefixBlocks(m, r, numRunning) ==
  LET bs == m.blocks[r]
  IN  CHOOSE k \in 0 .. Len(bs) :
        /\ \A i \in 1 .. k : m.pool.ref[bs[i]] = numRunning
        /\ k < Len(bs) => m.pool.ref[bs[k + 1]] # numRunning

-----------------------------------------------------------------------------
Holders(m, b) == {r \in Reqs : b \in Range(m.blocks[r])}

\* ref_cnt counts the requests that hold the block, each once (the null
\* block's count is not maintained).
RefCountsExact(m) ==
  /\ \A r \in Reqs : DistinctOutside(m.blocks[r], {NullBlock})
  /\ \A b \in Blocks \ {NullBlock} :
        m.pool.ref[b] = Cardinality(Holders(m, b))
=============================================================================
