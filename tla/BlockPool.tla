------------------------------ MODULE BlockPool ------------------------------
(***************************************************************************)
(* vllm/v1/core/block_pool.py.  A pool is a record                         *)
(*                                                                         *)
(*   ref     block -> ref_cnt                                              *)
(*   hash    block -> block_hash (NoHash for None)                         *)
(*   free    free_block_queue, the next block to be evicted first          *)
(*   cached  cached_block_hash_to_block: a dict of dicts, so a function    *)
(*           from the hashes present to the block ids in insertion order   *)
(*                                                                         *)
(* and a method is an operator from pool to pool; the KV cache manager     *)
(* owns the only pool and calls the methods under the engine's one thread. *)
(* The loops over block lists are written in closed form, exact for lists  *)
(* in which no block but the null block occurs twice, the only lists the   *)
(* manager builds (an invariant there).                                    *)
(*                                                                         *)
(* A block hash stands for what it is computed from: the extra keys and    *)
(* all tokens up to the end of the block (hash_block_tokens chains the     *)
(* parent's hash).  Collisions of Python's hash are outside the model.     *)
(***************************************************************************)
EXTENDS BlockSeqs

CONSTANTS NumGpuBlocks, \* kv_cache_config.num_blocks
          EnableCaching \* enable_prefix_caching

ASSUME PoolAssumption == /\ NumGpuBlocks \in Nat \ {0}
                         /\ EnableCaching \in BOOLEAN

Blocks == 0 .. NumGpuBlocks - 1
NullBlock == 0          \* popped first from a queue ordered by block id
NoHash == << >>

InitPool ==
  [ref    |-> [b \in Blocks |-> 0],
   hash   |-> [b \in Blocks |-> NoHash],
   free   |-> [i \in 1 .. NumGpuBlocks - 1 |-> i],
   cached |-> [h \in {} |-> << >>]]

NumFreeBlocks(p) == Len(p.free)

\* The first block that was cached under h, NullBlock on a miss.  (The null
\* block never has a hash, so it cannot be a hit.)
GetCachedBlock(p, h) ==
  IF h \in DOMAIN p.cached THEN p.cached[h][1] ELSE NullBlock

\* The dict with each block of E deleted under its own hash, and the keys that
\* this leaves empty deleted too.
Uncached(p, E) ==
  LET gone(h) == {b \in E : p.hash[b] = h}
  IN  [h \in {g \in DOMAIN p.cached : ~ (Range(p.cached[g]) \subseteq gone(g))}
         |-> Without(p.cached[h], gone(h))]

\* An eviction that resets the block but leaves it in the dict.
EvictCachedStale(p, E) ==
  [p EXCEPT !.hash = [b \in Blocks |-> IF b \in E THEN NoHash ELSE @[b]]]

\* _maybe_evict_cached_block, for each block of E
EvictCached(p, E) ==
  [p EXCEPT !.hash = [b \in Blocks |-> IF b \in E THEN NoHash ELSE @[b]],
            !.cached = Uncached(p, E)]

Evicted(p, E) == IF EnableCaching THEN EvictCached(p, E) ELSE p

\* get_new_blocks returns these blocks ...
NewBlocks(p, n) == SubSeq(p.free, 1, n)

\* ... and leaves this pool, n being at most NumFreeBlocks(p).
GetNewBlocks(p, n) ==
  LET new == Range(NewBlocks(p, n))
  IN  [Evicted(p, new) EXCEPT
         !.free = SubSeq(@, n + 1, Len(@)),
         !.ref  = [b \in Blocks |-> IF b \in new THEN @[b] + 1 ELSE @[b]]]

\* A touch that leaves the hit blocks among the eviction candidates.
TouchInPlace(p, bs) ==
  [p EXCEPT !.ref = [b \in Blocks |-> @[b] + Occurrences(bs, b)]]

Touch(p, bs) ==
  [p EXCEPT
     !.free = Without(@, {b \in Range(bs) : p.ref[b] = 0 /\ b # NullBlock}),
     !.ref  = [b \in Blocks |-> @[b] + Occurrences(bs, b)]]

FreeBlocks(p, bs) ==
  LET held == {b \in Blocks : p.ref[b] # Occurrences(bs, b)}
  IN  [p EXCEPT
         !.free = @ \o Without(bs, held \cup {NullBlock}),
         !.ref  = [b \in Blocks |-> @[b] - Occurrences(bs, b)]]

\* The asserts of cache_full_blocks, for the blocks at positions nc+1 .. nf
\* of bs and the hashes hs known before the call.
CacheFullBlocksAsserts(p, bs, hs, nc, nf) ==
  nc # nf =>
    /\ Len(hs) >= nc
    /\ nc > 0 => p.hash[bs[nc]] # NoHash
    /\ \A i \in nc + 1 .. nf : i \in DOMAIN bs => p.hash[bs[i]] = NoHash

\* cache_full_blocks; hs holds the hashes up to position nf, given or
\* computed by the call.
CacheFullBlocks(p, bs, hs, nc, nf) ==
  LET new == (nc + 1 .. nf) \cap DOMAIN bs
      at(h) == {i \in new : hs[i] = h}
      old(h) == IF h \in DOMAIN p.cached THEN p.cached[h] ELSE << >>
      of(b) == {i \in new : bs[i] = b}
  IN  [p EXCEPT
         !.hash = [b \in Blocks |-> IF of(b) = {} THEN @[b]
                                    ELSE hs[CHOOSE i \in of(b) : TRUE]],
         !.cached = [h \in DOMAIN @ \cup {hs[i] : i \in new} |->
                       IF at(h) = {} THEN old(h)
                       ELSE Append(old(h), bs[CHOOSE i \in at(h) : TRUE])]]

\* reset_prefix_cache succeeds only when the null block alone is in use.
CanResetPrefixCache(p) == NumGpuBlocks - NumFreeBlocks(p) = 1

ResetPrefixCache(p) ==
  [p EXCEPT !.hash = [b \in Blocks |-> NoHash],
            !.cached = [h \in {} |-> << >>]]

-----------------------------------------------------------------------------
\* A block can be evicted or allocated exactly when nobody holds it, and is
\* in the free queue once: free_block_queue, ref_cnt.
FreeQueueExact(p) ==
  /\ IsInjective(p.free)
  /\ Range(p.free) = {b \in Blocks \ {NullBlock} : p.ref[b] = 0}

\* cached_block_hash_to_block holds exactly the blocks that carry a hash,
\* each under its own hash and once.
CacheExact(p) ==
  /\ \A h \in DOMAIN p.cached : /\ IsInjective(p.cached[h])
                                /\ p.cached[h] # << >>
                                /\ h # NoHash
                                /\ \A b \in Range(p.cached[h]) : p.hash[b] = h
  /\ \A b \in Blocks : p.hash[b] # NoHash =>
                         /\ p.hash[b] \in DOMAIN p.cached
                         /\ b \in Range(p.cached[p.hash[b]])
  /\ p.hash[NullBlock] = NoHash
=============================================================================
