-------------------------- MODULE EncoderCacheManager --------------------------
(***************************************************************************)
(* vllm/v1/core/encoder_cache_manager.py: the space for the encoder's      *)
(* outputs of the requests' images (their multi-modal inputs).  The        *)
(* manager is a record                                                     *)
(*                                                                         *)
(*   cached  the pairs <<request, input id>> in its dict of sets           *)
(*   free    num_free_slots, in tokens; nothing keeps it from going        *)
(*           below zero                                                    *)
(*   freed   the pairs the workers are still to be told of (a list in the  *)
(*           code; telling them twice changes nothing)                     *)
(***************************************************************************)
EXTENDS Integers, Sequences
LOCAL INSTANCE FiniteSetsExt

CONSTANTS MMPositions,     \* request -> the placeholder ranges in its prompt
          EncoderCacheSize \* cache_size, in tokens

InitEncoderCache == [cached |-> {}, free |-> EncoderCacheSize, freed |-> {}]

\* Offset and length of an image, and the position after its last token
Offset(r, i) == MMPositions[r][i].offset
NumEncoderTokens(r, i) == MMPositions[r][i].length
ImageEnd(r, i) == Offset(r, i) + NumEncoderTokens(r, i)

TotalTokens(images) ==
  MapThenSumSet(LAMBDA p : NumEncoderTokens(p[1], p[2]), images)

HasCache(e, r, i) == <<r, i>> \in e.cached

CanAllocate(e, r, i) == NumEncoderTokens(r, i) <= e.free

Allocate(e, images) ==
  [e EXCEPT !.cached = @ \cup images, !.free = @ - TotalTokens(images)]

\* free_encoder_input for each of these cached images
FreeInputs(e, images) ==
  [e EXCEPT !.cached = @ \ images,
            !.free = @ + TotalTokens(images),
            !.freed = @ \cup images]

CachedImages(e, r) == {p \in e.cached : p[1] = r}

\* free: whatever the request has there
FreeImages(e, r) == FreeInputs(e, CachedImages(e, r))

\* update_from_output: images whose tokens are all in the KV cache
FreeProcessedImages(e, r, computed) ==
  FreeInputs(e, {p \in CachedImages(e, r) : ImageEnd(r, p[2]) <= computed})

\* get_freed_ids
FreedTold(e) == [e EXCEPT !.freed = {}]
=============================================================================
