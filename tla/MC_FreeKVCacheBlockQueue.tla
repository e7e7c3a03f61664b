----------------------- MODULE MC_FreeKVCacheBlockQueue -----------------------
\* Five blocks: removal at the head, at the tail, in the middle, of the only
\* block, and appends to a list emptied in any order.
EXTENDS FreeKVCacheBlockQueue
=============================================================================
