------------------------- MODULE MC_StreamingKVCache -------------------------
\* Caches of a few tokens and texts several times as long.
EXTENDS StreamingKVCache
=============================================================================
