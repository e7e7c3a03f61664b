--------------------------- MODULE MC_ShmRingBuffer ---------------------------
\* Two blocks and three objects: the ring is gone round, and a block is
\* written again, with and without overflow before and after.
EXTENDS ShmRingBuffer
=============================================================================
