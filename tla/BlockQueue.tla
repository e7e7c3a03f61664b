----------------------------- MODULE BlockQueue -----------------------------
(***************************************************************************)
(* What FreeKVCacheBlockQueue promises its only client, BlockPool: a FIFO  *)
(* queue of distinct free blocks from whose middle a block can be removed. *)
(***************************************************************************)
EXTENDS Integers, Sequences, Functions

CONSTANT NumBlocks      \* len(blocks) passed to the constructor

Blocks == 0 .. NumBlocks - 1

VARIABLE q              \* the free blocks, the next one to be evicted first

Init == q = [i \in 1 .. NumBlocks |-> i - 1]

PopLeft == /\ q # << >>
           /\ q' = Tail(q)

Remove(i) == q' = SubSeq(q, 1, i - 1) \o SubSeq(q, i + 1, Len(q))

AppendBlock(b) == /\ b \notin Range(q)
                  /\ q' = Append(q, b)

Next == \/ PopLeft
        \/ \E i \in DOMAIN q : Remove(i)
        \/ \E b \in Blocks : AppendBlock(b)

Spec == Init /\ [][Next]_q
=============================================================================
