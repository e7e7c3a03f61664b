------------------------ MODULE FreeKVCacheBlockQueue ------------------------
(***************************************************************************)
(* The doubly linked list of free blocks (vllm/v1/core/kv_cache_utils.py). *)
(* The links live in the blocks themselves (prev_free_block and            *)
(* next_free_block), so a removed block carries its links away with it and *)
(* they must be reset before the block comes back.                         *)
(*                                                                         *)
(* The client, BlockPool, only removes blocks that are in the list         *)
(* (ref_cnt = 0) and only appends blocks that are not; "inside" is its     *)
(* knowledge of which ones are.                                            *)
(***************************************************************************)
EXTENDS Integers, Sequences, FiniteSets, Functions

CONSTANT NumBlocks

ASSUME NumBlocksAssumption == NumBlocks \in Nat \ {0}

Blocks == 0 .. NumBlocks - 1
None == -1              \* Python's None, for a link

VARIABLES prev, next,   \* KVCacheBlock.prev_free_block, next_free_block
          head, tail,   \* free_list_head, free_list_tail
          num,          \* num_free_blocks
          inside        \* the blocks the client knows to be free

vars == <<prev, next, head, tail, num, inside>>

Init ==
  /\ prev = [b \in Blocks |-> b - 1]
  /\ next = [b \in Blocks |-> IF b = NumBlocks - 1 THEN None ELSE b + 1]
  /\ head = 0
  /\ tail = NumBlocks - 1
  /\ num = NumBlocks
  /\ inside = Blocks

\* A remove that leaves the removed block's own links in place.
RelinkedKeepOwn(f, x, y, b) == [c \in Blocks |-> IF c = x THEN y ELSE f[c]]

\* A remove that does not link the neighbours to each other.
RelinkedNoBypass(f, x, y, b) == [f EXCEPT ![b] = None]

\* Links f after the neighbour x of the removed block b, if there is one,
\* inherits b's own link y, and b's link is cleared.
Relinked(f, x, y, b) == [c \in Blocks |-> IF c = b THEN None
                                          ELSE IF c = x THEN y ELSE f[c]]

\* FreeKVCacheBlockQueue.remove
Unlink(b) ==
  /\ next' = Relinked(next, prev[b], next[b], b)
  /\ prev' = Relinked(prev, next[b], prev[b], b)
  /\ head' = IF b = head THEN next[b] ELSE head
  /\ tail' = IF b = tail THEN prev[b] ELSE tail
  /\ num' = num - 1
  /\ inside' = inside \ {b}

Remove == \E b \in inside : Unlink(b)

PopLeft == /\ head # None
           /\ Unlink(head)

\* FreeKVCacheBlockQueue.append, the list empty or not
LinkLast(b) ==
  /\ IF tail # None
     THEN /\ next' = [next EXCEPT ![tail] = b, ![b] = None]
          /\ prev' = [prev EXCEPT ![b] = tail]
          /\ head' = head
     ELSE /\ next' = [next EXCEPT ![b] = None]
          /\ prev' = prev
          /\ head' = b
  /\ tail' = b
  /\ num' = num + 1
  /\ inside' = inside \cup {b}

AppendBlock == \E b \in Blocks \ inside : LinkLast(b)

Next == PopLeft \/ Remove \/ AppendBlock

Spec == Init /\ [][Next]_vars

-----------------------------------------------------------------------------
\* The blocks met from "start" along the links f, the way
\* get_all_free_blocks walks the list (cut after NumBlocks + 1 nodes).
Walk(start, f) ==
  LET node[i \in 1 .. NumBlocks + 1] ==
        IF i = 1 THEN start
        ELSE IF node[i - 1] = None THEN None ELSE f[node[i - 1]]
  IN  [i \in 1 .. Cardinality({j \in 1 .. NumBlocks + 1 : node[j] # None})
         |-> node[i]]

GetAllFreeBlocks == Walk(head, next)

\* Links lead to blocks, num_free_blocks counts no more than there are.
TypeOK ==
  /\ prev \in [Blocks -> Blocks \cup {None}]
  /\ next \in [Blocks -> Blocks \cup {None}]
  /\ head \in Blocks \cup {None}
  /\ tail \in Blocks \cup {None}
  /\ num \in 0 .. NumBlocks
  /\ inside \subseteq Blocks

\* After any sequence of popleft, remove and append the list read forwards
\* is the list read backwards, it holds exactly the blocks the client
\* believes free, and num_free_blocks (the count BlockPool decides
\* allocations by) is its length.
ListConsistent ==
  LET fwd == GetAllFreeBlocks
      bwd == Walk(tail, prev)
  IN  /\ Len(fwd) = num /\ Len(bwd) = num
      /\ \A i \in 1 .. num : fwd[i] = bwd[num + 1 - i]
      /\ Range(fwd) = inside

\* A block outside the list has no links left: append on an empty list does
\* not set prev_free_block and relies on remove having cleared it.
DetachedBlocksUnlinked ==
  \A b \in Blocks \ inside : prev[b] = None /\ next[b] = None

\* The queue that BlockPool is written against, read off the links
Abstract == INSTANCE BlockQueue WITH q <- GetAllFreeBlocks

\* The linked list implements that queue: popleft, remove and append do to
\* the list what they do to the queue.
RefinesBlockQueue == Abstract!Spec
=============================================================================
