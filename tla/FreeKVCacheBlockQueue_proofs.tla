--------------------- MODULE FreeKVCacheBlockQueue_proofs ---------------------
(***************************************************************************)
(* The links of the free list are consistent, and the list is the queue it *)
(* is used as, for every number of blocks.                                 *)
(***************************************************************************)
EXTENDS FreeKVCacheBlockQueue, BlockSeqs, SequenceTheorems, FiniteSetTheorems,
        WellFoundedInduction, TLAPS

\* The elements of a sequence.
LEMMA RangeFacts ==
  ASSUME NEW S, NEW s \in Seq(S)
  PROVE  /\ Range(s) = {s[i] : i \in 1 .. Len(s)}
         /\ Range(s) \subseteq S
         /\ IsInjective(s) <=>
              \A i, j \in 1 .. Len(s) : s[i] = s[j] => i = j
         /\ Range(s) = {} <=> s = << >>
<1>1. DOMAIN s = 1 .. Len(s) /\ Len(s) \in Nat
  OBVIOUS
<1>2. \A i \in 1 .. Len(s) : s[i] \in S
  OBVIOUS
<1>3. s # << >> => s[1] \in Range(s)
  BY <1>1 DEF Range
<1>4. s = << >> => Range(s) = {}
  BY DEF Range
<1> QED BY <1>1, <1>2, <1>3, <1>4 DEF Range, IsInjective

\* Induction over the natural numbers, for a set (the library's rule takes an
\* operator).
LEMMA NatSetInduction ==
  ASSUME NEW T \in SUBSET Nat, 0 \in T, \A n \in T : n + 1 \in T
  PROVE  T = Nat
<1> DEFINE R == {ss \in Nat \X Nat : ss[1] < ss[2]}
           U == Nat \ T
<1>1. IsWellFoundedOn(R, Nat)
  BY NatLessThanWellFounded, Zenon DEF OpToRel
<1>2. SUFFICES ASSUME U # {} PROVE FALSE OBVIOUS
<1>3. PICK x \in U : \A y \in U : ~ (<<y, x>> \in R)
  <2> HIDE DEF R
  <2> QED BY <1>1, <1>2, WFMin
<1>4. x # 0 /\ x \in Nat /\ x - 1 \in Nat  OBVIOUS
<1>5. x - 1 \in U BY <1>3, <1>4
<1>6. <<x-1, x>> \in R BY <1>4, <1>3
<1> QED BY <1>3, <1>5, <1>6

\* A reversed list has the same elements.
LEMMA ReversedFacts ==
  ASSUME NEW S, NEW s \in Seq(S)
  PROVE  /\ Reversed(s) \in Seq(S)
         /\ Range(Reversed(s)) = Range(s)
         /\ IsInjective(s) => IsInjective(Reversed(s))
<1> DEFINE r == Reversed(s)
           n == Len(s)
<1>1. /\ n \in Nat
      /\ \A i \in 1 .. n : n + 1 - i \in 1 .. n /\ n + 1 - (n + 1 - i) = i
  OBVIOUS
<1>2. r \in Seq(S) /\ Len(r) = n /\ \A i \in 1 .. n : r[i] = s[n + 1 - i]
  BY <1>1 DEF Reversed
<1>3. Range(s) = {s[i] : i \in 1 .. n} /\ Range(r) = {r[i] : i \in 1 .. n}
  BY <1>2, RangeFacts
<1>4. /\ IsInjective(s) => \A i, j \in 1 .. n : s[i] = s[j] => i = j
      /\ (\A i, j \in 1 .. n : r[i] = r[j] => i = j) => IsInjective(r)
  BY <1>2, RangeFacts
<1> HIDE DEF r, n
<1>5. Range(r) = Range(s)
  BY <1>1, <1>2, <1>3
<1>6. ASSUME IsInjective(s), NEW i \in 1 .. n, NEW j \in 1 .. n, r[i] = r[j]
      PROVE  i = j
  <2>1. n + 1 - i = n + 1 - j
    BY <1>1, <1>2, <1>4, <1>6
  <2> QED BY <2>1, <1>1
<1> QED BY <1>2, <1>4, <1>5, <1>6 DEF r

Link == Blocks \cup {None}
Ends == inside \cup {None}

LinksTyped ==
  /\ prev \in [Blocks -> Link]
  /\ next \in [Blocks -> Link]
  /\ inside \subseteq Blocks

\* The links of a listed block stay in the list.
LinksStayInside ==
  \A b \in inside : prev[b] \in Ends /\ next[b] \in Ends

\* prev_free_block and next_free_block are inverse to each other.
LinksSymmetric == \A b, c \in inside : next[b] = c <=> prev[c] = b

\* Only the head has no predecessor, only the tail no successor.
EndsMarked ==
  /\ head \in Ends /\ tail \in Ends
  /\ head = None <=> tail = None
  /\ \A b \in inside : /\ prev[b] = None <=> b = head
                       /\ next[b] = None <=> b = tail

\* DetachedBlocksUnlinked is not inductive: remove writes to the neighbours
\* it finds in the links, so these must be blocks of the list.
LinkInv == /\ LinksTyped
           /\ LinksStayInside
           /\ LinksSymmetric
           /\ EndsMarked
           /\ DetachedBlocksUnlinked

\* __init__ links all blocks in the order of their ids.
LEMMA InitLinkInv == Init => LinkInv
  BY NumBlocksAssumption
     DEF Init, LinkInv, LinksTyped, LinksStayInside, LinksSymmetric,
         EndsMarked, DetachedBlocksUnlinked, Ends, Link, Blocks, None

\* -1 is no block id.
LEMMA NoneIsNoBlock == None \notin Blocks
  BY DEF None, Blocks

\* remove, and therefore popleft, keeps the links consistent.
LEMMA UnlinkKeepsLinks ==
  ASSUME LinkInv, NEW b \in inside, Unlink(b)
  PROVE  LinkInv'
<1> USE NoneIsNoBlock
<1>1. b \in Blocks /\ inside' = inside \ {b}
  BY DEF LinkInv, LinksTyped, Unlink
<1>2. \A c \in Blocks : /\ next'[c] = IF c = b THEN None
                                      ELSE IF c = prev[b] THEN next[b] ELSE next[c]
                        /\ prev'[c] = IF c = b THEN None
                                      ELSE IF c = next[b] THEN prev[b] ELSE prev[c]
  BY DEF Unlink, Relinked
<1>3. LinksTyped'
  BY <1>1, <1>2 DEF LinkInv, LinksTyped, Unlink, Relinked, Link
<1>4. LinksStayInside'
  BY <1>1, <1>2
     DEF LinkInv, LinksTyped, LinksStayInside, LinksSymmetric, Ends
<1>5. LinksSymmetric'
  BY <1>1, <1>2
     DEF LinkInv, LinksTyped, LinksStayInside, LinksSymmetric, EndsMarked, Ends
<1>6. EndsMarked'
  <2>1. head' = IF b = head THEN next[b] ELSE head
    BY DEF Unlink
  <2>2. tail' = IF b = tail THEN prev[b] ELSE tail
    BY DEF Unlink
  <2> QED BY <1>1, <1>2, <2>1, <2>2
     DEF LinkInv, LinksTyped, LinksStayInside, LinksSymmetric, EndsMarked, Ends
<1>7. DetachedBlocksUnlinked'
  BY <1>1, <1>2
     DEF LinkInv, LinksTyped, LinksStayInside, DetachedBlocksUnlinked, Ends
<1> QED BY <1>3, <1>4, <1>5, <1>6, <1>7 DEF LinkInv

\* append keeps the links consistent, on an empty and on a non-empty list.
LEMMA LinkLastKeepsLinks ==
  ASSUME LinkInv, NEW b \in Blocks \ inside, LinkLast(b)
  PROVE  LinkInv'
<1> USE NoneIsNoBlock
<1>1. inside' = inside \cup {b} /\ tail' = b
  BY DEF LinkLast
<1>2. prev[b] = None /\ next[b] = None
  BY DEF LinkInv, DetachedBlocksUnlinked
<1>3. \A c \in Blocks : /\ next'[c] = IF c = b THEN None
                                      ELSE IF c = tail THEN b ELSE next[c]
                        /\ prev'[c] = IF c = b THEN tail ELSE prev[c]
  BY <1>2 DEF LinkInv, LinksTyped, LinkLast, EndsMarked, Ends
<1>4. head' = IF tail = None THEN b ELSE head
  BY DEF LinkLast
<1>5. LinksTyped'
  BY <1>1 DEF LinkInv, LinksTyped, LinkLast, EndsMarked, Ends, Link
<1>6. LinksStayInside'
  BY <1>1, <1>3 DEF LinkInv, LinksTyped, LinksStayInside, EndsMarked, Ends
<1>7. LinksSymmetric'
  BY <1>1, <1>3
     DEF LinkInv, LinksTyped, LinksStayInside, LinksSymmetric, EndsMarked, Ends
<1>8. EndsMarked'
  BY <1>1, <1>3, <1>4
     DEF LinkInv, LinksTyped, LinksStayInside, LinksSymmetric, EndsMarked, Ends
<1>9. DetachedBlocksUnlinked'
  BY <1>1, <1>3
     DEF LinkInv, LinksTyped, EndsMarked, DetachedBlocksUnlinked, Ends
<1> QED BY <1>5, <1>6, <1>7, <1>8, <1>9 DEF LinkInv

\* popleft takes a block of the list.
LEMMA HeadIsInside == ASSUME LinkInv, PopLeft PROVE head \in inside
  BY DEF PopLeft, LinkInv, EndsMarked, Ends

\* The links are consistent after any sequence of popleft, remove and append.
LEMMA LinkInvAlways == Spec => []LinkInv
<1>1. Init => LinkInv
  BY InitLinkInv
<1>2. LinkInv /\ [Next]_vars => LinkInv'
  <2> SUFFICES ASSUME LinkInv, [Next]_vars PROVE LinkInv'
    OBVIOUS
  <2>1. CASE PopLeft
    BY <2>1, HeadIsInside, UnlinkKeepsLinks DEF PopLeft
  <2>2. CASE Remove
    BY <2>2, UnlinkKeepsLinks DEF Remove
  <2>3. CASE AppendBlock
    BY <2>3, LinkLastKeepsLinks DEF AppendBlock
  <2>4. CASE UNCHANGED vars
    BY <2>4 DEF vars, LinkInv, LinksTyped, LinksStayInside, LinksSymmetric,
                EndsMarked, DetachedBlocksUnlinked, Ends, Link
  <2> QED BY <2>1, <2>2, <2>3, <2>4 DEF Next
<1> QED BY <1>1, <1>2, PTL DEF Spec

\* For every number of blocks and every sequence of popleft, remove and
\* append, a block outside the list has no links left.
THEOREM DetachedAlways == Spec => []DetachedBlocksUnlinked
<1>1. LinkInv => DetachedBlocksUnlinked
  BY DEF LinkInv
<1> QED BY <1>1, LinkInvAlways, PTL

\* num_free_blocks, which BlockPool decides allocations by, counts the blocks
\* that are free.
CountExact == num = Cardinality(inside)

\* A set of blocks is finite and no larger than the pool.
LEMMA BlocksFinite ==
  ASSUME NEW S \in SUBSET Blocks
  PROVE  IsFiniteSet(S) /\ Cardinality(S) \in 0 .. NumBlocks
<1>1. IsFiniteSet(Blocks) /\ Cardinality(Blocks) = NumBlocks
  BY FS_Interval, NumBlocksAssumption DEF Blocks
<1>2. IsFiniteSet(S) /\ Cardinality(S) <= NumBlocks
  BY <1>1, FS_Subset
<1> QED BY <1>2, FS_CardinalityType, NumBlocksAssumption

\* For every number of blocks the variables keep their types: the links lead
\* to blocks of the pool and num_free_blocks is the number of free blocks, so
\* that it is never negative and never more than there are.
THEOREM TypeOKAlways == Spec => [](TypeOK /\ CountExact)
<1>1. Init => CountExact
  BY FS_Interval, NumBlocksAssumption DEF Init, CountExact, Blocks
<1>2. LinkInv /\ CountExact /\ [Next]_vars => CountExact'
  <2> SUFFICES ASSUME LinkInv, CountExact, [Next]_vars PROVE CountExact'
    OBVIOUS
  <2>1. /\ inside \in SUBSET Blocks /\ IsFiniteSet(inside)
        /\ Cardinality(inside) \in Nat
    BY BlocksFinite DEF LinkInv, LinksTyped
  <2>2. ASSUME NEW b \in inside, Unlink(b) PROVE CountExact'
    BY <2>1, <2>2, FS_RemoveElement DEF CountExact, Unlink
  <2>3. ASSUME NEW b \in Blocks \ inside, LinkLast(b) PROVE CountExact'
    BY <2>1, <2>3, FS_AddElement DEF CountExact, LinkLast
  <2>4. CASE UNCHANGED vars
    BY <2>4 DEF vars, CountExact
  <2> QED BY <2>2, <2>3, <2>4, HeadIsInside DEF Next, PopLeft, Remove, AppendBlock
<1>3. LinkInv /\ CountExact => TypeOK
  <2> SUFFICES ASSUME LinkInv, CountExact PROVE TypeOK
    OBVIOUS
  <2>1. num \in 0 .. NumBlocks
    BY BlocksFinite DEF CountExact, LinkInv, LinksTyped
  <2> QED BY <2>1 DEF LinkInv, LinksTyped, EndsMarked, Ends, Link, TypeOK
<1> QED BY <1>1, <1>2, <1>3, LinkInvAlways, PTL DEF Spec

-----------------------------------------------------------------------------
(* The order of the list: LinkInv says nothing of cycles, so it does not   *)
(* tell that a walk along the links meets all blocks of the list.          *)

\* The i-th block of s, None before the first and after the last
At(s, i) == IF i \in 1 .. Len(s) THEN s[i] ELSE None

\* The links spell out the list s.
Spells(s) ==
  /\ s \in Seq(Blocks)
  /\ \A i, j \in 1 .. Len(s) : s[i] = s[j] => i = j
  /\ num = Len(s) /\ inside = {s[i] : i \in 1 .. Len(s)}
  /\ head = At(s, 1) /\ tail = At(s, Len(s))
  /\ \A i \in 1 .. Len(s) : next[s[i]] = At(s, i + 1) /\ prev[s[i]] = At(s, i - 1)

\* Following links that lead from each element of s to the next gives s.
LEMMA WalkSpells ==
  ASSUME NEW f, NEW start, NEW s \in Seq(Blocks), Len(s) <= NumBlocks,
         start = At(s, 1), \A i \in 1 .. Len(s) : f[s[i]] = At(s, i + 1)
  PROVE  Walk(start, f) = s
<1> DEFINE n == Len(s)
           K == 1 .. NumBlocks + 1
           Step(h, i) == IF i = 1 THEN start
                         ELSE IF h[i - 1] = None THEN None ELSE f[h[i - 1]]
           g == [i \in K |-> At(s, i)]
           node == CHOOSE h : h = [i \in K |-> Step(h, i)]
<1>1. /\ n \in Nat /\ NumBlocks \in Nat /\ n <= NumBlocks
      /\ \A i \in 1 .. n : s[i] \in Blocks /\ s[i] # None
  BY NumBlocksAssumption, NoneIsNoBlock
<1>2. ASSUME NEW i \in K PROVE g[i] = Step(g, i)
  <2>1. CASE i = 1
    BY <2>1
  <2>2. CASE i # 1
    <3>1. i - 1 \in K /\ g[i - 1] = At(s, i - 1) /\ (i - 1) + 1 = i
      BY <1>1, <2>2
    <3>2. CASE i - 1 \in 1 .. n
      BY <1>1, <2>2, <3>1, <3>2 DEF At
    <3>3. CASE i - 1 \notin 1 .. n
      <4>1. g[i - 1] = None /\ g[i] = None
        BY <1>1, <2>2, <3>1, <3>3 DEF At
      <4> QED
        BY <2>2, <4>1
    <3> QED
      BY <3>2, <3>3
  <2> QED
    BY <2>1, <2>2
<1>3. node = [i \in K |-> Step(node, i)]
  <2>1. g = [i \in K |-> Step(g, i)]
    <3> HIDE DEF Step, K
    <3> QED
      BY <1>2
  <2> HIDE DEF Step, g, K
  <2> QED
    BY <2>1, Zenon
<1> HIDE DEF node
<1>4. \A i \in K : node[i] = At(s, i)
  <2> DEFINE T == {m \in Nat : m + 1 \in K => node[m + 1] = g[m + 1]}
  <2>1. 0 \in T
    <3>1. 1 \in K /\ node[1] = start /\ g[1] = start
      BY <1>1, <1>3
    <3> QED
      BY <3>1
  <2>2. ASSUME NEW m \in T PROVE m + 1 \in T
    <3>1. SUFFICES ASSUME (m + 1) + 1 \in K
                   PROVE  node[(m + 1) + 1] = g[(m + 1) + 1]
      OBVIOUS
    <3>2. m + 1 \in K /\ (m + 1) + 1 # 1 /\ ((m + 1) + 1) - 1 = m + 1
      BY <1>1, <3>1
    <3>3. node[m + 1] = g[m + 1]
      BY <3>2
    <3>4. /\ node[(m + 1) + 1] = Step(node, (m + 1) + 1)
          /\ g[(m + 1) + 1] = Step(g, (m + 1) + 1)
      <4> HIDE DEF Step, K, g
      <4> QED
        BY <1>2, <1>3, <3>1
    <3>5. Step(node, (m + 1) + 1) = Step(g, (m + 1) + 1)
      <4> HIDE DEF g
      <4> QED
        BY <3>2, <3>3
    <3> QED
      BY <3>4, <3>5
  <2>3. T = Nat
    <3>1. T \in SUBSET Nat
      OBVIOUS
    <3> HIDE DEF T
    <3> QED
      BY <2>1, <2>2, <3>1, NatSetInduction
  <2>4. ASSUME NEW i \in K PROVE node[i] = At(s, i)
    <3>1. i - 1 \in Nat /\ (i - 1) + 1 = i
      BY <1>1
    <3>2. i - 1 \in T
      BY <2>3, <3>1
    <3> QED
      BY <3>1, <3>2
  <2> QED
    BY <2>4
<1>5. {j \in K : node[j] # None} = 1 .. n
  BY <1>1, <1>4 DEF At
<1>6. Cardinality(1 .. n) = n
  <2> HIDE DEF n
  <2>1. Cardinality(1 .. n) = IF 1 > n THEN 0 ELSE n - 1 + 1
    BY <1>1, FS_Interval
  <2> QED
    BY <1>1, <2>1
<1>7. Walk(start, f) = [i \in 1 .. Cardinality({j \in K : node[j] # None}) |-> node[i]]
  BY Zenon DEF Walk, node
<1>8. \A i \in 1 .. n : node[i] = s[i]
  BY <1>1, <1>4 DEF At
<1>9. s = [i \in 1 .. n |-> s[i]]
  OBVIOUS
<1> QED
  BY <1>5, <1>6, <1>7, <1>8, <1>9

\* The list is no longer than the pool, read in both directions.
LEMMA ListIs ==
  ASSUME NEW s, Spells(s), num \in 0 .. NumBlocks
  PROVE  GetAllFreeBlocks = s /\ Walk(tail, prev) = Reversed(s)
<1> DEFINE n == Len(s)
           r == Reversed(s)
<1>1. /\ s \in Seq(Blocks) /\ n \in Nat /\ n <= NumBlocks
      /\ \A i \in 1 .. n : next[s[i]] = At(s, i + 1) /\ prev[s[i]] = At(s, i - 1)
      /\ head = At(s, 1) /\ tail = At(s, n)
  BY DEF Spells
<1>2. GetAllFreeBlocks = s
  BY <1>1, WalkSpells DEF GetAllFreeBlocks
<1>3. /\ r \in Seq(Blocks) /\ Len(r) = n
      /\ \A i \in 1 .. n : r[i] = s[n + 1 - i] /\ n + 1 - i \in 1 .. n
  BY <1>1, ReversedFacts DEF Reversed
<1> HIDE DEF r
<1>4. \A i \in Int : At(r, i) = At(s, n + 1 - i)
  BY <1>1, <1>3 DEF At
<1>5. tail = At(r, 1)
  BY <1>1, <1>4
<1>6. ASSUME NEW i \in 1 .. n PROVE prev[r[i]] = At(r, i + 1)
  <2>1. prev[r[i]] = At(s, (n + 1 - i) - 1)
    BY <1>1, <1>3
  <2>2. (n + 1 - i) - 1 = n + 1 - (i + 1) /\ i + 1 \in Int
    BY <1>1
  <2> QED
    BY <1>4, <2>1, <2>2
<1>7. Walk(tail, prev) = r
  BY <1>1, <1>3, <1>5, <1>6, WalkSpells
<1> QED
  BY <1>2, <1>7 DEF r

\* __init__ spells out the blocks in the order of their ids.
LEMMA InitSpells == Init => Spells([i \in 1 .. NumBlocks |-> i - 1])
<1> SUFFICES ASSUME Init PROVE Spells([i \in 1 .. NumBlocks |-> i - 1])
  OBVIOUS
<1> DEFINE s == [i \in 1 .. NumBlocks |-> i - 1]
<1>1. NumBlocks \in Nat \ {0}
  BY NumBlocksAssumption
<1>2. /\ s \in Seq(Blocks) /\ Len(s) = NumBlocks
      /\ \A i \in 1 .. NumBlocks : s[i] = i - 1
  BY <1>1 DEF Blocks
<1> HIDE DEF s
<1>3. inside = {s[i] : i \in 1 .. Len(s)}
  <2>1. \A b \in Blocks : b + 1 \in 1 .. NumBlocks /\ s[b + 1] = b
    BY <1>1, <1>2 DEF Blocks
  <2>2. \A i \in 1 .. NumBlocks : s[i] \in Blocks
    BY <1>2 DEF Blocks
  <2> QED
    BY <1>2, <2>1, <2>2 DEF Init
<1>4. ASSUME NEW i \in 1 .. NumBlocks
      PROVE  next[s[i]] = At(s, i + 1) /\ prev[s[i]] = At(s, i - 1)
  <2>1. /\ s[i] = i - 1 /\ i - 1 \in Blocks
        /\ next[i - 1] = (IF i - 1 = NumBlocks - 1 THEN None ELSE (i - 1) + 1)
        /\ prev[i - 1] = (i - 1) - 1
    BY <1>1, <1>2 DEF Init, Blocks
  <2>2. At(s, i + 1) = (IF i = NumBlocks THEN None ELSE i)
    BY <1>1, <1>2 DEF At
  <2>3. At(s, i - 1) = (i - 1) - 1
    BY <1>1, <1>2 DEF At, None
  <2> QED
    BY <1>1, <2>1, <2>2, <2>3
<1>5. head = At(s, 1) /\ tail = At(s, Len(s)) /\ num = Len(s)
  BY <1>1, <1>2 DEF Init, At
<1>6. Spells(s)
  BY <1>2, <1>3, <1>4, <1>5 DEF Spells
<1> QED
  BY <1>6 DEF s

\* What Remove(k) of BlockQueue leaves: the elements before and after the k-th
LEMMA CutFacts ==
  ASSUME NEW s \in Seq(Blocks), NEW k \in 1 .. Len(s)
  PROVE  LET t == SubSeq(s, 1, k - 1) \o SubSeq(s, k + 1, Len(s))
         IN  /\ t \in Seq(Blocks) /\ Len(t) = Len(s) - 1
             /\ \A i \in 1 .. Len(s) - 1 : t[i] = IF i < k THEN s[i] ELSE s[i + 1]
             /\ \A i \in Int : At(t, i) = IF i < k THEN At(s, i) ELSE At(s, i + 1)
<1> DEFINE n == Len(s)
           a == SubSeq(s, 1, k - 1)
           z == SubSeq(s, k + 1, n)
           t == a \o z
<1>1. n \in Nat /\ k \in 1 .. n /\ k \in Int /\ \A i \in 1 .. n : s[i] \in Blocks
  OBVIOUS
<1>2. /\ a \in Seq(Blocks) /\ Len(a) = k - 1
      /\ \A i \in 1 .. k - 1 : a[i] = s[i]
  <2>1. /\ k - 1 \in Int /\ \A i \in 1 .. k - 1 : s[i] \in Blocks
        /\ (1 <= k - 1 => (k - 1) - 1 + 1 = k - 1) /\ (~(1 <= k - 1) => k - 1 = 0)
        /\ \A i \in 1 .. k - 1 : i \in 1 .. (k - 1) - 1 + 1 /\ 1 + i - 1 = i
    BY <1>1
  <2> QED
    BY <2>1, SubSeqProperties
<1>3. /\ z \in Seq(Blocks) /\ Len(z) = n - k
      /\ \A i \in 1 .. n - k : z[i] = s[k + i]
  <2>1. /\ k + 1 \in Int /\ n \in Int /\ \A i \in k + 1 .. n : s[i] \in Blocks
        /\ (k + 1 <= n => n - (k + 1) + 1 = n - k) /\ (~(k + 1 <= n) => n - k = 0)
        /\ \A i \in 1 .. n - k : i \in 1 .. n - (k + 1) + 1 /\ (k + 1) + i - 1 = k + i
    BY <1>1
  <2> QED
    BY <2>1, SubSeqProperties
<1> HIDE DEF a, z, n
<1>4. /\ t \in Seq(Blocks) /\ Len(t) = Len(a) + Len(z)
      /\ \A i \in 1 .. Len(a) + Len(z) :
           t[i] = IF i <= Len(a) THEN a[i] ELSE z[i - Len(a)]
  BY <1>2, <1>3, ConcatProperties
<1> HIDE DEF t
<1>5. Len(t) = n - 1
  BY <1>1, <1>2, <1>3, <1>4
<1>6. ASSUME NEW i \in 1 .. n - 1 PROVE t[i] = IF i < k THEN s[i] ELSE s[i + 1]
  <2>1. t[i] = IF i <= k - 1 THEN a[i] ELSE z[i - (k - 1)]
    BY <1>1, <1>2, <1>3, <1>4
  <2>2. CASE i < k
    BY <1>1, <1>2, <2>1, <2>2
  <2>3. CASE ~(i < k)
    <3>1. i - (k - 1) \in 1 .. n - k /\ k + (i - (k - 1)) = i + 1 /\ ~(i <= k - 1)
      BY <1>1, <2>3
    <3> QED
      BY <1>3, <2>1, <2>3, <3>1
  <2> QED
    BY <2>2, <2>3
<1>7. \A i \in Int : At(t, i) = IF i < k THEN At(s, i) ELSE At(s, i + 1)
  BY <1>1, <1>5, <1>6 DEF At, n
<1> QED
  BY <1>4, <1>5, <1>6, <1>7 DEF t, a, z, n

\* The place in s of the i-th element that is left when the k-th is gone
Skip(k, i) == IF i < k THEN i ELSE i + 1

\* It meets all places but the k-th, in order.
SkipsOne(n, k) ==
  /\ \A i \in 1 .. n - 1 : Skip(k, i) \in 1 .. n /\ Skip(k, i) # k
  /\ \A i, j \in 1 .. n - 1 : Skip(k, i) = Skip(k, j) => i = j
  /\ \A j \in 1 .. n : j # k => \E i \in 1 .. n - 1 : Skip(k, i) = j
  /\ \A i \in 1 .. n - 1 :
       /\ Skip(k, i + 1) = IF Skip(k, i) = k - 1 THEN k + 1 ELSE Skip(k, i) + 1
       /\ Skip(k, i - 1) = IF Skip(k, i) = k + 1 THEN k - 1 ELSE Skip(k, i) - 1
  /\ Skip(k, 1) = IF k = 1 THEN 2 ELSE 1
  /\ Skip(k, n - 1) = IF k = n THEN n - 1 ELSE n

LEMMA SkipFacts ==
  ASSUME NEW n \in Nat, NEW k \in 1 .. n
  PROVE  SkipsOne(n, k)
<1>1. ASSUME NEW j \in 1 .. n, j # k PROVE \E i \in 1 .. n - 1 : Skip(k, i) = j
  <2>1. CASE j < k
    <3>1. j \in 1 .. n - 1 /\ Skip(k, j) = j
      BY <2>1 DEF Skip
    <3> QED
      BY <3>1
  <2>2. CASE ~(j < k)
    <3>1. j - 1 \in 1 .. n - 1 /\ Skip(k, j - 1) = j
      BY <1>1, <2>2 DEF Skip
    <3> QED
      BY <3>1
  <2> QED
    BY <2>1, <2>2
<1> QED
  BY <1>1 DEF Skip, SkipsOne

\* remove takes one block out of the order and leaves the others in it.
LEMMA UnlinkSpells ==
  ASSUME NEW s, Spells(s), NEW k \in 1 .. Len(s), Unlink(s[k])
  PROVE  Spells(SubSeq(s, 1, k - 1) \o SubSeq(s, k + 1, Len(s)))'
<1> PICK n \in Nat : n = Len(s)
  BY DEF Spells
<1> PICK t : t = SubSeq(s, 1, k - 1) \o SubSeq(s, k + 1, Len(s))
  OBVIOUS
<1> DEFINE b == s[k]
<1>1. s \in Seq(Blocks) /\ k \in 1 .. n /\ \A i \in 1 .. n : s[i] \in Blocks /\ s[i] # None
  BY NoneIsNoBlock DEF Spells
<1>2. SkipsOne(n, k)
  BY <1>1, SkipFacts
<1>3. /\ \A i, j \in 1 .. n : s[i] = s[j] => i = j
      /\ \A i \in 1 .. n : next[s[i]] = At(s, i + 1) /\ prev[s[i]] = At(s, i - 1)
      /\ num = n /\ inside = {s[i] : i \in 1 .. n}
      /\ head = At(s, 1) /\ tail = At(s, n)
  BY DEF Spells
<1>4. \A i \in 1 .. n, j \in Int : s[i] = At(s, j) <=> i = j
  BY <1>1, <1>3 DEF At
<1>5. /\ t \in Seq(Blocks) /\ Len(t) = n - 1
      /\ \A i \in 1 .. n - 1 : t[i] = s[Skip(k, i)] /\ Skip(k, i) \in 1 .. n /\ Skip(k, i) # k
      /\ \A i \in Int : At(t, i) = At(s, Skip(k, i)) /\ Skip(k, i) \in Int
  <2>1. /\ t \in Seq(Blocks) /\ Len(t) = n - 1
        /\ \A i \in 1 .. n - 1 : t[i] = IF i < k THEN s[i] ELSE s[i + 1]
        /\ \A i \in Int : At(t, i) = IF i < k THEN At(s, i) ELSE At(s, i + 1)
    BY <1>1, CutFacts
  <2>2. \A i \in 1 .. n - 1 : t[i] = s[Skip(k, i)]
    BY <2>1 DEF Skip
  <2>3. ASSUME NEW i \in Int PROVE At(t, i) = At(s, Skip(k, i)) /\ Skip(k, i) \in Int
    <3>1. CASE i < k
      BY <2>1, <3>1 DEF Skip
    <3>2. CASE ~(i < k)
      BY <2>1, <3>2 DEF Skip
    <3> QED
      BY <3>1, <3>2
  <2>4. \A i \in 1 .. n - 1 : Skip(k, i) \in 1 .. n /\ Skip(k, i) # k
    BY <1>2 DEF SkipsOne
  <2> QED
    BY <2>1, <2>2, <2>3, <2>4
<1>6. /\ \A c \in Blocks : c # b =>
           /\ next'[c] = IF c = At(s, k - 1) THEN At(s, k + 1) ELSE next[c]
           /\ prev'[c] = IF c = At(s, k + 1) THEN At(s, k - 1) ELSE prev[c]
      /\ head' = IF b = head THEN At(s, k + 1) ELSE head
      /\ tail' = IF b = tail THEN At(s, k - 1) ELSE tail
      /\ num' = n - 1 /\ inside' = inside \ {b}
  BY <1>1, <1>3 DEF Unlink, Relinked
<1>7. \A i, j \in 1 .. n - 1 : t[i] = t[j] => i = j
  <2>1. ASSUME NEW i \in 1 .. n - 1, NEW j \in 1 .. n - 1, t[i] = t[j] PROVE i = j
    <3>1. /\ t[i] = s[Skip(k, i)] /\ Skip(k, i) \in 1 .. n
          /\ t[j] = s[Skip(k, j)] /\ Skip(k, j) \in 1 .. n
      BY <1>5
    <3>2. Skip(k, i) = Skip(k, j)
      BY <1>3, <2>1, <3>1
    <3> QED
      BY <1>2, <3>2 DEF SkipsOne
  <2> QED
    BY <2>1
<1>8. inside' = {t[i] : i \in 1 .. n - 1}
  <2>1. ASSUME NEW i \in 1 .. n - 1 PROVE t[i] \in inside'
    <3>1. t[i] = s[Skip(k, i)] /\ Skip(k, i) \in 1 .. n /\ Skip(k, i) # k
      BY <1>5
    <3>2. s[Skip(k, i)] # s[k]
      BY <1>1, <1>3, <3>1
    <3>3. t[i] \in inside /\ t[i] # b
      BY <1>3, <3>1, <3>2
    <3> QED
      BY <1>6, <3>3
  <2>2. ASSUME NEW c \in inside' PROVE c \in {t[i] : i \in 1 .. n - 1}
    <3>1. PICK j \in 1 .. n : c = s[j] /\ j # k
      BY <1>3, <1>6, SMTT(30)
    <3>2. PICK i \in 1 .. n - 1 : Skip(k, i) = j
      BY <1>2, <3>1 DEF SkipsOne
    <3> QED
      BY <1>5, <3>1, <3>2
  <2> QED
    BY <2>1, <2>2
<1>9. head' = At(t, 1) /\ tail' = At(t, n - 1)
  <2>1. (b = head <=> k = 1) /\ (b = tail <=> k = n)
    BY <1>1, <1>3, <1>4
  <2>2. At(t, 1) = At(s, Skip(k, 1)) /\ At(t, n - 1) = At(s, Skip(k, n - 1))
    BY <1>5
  <2>3. /\ At(t, 1) = At(s, IF k = 1 THEN 2 ELSE 1)
        /\ At(t, n - 1) = At(s, IF k = n THEN n - 1 ELSE n)
    BY <1>2, <2>2 DEF SkipsOne
  <2> QED
    BY <1>1, <1>3, <1>6, <2>1, <2>3
<1>10. ASSUME NEW i \in 1 .. n - 1
      PROVE  next'[t[i]] = At(t, i + 1) /\ prev'[t[i]] = At(t, i - 1)
  <2>1. PICK m \in 1 .. n : m = Skip(k, i) /\ m # k
    BY <1>5
  <2>2. t[i] = s[m] /\ s[m] \in Blocks /\ s[m] # b
    BY <1>1, <1>3, <1>5, <2>1
  <2>3. /\ s[m] = At(s, k - 1) <=> m = k - 1
        /\ s[m] = At(s, k + 1) <=> m = k + 1
    BY <1>1, <1>4
  <2>4. /\ next'[s[m]] = IF m = k - 1 THEN At(s, k + 1) ELSE At(s, m + 1)
        /\ prev'[s[m]] = IF m = k + 1 THEN At(s, k - 1) ELSE At(s, m - 1)
    BY <1>3, <1>6, <2>2, <2>3
  <2>5. /\ Skip(k, i + 1) = IF m = k - 1 THEN k + 1 ELSE m + 1
        /\ Skip(k, i - 1) = IF m = k + 1 THEN k - 1 ELSE m - 1
    BY <1>2, <2>1 DEF SkipsOne
  <2>6. At(t, i + 1) = At(s, Skip(k, i + 1)) /\ At(t, i - 1) = At(s, Skip(k, i - 1))
    BY <1>5
  <2> QED
    BY <2>2, <2>4, <2>5, <2>6
<1>11. Spells(t)'
  BY <1>5, <1>6, <1>7, <1>8, <1>9, <1>10 DEF Spells
<1> QED
  BY <1>11

\* append puts a block that has no links behind the last one.
LEMMA LinkLastSpells ==
  ASSUME NEW s, Spells(s), LinkInv, NEW b \in Blocks \ inside, LinkLast(b)
  PROVE  Spells(Append(s, b))'
<1> PICK n \in Nat : n = Len(s)
  BY DEF Spells
<1> PICK t : t = Append(s, b)
  OBVIOUS
<1>1. s \in Seq(Blocks) /\ \A i \in 1 .. n : s[i] \in Blocks /\ s[i] # None
  BY NoneIsNoBlock DEF Spells
<1>2. /\ \A i, j \in 1 .. n : s[i] = s[j] => i = j
      /\ \A i \in 1 .. n : next[s[i]] = At(s, i + 1) /\ prev[s[i]] = At(s, i - 1)
      /\ num = n /\ inside = {s[i] : i \in 1 .. n}
      /\ head = At(s, 1) /\ tail = At(s, n)
  BY DEF Spells
<1>3. b \in Blocks /\ \A i \in 1 .. n : s[i] # b
  BY <1>2
<1>4. /\ t \in Seq(Blocks) /\ Len(t) = n + 1
      /\ \A i \in 1 .. n : t[i] = s[i]
      /\ t[n + 1] = b
  BY <1>1, AppendProperties
<1>5. \A i \in Int : At(t, i) = IF i = n + 1 THEN b ELSE At(s, i)
  BY <1>1, <1>4 DEF At
<1>6. \A c \in Blocks : /\ next'[c] = IF c = b THEN None
                                      ELSE IF c = tail THEN b ELSE next[c]
                        /\ prev'[c] = IF c = b THEN tail ELSE prev[c]
  <2>1. prev[b] = None /\ next[b] = None
    BY DEF LinkInv, DetachedBlocksUnlinked
  <2> QED
    BY <2>1, NoneIsNoBlock DEF LinkInv, LinksTyped, LinkLast, EndsMarked, Ends
<1>7. /\ head' = IF tail = None THEN b ELSE head
      /\ tail' = b /\ num' = n + 1 /\ inside' = inside \cup {b}
  BY <1>2 DEF LinkLast
<1>8. \A i, j \in 1 .. n + 1 : t[i] = t[j] => i = j
  <2>1. \A i \in 1 .. n + 1 : i \in 1 .. n \/ i = n + 1
    OBVIOUS
  <2> QED
    BY <1>2, <1>3, <1>4, <2>1
<1>9. inside' = {t[i] : i \in 1 .. n + 1}
  <2>1. ASSUME NEW i \in 1 .. n + 1 PROVE t[i] \in inside'
    <3>1. i \in 1 .. n \/ i = n + 1
      OBVIOUS
    <3> QED
      BY <1>2, <1>4, <1>7, <3>1
  <2>2. ASSUME NEW c \in inside' PROVE c \in {t[i] : i \in 1 .. n + 1}
    <3>1. CASE c = b
      <4>1. n + 1 \in 1 .. n + 1
        OBVIOUS
      <4> QED
        BY <1>4, <3>1, <4>1
    <3>2. CASE c # b
      <4>1. PICK i \in 1 .. n : c = s[i]
        BY <1>2, <1>7, <3>2
      <4>2. i \in 1 .. n + 1
        OBVIOUS
      <4> QED
        BY <1>4, <4>1, <4>2
    <3> QED
      BY <3>1, <3>2
  <2> QED
    BY <2>1, <2>2
<1>10. head' = At(t, 1) /\ tail' = At(t, n + 1)
  <2>1. tail = None <=> n = 0
    BY <1>1, <1>2 DEF At
  <2>2. At(t, 1) = (IF n = 0 THEN b ELSE At(s, 1)) /\ At(t, n + 1) = b
    BY <1>5
  <2> QED
    BY <1>2, <1>7, <2>1, <2>2
<1>11. ASSUME NEW i \in 1 .. n + 1
       PROVE  next'[t[i]] = At(t, i + 1) /\ prev'[t[i]] = At(t, i - 1)
  <2>1. /\ At(t, i + 1) = IF i + 1 = n + 1 THEN b ELSE At(s, i + 1)
        /\ At(t, i - 1) = At(s, i - 1)
    BY <1>5
  <2>2. CASE i = n + 1
    <3>1. At(s, i + 1) = None /\ i - 1 = n
      BY <2>2 DEF At
    <3>2. t[i] = b
      BY <1>4, <2>2
    <3>3. next'[t[i]] = None /\ prev'[t[i]] = At(s, n)
      BY <1>2, <1>3, <1>6, <3>2
    <3> QED
      BY <2>1, <2>2, <3>1, <3>3
  <2>3. CASE i # n + 1
    <3>1. i \in 1 .. n /\ t[i] = s[i] /\ s[i] \in Blocks /\ s[i] # b
      BY <1>1, <1>3, <1>4, <2>3
    <3>2. s[i] = tail <=> i = n
      BY <1>1, <1>2, <3>1 DEF At
    <3>3. /\ next'[s[i]] = IF i = n THEN b ELSE At(s, i + 1)
          /\ prev'[s[i]] = At(s, i - 1)
      BY <1>2, <1>6, <3>1, <3>2
    <3> QED
      BY <2>1, <3>1, <3>3
  <2> QED
    BY <2>2, <2>3
<1>12. Spells(t)'
  BY <1>4, <1>7, <1>8, <1>9, <1>10, <1>11 DEF Spells
<1> QED
  BY <1>12

-----------------------------------------------------------------------------
\* What holds of the list in every state
ListInv == /\ LinkInv /\ TypeOK
           /\ \E s : Spells(s)
           /\ \A s : Spells(s) => GetAllFreeBlocks = s

\* A step of the list takes out one block or adds one at the end.
LEMMA StepSpells ==
  ASSUME LinkInv, NEW s, Spells(s), Next
  PROVE  \/ \E k \in DOMAIN s : Spells(SubSeq(s, 1, k - 1) \o SubSeq(s, k + 1, Len(s)))'
         \/ \E b \in Blocks : b \notin Range(s) /\ Spells(Append(s, b))'
<1>1. /\ s \in Seq(Blocks) /\ inside = {s[i] : i \in 1 .. Len(s)}
      /\ DOMAIN s = 1 .. Len(s) /\ Range(s) = inside
  BY RangeFacts DEF Spells
<1>2. ASSUME NEW b \in inside, Unlink(b)
      PROVE  \E k \in DOMAIN s :
               Spells(SubSeq(s, 1, k - 1) \o SubSeq(s, k + 1, Len(s)))'
  <2>1. PICK k \in 1 .. Len(s) : b = s[k]
    BY <1>1
  <2> QED
    BY <1>1, <1>2, <2>1, UnlinkSpells
<1>3. ASSUME NEW b \in Blocks \ inside, LinkLast(b)
      PROVE  b \notin Range(s) /\ Spells(Append(s, b))'
  BY <1>1, <1>3, LinkLastSpells
<1> QED
  BY <1>2, <1>3, HeadIsInside DEF Next, PopLeft, Remove, AppendBlock

\* The list spells out a sequence of blocks in every state.
LEMMA ListInvAlways == Spec => []ListInv
<1>1. Init => \E s : Spells(s)
  BY InitSpells
<1>2. LinkInv /\ (\E s : Spells(s)) /\ [Next]_vars => (\E s : Spells(s))'
  <2> SUFFICES ASSUME LinkInv, NEW s, Spells(s), [Next]_vars PROVE (\E z : Spells(z))'
    OBVIOUS
  <2>1. CASE Next
    BY <2>1, StepSpells
  <2>2. CASE UNCHANGED vars
    <3>1. Spells(s)'
      BY <2>2 DEF vars, Spells
    <3> QED
      BY <3>1
  <2> QED
    BY <2>1, <2>2
<1>3. TypeOK => \A s : Spells(s) => GetAllFreeBlocks = s
  BY ListIs DEF TypeOK
<1> QED
  BY <1>1, <1>2, <1>3, LinkInvAlways, TypeOKAlways, PTL DEF Spec, ListInv

\* For every number of blocks, after any sequence of popleft, remove and
\* append, the list read forwards is the list read backwards and holds the
\* blocks that are free; num_free_blocks is its length.
THEOREM ListConsistentAlways == Spec => []ListConsistent
<1>1. ListInv => ListConsistent
  <2> SUFFICES ASSUME TypeOK, NEW s, Spells(s) PROVE ListConsistent
    BY DEF ListInv
  <2>1. GetAllFreeBlocks = s /\ Walk(tail, prev) = Reversed(s)
    BY ListIs DEF TypeOK
  <2>2. /\ s \in Seq(Blocks) /\ num = Len(s) /\ Range(s) = inside
        /\ Len(Reversed(s)) = num
        /\ \A i \in 1 .. num : Reversed(s)[num + 1 - i] = s[i]
    BY RangeFacts DEF Spells, Reversed
  <2> QED
    BY <2>1, <2>2 DEF ListConsistent
<1> QED
  BY <1>1, ListInvAlways, PTL

\* The linked list implements the queue BlockPool is written against, for
\* every number of blocks: __init__ gives its initial state, and popleft,
\* remove and append do to the list what they do to the queue.
THEOREM RefinesBlockQueueAlways == Spec => RefinesBlockQueue
<1>1. Init => Abstract!Init
  <2> SUFFICES ASSUME Init PROVE Abstract!Init
    OBVIOUS
  <2>1. num \in 0 .. NumBlocks
    BY NumBlocksAssumption DEF Init
  <2>2. GetAllFreeBlocks = [i \in 1 .. NumBlocks |-> i - 1]
    BY <2>1, InitSpells, ListIs
  <2> QED
    BY <2>2 DEF Abstract!Init
<1>2. ListInv /\ ListInv' /\ [Next]_vars => [Abstract!Next]_GetAllFreeBlocks
  <2> SUFFICES ASSUME ListInv, ListInv', [Next]_vars
               PROVE  [Abstract!Next]_GetAllFreeBlocks
    OBVIOUS
  <2>1. PICK s : Spells(s)
    BY DEF ListInv
  <2>2. GetAllFreeBlocks = s
    BY <2>1 DEF ListInv
  <2>3. ASSUME NEW t, Spells(t)' PROVE GetAllFreeBlocks' = t
    BY <2>3 DEF ListInv
  <2>4. CASE Next
    <3>1. ASSUME NEW k \in DOMAIN s,
                 Spells(SubSeq(s, 1, k - 1) \o SubSeq(s, k + 1, Len(s)))'
          PROVE  Abstract!Remove(k)
      BY <2>2, <2>3, <3>1 DEF Abstract!Remove
    <3>2. ASSUME NEW b \in Blocks, b \notin Range(s), Spells(Append(s, b))'
          PROVE  Abstract!AppendBlock(b)
      BY <2>2, <2>3, <3>2 DEF Abstract!AppendBlock, Range, Abstract!Range
    <3>3. Abstract!Blocks = Blocks
      BY DEF Abstract!Blocks, Blocks
    <3> QED
      BY <2>1, <2>2, <2>4, <3>1, <3>2, <3>3, StepSpells DEF ListInv, Abstract!Next
  <2>5. CASE UNCHANGED vars
    BY <2>5 DEF vars, GetAllFreeBlocks
  <2> QED
    BY <2>4, <2>5
<1> QED
  BY <1>1, <1>2, ListInvAlways, PTL DEF Spec, RefinesBlockQueue, Abstract!Spec
=============================================================================
