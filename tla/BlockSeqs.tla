------------------------------ MODULE BlockSeqs ------------------------------
\* Lists of KV cache blocks: the helper every component below is written with.
EXTENDS Integers, Sequences, FiniteSets, Functions

\* s without the elements of E, in order.  Written as a recursive function,
\* not with SelectSeq, so that facts about it can be proved.
Kept(s, E) ==
  LET kept[i \in 0 .. Len(s)] ==
        IF i = 0 THEN << >>
        ELSE IF s[i] \in E THEN kept[i - 1] ELSE Append(kept[i - 1], s[i])
  IN  kept

Without(s, E) == Kept(s, E)[Len(s)]

\* How often b occurs in s.
Occurrences(s, b) == Cardinality({i \in DOMAIN s : s[i] = b})

\* No element of s occurs twice, those of E apart.
DistinctOutside(s, E) ==
  \A i, j \in DOMAIN s : s[i] = s[j] => i = j \/ s[i] \in E

Reversed(s) == [i \in 1 .. Len(s) |-> s[Len(s) + 1 - i]]
=============================================================================
