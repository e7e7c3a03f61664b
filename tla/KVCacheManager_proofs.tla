------------------------ MODULE KVCacheManager_proofs ------------------------
(***************************************************************************)
(* Facts about the KV cache manager, for every instance.                   *)
(***************************************************************************)
EXTENDS KVCacheManager, SequenceTheorems, FiniteSetTheorems,
        WellFoundedInduction, TLAPS

-----------------------------------------------------------------------------
\* The lists of BlockSeqs, for every list.

\* The elements of a sequence.
LEMMA RangeFacts ==
  ASSUME NEW S, NEW s \in Seq(S)
  PROVE  /\ Range(s) = {s[i] : i \in 1 .. Len(s)}
         /\ Range(s) \subseteq S
         /\ IsInjective(s) <=>
              \A i, j \in 1 .. Len(s) : s[i] = s[j] => i = j
         /\ Range(s) = {} <=> s = << >>
<1>1. DOMAIN s = 1 .. Len(s) /\ Len(s) \in Nat
  OBVIOUS
<1>2. \A i \in 1 .. Len(s) : s[i] \in S
  OBVIOUS
<1>3. s # << >> => s[1] \in Range(s)
  BY <1>1 DEF Range
<1>4. s = << >> => Range(s) = {}
  BY DEF Range
<1> QED BY <1>1, <1>2, <1>3, <1>4 DEF Range, IsInjective

\* A sequence with one more element.
LEMMA AppendFacts ==
  ASSUME NEW S, NEW s \in Seq(S), NEW x \in S
  PROVE  /\ Append(s, x) \in Seq(S)
         /\ Range(Append(s, x)) = Range(s) \cup {x}
         /\ IsInjective(s) /\ x \notin Range(s) => IsInjective(Append(s, x))
<1> DEFINE t == Append(s, x)
<1>1. /\ t \in Seq(S) /\ Len(s) \in Nat /\ Len(t) = Len(s) + 1
      /\ \A i \in 1 .. Len(s) : t[i] = s[i]
      /\ t[Len(s) + 1] = x
  BY AppendProperties
<1> HIDE DEF t
<1>2. \A i \in 1 .. Len(t) : i \in 1 .. Len(s) \/ i = Len(s) + 1
  BY <1>1
<1>3. Range(t) = {t[i] : i \in 1 .. Len(t)} /\ Range(s) = {s[i] : i \in 1 .. Len(s)}
  BY <1>1, RangeFacts
<1>4. Range(t) = Range(s) \cup {x}
  BY <1>1, <1>2, <1>3
<1>5. ASSUME IsInjective(s), x \notin Range(s)
      PROVE  IsInjective(t)
  <2> SUFFICES ASSUME NEW i \in 1 .. Len(t), NEW j \in 1 .. Len(t), t[i] = t[j]
               PROVE  i = j
    BY <1>1, RangeFacts
  <2>1. ASSUME NEW a \in 1 .. Len(s) PROVE t[a] # x
    BY <2>1, <1>1, <1>3, <1>5
  <2> QED BY <2>1, <1>1, <1>2, <1>5, RangeFacts
<1> QED BY <1>1, <1>4, <1>5 DEF t

\* Induction over the natural numbers, for a set (the library's rule takes an
\* operator).
LEMMA NatSetInduction ==
  ASSUME NEW T \in SUBSET Nat, 0 \in T, \A n \in T : n + 1 \in T
  PROVE  T = Nat
<1> DEFINE R == {ss \in Nat \X Nat : ss[1] < ss[2]}
           U == Nat \ T
<1>1. IsWellFoundedOn(R, Nat)
  BY NatLessThanWellFounded, Zenon DEF OpToRel
<1>2. SUFFICES ASSUME U # {} PROVE FALSE OBVIOUS
<1>3. PICK x \in U : \A y \in U : ~ (<<y, x>> \in R)
  <2> HIDE DEF R
  <2> QED BY <1>1, <1>2, WFMin
<1>4. x # 0 /\ x \in Nat /\ x - 1 \in Nat  OBVIOUS
<1>5. x - 1 \in U BY <1>3, <1>4
<1>6. <<x-1, x>> \in R BY <1>4, <1>3
<1> QED BY <1>3, <1>5, <1>6

\* The recursive function of Kept exists, so its equation holds.
LEMMA KeptDef ==
  ASSUME NEW S, NEW s \in Seq(S), NEW E
  PROVE  Kept(s, E) = [i \in 0 .. Len(s) |->
            IF i = 0 THEN << >>
            ELSE IF s[i] \in E THEN Kept(s, E)[i-1]
                 ELSE Append(Kept(s, E)[i-1], s[i])]
<1> DEFINE Body(f, i) == IF i = 0 THEN << >>
                         ELSE IF s[i] \in E THEN f[i-1] ELSE Append(f[i-1], s[i])
           T == {n \in Nat : \E f : f = [i \in 0 .. n |-> Body(f, i)]}
<1>1. 0 \in T
  <2> DEFINE f == [i \in 0 .. 0 |-> << >>]
  <2>1. f = [i \in 0 .. 0 |-> Body(f, i)] OBVIOUS
  <2> QED BY <2>1
<1>2. ASSUME NEW n \in T PROVE n + 1 \in T
  <2>1. n \in Nat OBVIOUS
  <2>2. PICK f : f = [i \in 0 .. n |-> Body(f, i)] OBVIOUS
  <2> DEFINE g == [i \in 0 .. (n+1) |-> IF i = n + 1 THEN Body(f, n+1) ELSE f[i]]
  <2>3. ASSUME NEW i \in 0 .. (n+1) PROVE g[i] = Body(g, i)
    <3>1. CASE i = n + 1
      <4>1. g[i] = Body(f, n+1) BY <3>1
      <4>2. i # 0 /\ n \in 0 .. (n+1) /\ n # n+1 /\ i - 1 = n BY <2>1, <3>1
      <4>3. g[i-1] = f[n] BY <4>2
      <4> QED BY <4>1, <4>2, <4>3, <3>1
    <3>2. CASE i # n + 1
      <4>1. i \in 0 .. n BY <3>2, <2>1
      <4>2. g[i] = f[i] BY <3>2
      <4>3. f[i] = Body(f, i) BY <2>2, <4>1
      <4>4. CASE i = 0 BY <4>2, <4>3, <4>4
      <4>5. CASE i # 0
        <5>1. i - 1 \in 0 .. (n+1) /\ i - 1 # n + 1 BY <4>1, <4>5, <2>1
        <5>2. g[i-1] = f[i-1] BY <5>1
        <5> QED BY <4>2, <4>3, <5>2
      <4> QED BY <4>4, <4>5
    <3> QED BY <3>1, <3>2
  <2>4. g = [i \in 0 .. (n+1) |-> Body(g, i)]
    <3> HIDE DEF Body
    <3> QED BY <2>3
  <2> HIDE DEF g, Body
  <2> QED BY <2>1, <2>4
<1>3. T = Nat
  <2> HIDE DEF T
  <2>1. T \in SUBSET Nat BY DEF T
  <2> QED BY <1>1, <1>2, <2>1, NatSetInduction
<1>4. Len(s) \in Nat OBVIOUS
<1>5. \E f : f = [i \in 0 .. Len(s) |-> Body(f, i)]
  BY <1>3, <1>4
<1> DEFINE k == CHOOSE f : f = [i \in 0 .. Len(s) |-> Body(f, i)]
<1>6. k = [i \in 0 .. Len(s) |-> Body(k, i)]
  <2> HIDE DEF Body
  <2> QED BY <1>5, Zenon
<1>7. Kept(s, E) = k BY Zenon DEF Kept
<1> QED BY <1>6, <1>7, Zenon

\* Without removes exactly the elements of E, and repeats nothing.
LEMMA WithoutFacts ==
  ASSUME NEW S, NEW s \in Seq(S), NEW E
  PROVE  /\ Without(s, E) \in Seq(S)
         /\ Range(Without(s, E)) = Range(s) \ E
         /\ IsInjective(s) => IsInjective(Without(s, E))
<1> DEFINE k == Kept(s, E)
           Pre(i) == {s[j] : j \in 1 .. i}
           Ok(i) == /\ k[i] \in Seq(S)
                    /\ Range(k[i]) = Pre(i) \ E
                    /\ IsInjective(s) => IsInjective(k[i])
           T == {n \in Nat : n <= Len(s) => Ok(n)}
<1>1. Len(s) \in Nat OBVIOUS
<1>2. k[0] = << >> BY <1>1, KeptDef
<1>3. ASSUME NEW i \in 1 .. Len(s)
      PROVE  k[i] = IF s[i] \in E THEN k[i-1] ELSE Append(k[i-1], s[i])
  <2>1. k = [j \in 0 .. Len(s) |->
               IF j = 0 THEN << >>
               ELSE IF s[j] \in E THEN k[j-1] ELSE Append(k[j-1], s[j])]
    BY KeptDef
  <2>2. i \in 0 .. Len(s) /\ i # 0 BY <1>1
  <2> HIDE DEF k
  <2> QED BY <2>1, <2>2
<1> HIDE DEF k
<1>4. 0 \in T
  <2>1. Range(<< >>) = {} /\ IsInjective(<< >>) BY DEF Range, IsInjective
  <2>2. Pre(0) = {} OBVIOUS
  <2>3. Ok(0) BY <1>2, <2>1, <2>2
  <2> QED BY <2>3
<1>5. ASSUME NEW n \in T PROVE n + 1 \in T
  <2>1. SUFFICES ASSUME n + 1 <= Len(s) PROVE Ok(n + 1) OBVIOUS
  <2>2. n \in Nat /\ n + 1 \in 1 .. Len(s) /\ n <= Len(s) BY <1>1, <2>1
  <2>3. Ok(n) BY <2>2
  <2>4. k[n+1] = IF s[n+1] \in E THEN k[n] ELSE Append(k[n], s[n+1])
    BY <1>3, <2>2
  <2>5. Pre(n+1) = Pre(n) \cup {s[n+1]} BY <2>2
  <2>6. s[n+1] \in S BY <2>2
  <2>7. CASE s[n+1] \in E BY <2>3, <2>4, <2>5, <2>7
  <2>8. CASE s[n+1] \notin E
    <3> DEFINE t == k[n]  x == s[n+1]
    <3>1. t \in Seq(S) /\ x \in S /\ k[n+1] = Append(t, x)
      BY <2>3, <2>4, <2>6, <2>8
    <3>2. x \notin Pre(n) \/ ~ IsInjective(s)
      BY <2>2 DEF IsInjective
    <3> HIDE DEF t, x
    <3>3. /\ Range(Append(t, x)) = Range(t) \cup {x}
          /\ IsInjective(t) /\ x \notin Range(t) => IsInjective(Append(t, x))
      BY <3>1, AppendFacts
    <3>4. /\ Range(t) = Pre(n) \ E
          /\ IsInjective(s) => IsInjective(t)
      BY <2>3 DEF t
    <3>5. x \notin E /\ Pre(n + 1) = Pre(n) \cup {x}
      BY <2>5, <2>8 DEF x
    <3> HIDE DEF Pre
    <3> QED BY <3>1, <3>2, <3>3, <3>4, <3>5
  <2> QED BY <2>7, <2>8
<1>6. T = Nat
  <2> HIDE DEF T
  <2>1. T \in SUBSET Nat BY DEF T
  <2> QED BY <1>4, <1>5, <2>1, NatSetInduction
<1>7. Ok(Len(s)) BY <1>1, <1>6
<1>8. Pre(Len(s)) = Range(s)
  BY RangeFacts
<1> QED BY <1>7, <1>8 DEF Without, k

\* Two lists without repetition and without a common element, put together.
LEMMA ConcatFacts ==
  ASSUME NEW S, NEW s \in Seq(S), NEW t \in Seq(S)
  PROVE  /\ s \o t \in Seq(S)
         /\ Range(s \o t) = Range(s) \cup Range(t)
         /\ IsInjective(s) /\ IsInjective(t) /\ Range(s) \cap Range(t) = {}
              => IsInjective(s \o t)
<1> DEFINE u == s \o t
           ls == Len(s)
           lt == Len(t)
<1>1. /\ u \in Seq(S) /\ ls \in Nat /\ lt \in Nat /\ Len(u) = ls + lt
      /\ \A i \in 1 .. ls + lt : u[i] = IF i <= ls THEN s[i] ELSE t[i - ls]
  BY ConcatProperties
<1>2. /\ Range(u) = {u[i] : i \in 1 .. ls + lt}
      /\ Range(s) = {s[i] : i \in 1 .. ls}
      /\ Range(t) = {t[i] : i \in 1 .. lt}
  BY <1>1, RangeFacts
<1>3. /\ IsInjective(s) => \A i, j \in 1 .. ls : s[i] = s[j] => i = j
      /\ IsInjective(t) => \A i, j \in 1 .. lt : t[i] = t[j] => i = j
      /\ (\A i, j \in 1 .. ls + lt : u[i] = u[j] => i = j) => IsInjective(u)
  BY <1>1, RangeFacts
<1> HIDE DEF u, ls, lt
<1>4. \A i \in 1 .. ls + lt : \/ i \in 1 .. ls /\ u[i] = s[i]
                              \/ i - ls \in 1 .. lt /\ u[i] = t[i - ls] /\ i > ls
  BY <1>1
<1>5. Range(u) = Range(s) \cup Range(t)
  <2>1. ASSUME NEW i \in 1 .. ls PROVE s[i] \in Range(u)
    BY <1>1, <1>2
  <2>2. ASSUME NEW j \in 1 .. lt PROVE t[j] \in Range(u)
    <3>1. j + ls \in 1 .. ls + lt /\ ~ (j + ls <= ls) /\ (j + ls) - ls = j
      BY <1>1
    <3> QED BY <3>1, <1>1, <1>2
  <2>3. Range(u) \subseteq Range(s) \cup Range(t)
    BY <1>2, <1>4
  <2> QED BY <2>1, <2>2, <2>3, <1>2
<1>6. ASSUME IsInjective(s), IsInjective(t), Range(s) \cap Range(t) = {},
             NEW i \in 1 .. ls + lt, NEW j \in 1 .. ls + lt, u[i] = u[j]
      PROVE  i = j
  <2>1. CASE i \in 1 .. ls /\ u[i] = s[i]
    <3>1. s[i] \notin Range(t)
      BY <2>1, <1>2, <1>6
    <3> QED BY <2>1, <3>1, <1>2, <1>3, <1>4, <1>6
  <2>2. CASE i - ls \in 1 .. lt /\ u[i] = t[i - ls] /\ i > ls
    <3>1. t[i - ls] \notin Range(s)
      BY <2>2, <1>2, <1>6
    <3>2. j - ls \in 1 .. lt /\ t[i - ls] = t[j - ls]
      BY <2>2, <3>1, <1>2, <1>4, <1>6
    <3>3. i - ls = j - ls
      BY <2>2, <3>2, <1>3, <1>6
    <3> QED BY <3>3, <1>1
  <2> QED BY <2>1, <2>2, <1>4
<1> QED BY <1>1, <1>3, <1>5, <1>6 DEF u

\* A list with one more element in front
LEMMA ConsFacts ==
  ASSUME NEW S, NEW s \in Seq(S), NEW x \in S
  PROVE  /\ <<x>> \o s \in Seq(S)
         /\ Range(<<x>> \o s) = {x} \cup Range(s)
         /\ IsInjective(s) /\ x \notin Range(s) => IsInjective(<<x>> \o s)
<1> DEFINE o == <<x>>
<1>1. o \in Seq(S) /\ Range(o) = {x} /\ IsInjective(o)
  BY DEF Range, IsInjective
<1> HIDE DEF o
<1>2. Range(o) \cap Range(s) = {} <=> x \notin Range(s)
  BY <1>1
<1>3. /\ o \o s \in Seq(S)
      /\ Range(o \o s) = Range(o) \cup Range(s)
      /\ IsInjective(o) /\ IsInjective(s) /\ Range(o) \cap Range(s) = {}
           => IsInjective(o \o s)
  BY <1>1, ConcatFacts
<1> QED BY <1>1, <1>2, <1>3 DEF o

\* A list without its first element
LEMMA TailFacts ==
  ASSUME NEW S, NEW s \in Seq(S), s # << >>
  PROVE  /\ s[1] \in Range(s)
         /\ Tail(s) \in Seq(S)
         /\ Range(s) = {s[1]} \cup Range(Tail(s))
         /\ IsInjective(s) => IsInjective(Tail(s)) /\ s[1] \notin Range(Tail(s))
<1> DEFINE t == Tail(s)
           n == Len(s)
<1>1. /\ t \in Seq(S) /\ n \in Nat \ {0} /\ Len(t) = n - 1
      /\ \A i \in 1 .. n - 1 : t[i] = s[i + 1]
  BY HeadTailProperties, EmptySeq, SMTT(30)
<1> HIDE DEF t
<1>2. /\ Range(s) = {s[i] : i \in 1 .. n}
      /\ Range(t) = {t[i] : i \in 1 .. n - 1}
  <2>1. Range(s) = {s[i] : i \in 1 .. n}
    BY RangeFacts
  <2>2. Range(t) = {t[i] : i \in 1 .. n - 1}
    BY <1>1, RangeFacts
  <2> QED BY <2>1, <2>2
<1>3. /\ IsInjective(s) => \A i, j \in 1 .. n : s[i] = s[j] => i = j
      /\ (\A i, j \in 1 .. n - 1 : t[i] = t[j] => i = j) => IsInjective(t)
  BY <1>1, RangeFacts
<1> HIDE DEF t, n
<1>4. /\ 1 \in 1 .. n
      /\ \A i \in 1 .. n - 1 : i + 1 \in 1 .. n /\ i + 1 # 1
      /\ \A i \in 1 .. n : i = 1 \/ (i - 1 \in 1 .. n - 1 /\ (i - 1) + 1 = i)
  BY <1>1
<1>5. Range(s) = {s[1]} \cup Range(t)
  <2>1. Range(t) \subseteq Range(s) /\ s[1] \in Range(s)
    BY <1>1, <1>2, <1>4
  <2>2. ASSUME NEW i \in 1 .. n PROVE s[i] \in {s[1]} \cup Range(t)
    <3>1. i = 1 \/ (i - 1 \in 1 .. n - 1 /\ t[i - 1] = s[i])
      BY <1>1, <1>4
    <3> QED BY <3>1, <1>2
  <2> QED BY <2>1, <2>2, <1>2
<1>6. ASSUME IsInjective(s) PROVE IsInjective(t) /\ s[1] \notin Range(t)
  <2>1. ASSUME NEW i \in 1 .. n - 1, NEW j \in 1 .. n - 1, t[i] = t[j]
        PROVE  i = j
    <3>1. i + 1 = j + 1
      BY <2>1, <1>1, <1>3, <1>4, <1>6
    <3> QED BY <3>1, <1>1
  <2>2. ASSUME NEW i \in 1 .. n - 1 PROVE t[i] # s[1]
    BY <1>1, <1>3, <1>4, <1>6
  <2> QED BY <2>1, <2>2, <1>2, <1>3
<1> QED BY <1>1, <1>2, <1>4, <1>5, <1>6 DEF t

\* A reversed list has the same elements.
LEMMA ReversedFacts ==
  ASSUME NEW S, NEW s \in Seq(S)
  PROVE  /\ Reversed(s) \in Seq(S)
         /\ Range(Reversed(s)) = Range(s)
         /\ IsInjective(s) => IsInjective(Reversed(s))
<1> DEFINE r == Reversed(s)
           n == Len(s)
<1>1. /\ n \in Nat
      /\ \A i \in 1 .. n : n + 1 - i \in 1 .. n /\ n + 1 - (n + 1 - i) = i
  OBVIOUS
<1>2. r \in Seq(S) /\ Len(r) = n /\ \A i \in 1 .. n : r[i] = s[n + 1 - i]
  BY <1>1 DEF Reversed
<1>3. Range(s) = {s[i] : i \in 1 .. n} /\ Range(r) = {r[i] : i \in 1 .. n}
  BY <1>2, RangeFacts
<1>4. /\ IsInjective(s) => \A i, j \in 1 .. n : s[i] = s[j] => i = j
      /\ (\A i, j \in 1 .. n : r[i] = r[j] => i = j) => IsInjective(r)
  BY <1>2, RangeFacts
<1> HIDE DEF r, n
<1>5. Range(r) = Range(s)
  BY <1>1, <1>2, <1>3
<1>6. ASSUME IsInjective(s), NEW i \in 1 .. n, NEW j \in 1 .. n, r[i] = r[j]
      PROVE  i = j
  <2>1. n + 1 - i = n + 1 - j
    BY <1>1, <1>2, <1>4, <1>6
  <2> QED BY <2>1, <1>1
<1> QED BY <1>2, <1>4, <1>5, <1>6 DEF r

\* How often an element occurs in a list without repetition
LEMMA OccurrencesFacts ==
  ASSUME NEW S, NEW s \in Seq(S), IsInjective(s), NEW b
  PROVE  Occurrences(s, b) = IF b \in Range(s) THEN 1 ELSE 0
<1> DEFINE at == {i \in DOMAIN s : s[i] = b}
<1>1. CASE b \notin Range(s)
  <2>1. at = {}
    BY <1>1 DEF Range
  <2> QED BY <2>1, <1>1, FS_EmptySet DEF Occurrences
<1>2. CASE b \in Range(s)
  <2>1. PICK i \in DOMAIN s : s[i] = b
    BY <1>2 DEF Range
  <2>2. at = {i}
    BY <2>1 DEF IsInjective
  <2> QED BY <2>2, <1>2, FS_Singleton DEF Occurrences
<1> QED BY <1>1, <1>2

\* A list without repetition cut in two
LEMMA SplitFacts ==
  ASSUME NEW S, NEW s \in Seq(S), IsInjective(s), NEW n \in 0 .. Len(s)
  PROVE  LET a == SubSeq(s, 1, n)
             b == SubSeq(s, n + 1, Len(s))
         IN  /\ a \in Seq(S) /\ IsInjective(a) /\ Len(a) = n
             /\ b \in Seq(S) /\ IsInjective(b)
             /\ Range(a) \cup Range(b) = Range(s) /\ Range(a) \cap Range(b) = {}
<1> DEFINE a == SubSeq(s, 1, n)
           b == SubSeq(s, n + 1, Len(s))
           l == Len(s)
<1>1. /\ l \in Nat /\ n \in Nat /\ n <= l
      /\ a \in Seq(S) /\ Len(a) = n /\ \A i \in 1 .. n : a[i] = s[i]
      /\ b \in Seq(S) /\ Len(b) = l - n /\ \A i \in 1 .. l - n : b[i] = s[n + i]
  OBVIOUS
<1> HIDE DEF a, b
<1>2. /\ Range(s) = {s[i] : i \in 1 .. l}
      /\ Range(a) = {a[i] : i \in 1 .. n} /\ Range(b) = {b[i] : i \in 1 .. l - n}
  BY <1>1, RangeFacts
<1>3. /\ \A i, j \in 1 .. l : s[i] = s[j] => i = j
      /\ (\A i, j \in 1 .. n : a[i] = a[j] => i = j) => IsInjective(a)
      /\ (\A i, j \in 1 .. l - n : b[i] = b[j] => i = j) => IsInjective(b)
  <2>1. DOMAIN s = 1 .. l /\ DOMAIN a = 1 .. n /\ DOMAIN b = 1 .. l - n
    BY <1>1
  <2> QED BY <2>1 DEF IsInjective
<1> HIDE DEF l
<1>4. IsInjective(a)
  BY <1>1, <1>3
<1>5. IsInjective(b)
  <2>1. \A i \in 1 .. l - n : n + i \in 1 .. l
    BY <1>1
  <2>2. ASSUME NEW i \in 1 .. l - n, NEW j \in 1 .. l - n, b[i] = b[j] PROVE i = j
    <3>1. n + i = n + j
      BY <2>1, <2>2, <1>1, <1>3
    <3> QED BY <3>1, <1>1
  <2> QED BY <2>2, <1>3
<1>6. \A i \in 1 .. l : i \in 1 .. n \/ (i - n \in 1 .. l - n /\ n + (i - n) = i)
  BY <1>1
<1>7. Range(a) \cup Range(b) = Range(s)
  <2>1. \A i \in 1 .. n : i \in 1 .. l
    BY <1>1
  <2>2. \A i \in 1 .. l - n : n + i \in 1 .. l
    BY <1>1
  <2>3. Range(a) \subseteq Range(s)
    BY <2>1, <1>1, <1>2
  <2>4. Range(b) \subseteq Range(s)
    BY <2>2, <1>1, <1>2
  <2>5. ASSUME NEW i \in 1 .. l PROVE s[i] \in Range(a) \cup Range(b)
    <3>1. CASE i \in 1 .. n
      BY <3>1, <1>1, <1>2
    <3>2. CASE i - n \in 1 .. l - n /\ n + (i - n) = i
      <4>1. b[i - n] = s[i]
        BY <3>2, <1>1
      <4> QED BY <4>1, <3>2, <1>2
    <3> QED BY <3>1, <3>2, <1>6
  <2> QED BY <2>3, <2>4, <2>5, <1>2
<1>8. Range(a) \cap Range(b) = {}
  <2>1. ASSUME NEW i \in 1 .. n, NEW j \in 1 .. l - n PROVE a[i] # b[j]
    <3>1. i \in 1 .. l /\ n + j \in 1 .. l /\ i # n + j
      BY <1>1
    <3> QED BY <3>1, <1>1, <1>3
  <2> QED BY <2>1, <1>2
<1> QED BY <1>1, <1>4, <1>5, <1>7, <1>8 DEF a, b, l

\* A non-empty set of natural numbers has a smallest element.
LEMMA SmallestExists ==
  ASSUME NEW T \in SUBSET Nat, T # {}
  PROVE  \E i \in T : \A j \in T : i <= j
<1> DEFINE R == {ss \in Nat \X Nat : ss[1] < ss[2]}
<1>1. IsWellFoundedOn(R, Nat)
  BY NatLessThanWellFounded, Zenon DEF OpToRel
<1>2. PICK i \in T : \A j \in T : ~ (<<j, i>> \in R)
  <2> HIDE DEF R
  <2> QED BY <1>1, WFMin
<1>3. \A j \in T : ~ (j < i)
  BY <1>2
<1> QED BY <1>3

\* A list without repetition has as many elements as places.
LEMMA CardinalityOfDistinct ==
  ASSUME NEW S, NEW s \in Seq(S), IsInjective(s)
  PROVE  IsFiniteSet(Range(s)) /\ Cardinality(Range(s)) = Len(s)
<1>1. s \in Bijection(1 .. Len(s), Range(s))
  <2>1. s \in [1 .. Len(s) -> Range(s)]
    BY DEF Range
  <2>2. \A i, j \in 1 .. Len(s) : s[i] = s[j] => i = j
    BY RangeFacts
  <2>3. s \in Injection(1 .. Len(s), Range(s))
    BY <2>1, <2>2 DEF Injection, IsInjective
  <2>4. s \in Surjection(1 .. Len(s), Range(s))
    BY <2>1 DEF Surjection, Range
  <2> QED BY <2>3, <2>4 DEF Bijection
<1>2. IsFiniteSet(1 .. Len(s)) /\ Cardinality(1 .. Len(s)) = Len(s)
  <2> DEFINE n == Len(s)
  <2>1. n \in Nat
    OBVIOUS
  <2> HIDE DEF n
  <2>2. IsFiniteSet(1 .. n) /\ Cardinality(1 .. n) = IF 1 > n THEN 0 ELSE n - 1 + 1
    BY <2>1, FS_Interval
  <2> QED BY <2>1, <2>2 DEF n
<1> QED BY <1>1, <1>2, FS_Bijection DEF ExistsBijection

\* Removing the last element of a sequence without repetitions
LEMMA WithoutLast ==
  ASSUME NEW S, NEW s \in Seq(S), IsInjective(s), s # << >>
  PROVE  /\ Len(Without(s, {s[Len(s)]})) = Len(s) - 1
         /\ \A j \in 1 .. Len(s) - 1 : Without(s, {s[Len(s)]})[j] = s[j]
<1> DEFINE l == Len(s)
           k == Kept(s, {s[l]})
           Same(i) == Len(k[i]) = i /\ k[i] \in Seq(S) /\ \A j \in 1 .. i : k[i][j] = s[j]
           T == {n \in Nat : n < l => Same(n)}
<1>1. l \in Nat /\ l > 0 /\ l - 1 \in Nat
  OBVIOUS
<1>2. k[0] = << >>
  BY <1>1, KeptDef
<1>3. ASSUME NEW i \in 1 .. l
      PROVE  k[i] = IF s[i] \in {s[l]} THEN k[i-1] ELSE Append(k[i-1], s[i])
  <2>1. k = [j \in 0 .. l |->
               IF j = 0 THEN << >>
               ELSE IF s[j] \in {s[l]} THEN k[j-1] ELSE Append(k[j-1], s[j])]
    BY KeptDef
  <2>2. i \in 0 .. l /\ i # 0
    BY <1>1
  <2> HIDE DEF k
  <2> QED BY <2>1, <2>2
<1> HIDE DEF k
<1>4. 0 \in T
  <2>1. Len(<< >>) = 0 /\ << >> \in Seq(S)
    OBVIOUS
  <2>2. Same(0)
    BY <2>1, <1>2
  <2> QED BY <2>2
<1>5. ASSUME NEW n \in T PROVE n + 1 \in T
  <2>1. SUFFICES ASSUME n + 1 < l PROVE Same(n + 1)
    OBVIOUS
  <2>2. n \in Nat /\ n + 1 \in 1 .. l /\ n + 1 # l /\ n < l
    BY <1>1, <2>1
  <2>3. Same(n)
    BY <2>2
  <2>4. s[n + 1] # s[l] /\ s[n + 1] \in S
    <3>1. \A i, j \in 1 .. l : s[i] = s[j] => i = j
      BY RangeFacts
    <3>2. l \in 1 .. l
      BY <1>1
    <3>3. s[n + 1] # s[l]
      <4> HIDE DEF l, T, Same
      <4> QED BY <3>1, <3>2, <2>2
    <3>4. \A i \in 1 .. l : s[i] \in S
      OBVIOUS
    <3> QED BY <3>3, <3>4, <2>2
  <2>5. k[n + 1] = Append(k[n], s[n + 1])
    <3>1. n + 1 - 1 = n
      BY <2>2
    <3>2. k[n + 1] = IF s[n + 1] \in {s[l]} THEN k[n + 1 - 1]
                     ELSE Append(k[n + 1 - 1], s[n + 1])
      BY <1>3, <2>2
    <3> QED BY <3>1, <3>2, <2>4
  <2> DEFINE t == k[n]  x == s[n + 1]
  <2>6. t \in Seq(S) /\ Len(t) = n /\ x \in S
    BY <2>3, <2>4
  <2>7. /\ Append(t, x) \in Seq(S) /\ Len(Append(t, x)) = n + 1
        /\ \A j \in 1 .. n + 1 : Append(t, x)[j] = IF j = n + 1 THEN x ELSE t[j]
    <3> HIDE DEF t, x
    <3> QED BY <2>6
  <2>8. \A j \in 1 .. n + 1 : j = n + 1 \/ j \in 1 .. n
    BY <2>2
  <2> QED BY <2>3, <2>5, <2>7, <2>8
<1>6. T = Nat
  <2> HIDE DEF T
  <2>1. T \in SUBSET Nat
    BY DEF T
  <2> QED BY <1>4, <1>5, <2>1, NatSetInduction
<1>7. Same(l - 1)
  BY <1>1, <1>6
<1>8. k[l] = k[l - 1]
  BY <1>1, <1>3
<1>9. Without(s, {s[l]}) = k[l]
  BY DEF Without, k
<1> QED BY <1>7, <1>8, <1>9

\* Of two sequences without repetitions, the one with fewer elements is shorter.
LEMMA FewerElements ==
  ASSUME NEW S, NEW s \in Seq(S), IsInjective(s), NEW t \in Seq(S), IsInjective(t),
         Range(t) \subseteq Range(s)
  PROVE  Len(t) <= Len(s)
<1>1. IsFiniteSet(Range(s)) /\ Cardinality(Range(s)) = Len(s)
  BY CardinalityOfDistinct
<1>2. IsFiniteSet(Range(t)) /\ Cardinality(Range(t)) = Len(t)
  BY CardinalityOfDistinct
<1> QED BY <1>1, <1>2, FS_Subset

-----------------------------------------------------------------------------
\* The manager.

\* The fields of the manager's state, one entry per request in each dict
ManagerShape(m) ==
  /\ {"pool", "blocks", "hashes", "ncached"} \subseteq DOMAIN m
  /\ DOMAIN m.blocks = Reqs
  /\ DOMAIN m.ncached = Reqs

\* Nothing but r's own entries differs between m and n.
OnlyOf(r, m, n) ==
  /\ ManagerShape(n)
  /\ \A s \in Reqs : s # r => n.blocks[s] = m.blocks[s] /\ n.ncached[s] = m.ncached[s]

\* Nobody holds blocks at first.
LEMMA InitManagerShape ==
  /\ ManagerShape(InitManager)
  /\ \A r \in Reqs : InitManager.blocks[r] = << >> /\ InitManager.ncached[r] = Absent
  BY DEF ManagerShape, InitManager

\* Two changes of the same request's entries are one.
LEMMA OnlyOfTransitive ==
  ASSUME NEW r, NEW k, NEW m, NEW n, OnlyOf(r, k, m), OnlyOf(r, m, n)
  PROVE  OnlyOf(r, k, n)
  BY DEF OnlyOf

\* Blocks behind the window are freed from one request only.
LEMMA FreeSkippedOnlyOf ==
  ASSUME NEW m, ManagerShape(m), NEW r \in Reqs, NEW q
  PROVE  OnlyOf(r, m, FreeSkipped(m, r, q))
  BY DEF OnlyOf, ManagerShape, FreeSkipped

\* So are hits taken,
LEMMA TakeHitsOnlyOf ==
  ASSUME NEW m, ManagerShape(m), NEW r \in Reqs, NEW comp
  PROVE  OnlyOf(r, m, TakeHits(m, r, comp))
  BY DEF OnlyOf, ManagerShape, TakeHits

\* new blocks allocated,
LEMMA TakeNewOnlyOf ==
  ASSUME NEW m, ManagerShape(m), NEW r \in Reqs, NEW num
  PROVE  OnlyOf(r, m, TakeNew(m, r, num))
  BY DEF OnlyOf, ManagerShape, TakeNew

\* full blocks put in the cache,
LEMMA CacheFullOnlyOf ==
  ASSUME NEW m, ManagerShape(m), NEW r \in Reqs, NEW q, NEW nc, NEW nf
  PROVE  OnlyOf(r, m, CacheFull(m, r, q, nc, nf))
  BY DEF OnlyOf, ManagerShape, CacheFull

\* and hashes computed.
LEMMA AfterLookupOnlyOf ==
  ASSUME NEW m, ManagerShape(m), NEW r \in Reqs, NEW q
  PROVE  /\ OnlyOf(r, m, AfterLookup(m, r, q))
         /\ AfterLookup(m, r, q).blocks = m.blocks
         /\ AfterLookup(m, r, q).ncached = m.ncached
  BY DEF OnlyOf, ManagerShape, AfterLookup

\* allocate_slots touches the block list and the cached-block count of its own
\* request only, whatever its outcome.
LEMMA AllocateSlotsOnlyOf ==
  ASSUME NEW m, ManagerShape(m), NEW r \in Reqs, NEW q, NEW n, NEW comp,
         NEW lookahead
  PROVE  OnlyOf(r, m, AllocateSlots(m, r, q, n, comp, lookahead).m)
<1> DEFINE freed == FreeSkipped(m, r, q)
           num == NumNewBlocks(freed, r, q, n, comp, lookahead)
           hits == TakeHits(freed, r, comp)
           got == IF num <= 0 THEN 0 ELSE NumAllocated(hits, r, num)
           taken == TakeNew(hits, r, got)
           nc == NumCached(m, r, comp)
           nf == NumFull(q, q.computed + Len(comp) * BlockSize, n)
           cached == CacheFull(taken, r, q, nc, nf)
<1>1. AllocateSlots(m, r, q, n, comp, lookahead).m \in {freed, hits, taken, cached}
  BY Zenon DEF AllocateSlots
<1>2. OnlyOf(r, m, freed)
  BY FreeSkippedOnlyOf
<1> HIDE DEF freed, num
<1>3. OnlyOf(r, m, hits)
  BY <1>2, TakeHitsOnlyOf, OnlyOfTransitive DEF OnlyOf
<1> HIDE DEF hits, got, nc, nf
<1>4. OnlyOf(r, m, taken)
  BY <1>3, TakeNewOnlyOf, OnlyOfTransitive DEF OnlyOf
<1> HIDE DEF taken
<1>5. OnlyOf(r, m, cached)
  BY <1>4, CacheFullOnlyOf, OnlyOfTransitive DEF OnlyOf
<1> QED BY <1>1, <1>2, <1>3, <1>4, <1>5

\* allocate_slots gives a request nothing when there is no space for it all.
LEMMA AllocateSlotsFull ==
  ASSUME NEW m, ManagerShape(m), NEW r \in Reqs, NEW q, NEW n, NEW comp,
         NEW lookahead, m.blocks[r] = << >>,
         AllocateSlots(m, r, q, n, comp, lookahead).outcome = "full"
  PROVE  LET full == AllocateSlots(m, r, q, n, comp, lookahead).m
         IN  full.blocks[r] = << >> /\ full.ncached[r] = m.ncached[r]
<1>1. AllocateSlots(m, r, q, n, comp, lookahead).m = FreeSkipped(m, r, q)
  BY DEF AllocateSlots
<1>2. /\ FreeSkipped(m, r, q).blocks[r] = << >>
      /\ FreeSkipped(m, r, q).ncached[r] = m.ncached[r]
  BY DEF FreeSkipped, ManagerShape
<1> QED BY <1>1, <1>2

\* free leaves a request without blocks and without a cached-block count.
LEMMA FreeOnlyOf ==
  ASSUME NEW m, ManagerShape(m), NEW r \in Reqs
  PROVE  /\ OnlyOf(r, m, Free(m, r))
         /\ Free(m, r).blocks[r] = << >>
         /\ Free(m, r).ncached[r] = Absent
  BY DEF OnlyOf, ManagerShape, Free

\* free_block_hashes forgets the hashes of one request.
LEMMA FreeBlockHashesOnlyOf ==
  ASSUME NEW m, ManagerShape(m), NEW r \in Reqs
  PROVE  /\ ManagerShape(FreeBlockHashes(m, r))
         /\ FreeBlockHashes(m, r).blocks = m.blocks
         /\ FreeBlockHashes(m, r).ncached = m.ncached
  BY DEF ManagerShape, FreeBlockHashes

\* reset_prefix_cache takes no block from a request.
LEMMA ResetCacheOnlyOf ==
  ASSUME NEW m, ManagerShape(m)
  PROVE  /\ ManagerShape(ResetCache(m))
         /\ ResetCache(m).blocks = m.blocks
         /\ ResetCache(m).ncached = m.ncached
  BY DEF ManagerShape, ResetCache
-----------------------------------------------------------------------------
\* The block pool: free queue, reference counts and prefix cache

\* The blocks that requests can hold
Usable == Blocks \ {NullBlock}

\* The fields of the pool and what they hold
PoolShape(p) ==
  /\ {"ref", "hash", "free", "cached"} \subseteq DOMAIN p
  /\ p.ref \in [Blocks -> Nat]
  /\ DOMAIN p.hash = Blocks
  /\ p.free \in Seq(Blocks)
  /\ \A h \in DOMAIN p.cached : p.cached[h] \in Seq(Blocks)

PoolInv(p) ==
  /\ PoolShape(p)
  /\ FreeQueueExact(p)
  /\ CacheExact(p)
  /\ ~ EnableCaching => \A b \in Blocks : p.hash[b] = NoHash

\* At first every block but the null block is free, and none is cached.
LEMMA InitPoolInv == PoolInv(InitPool)
<1>1. NumGpuBlocks \in Nat \ {0} /\ NullBlock \in Blocks
  BY PoolAssumption DEF Blocks, NullBlock
<1>2. PoolShape(InitPool)
  BY <1>1 DEF PoolShape, InitPool, Blocks
<1>3. FreeQueueExact(InitPool)
  <2>1. InitPool.free = [i \in 1 .. NumGpuBlocks - 1 |-> i]
    BY DEF InitPool
  <2>2. Range(InitPool.free) = 1 .. NumGpuBlocks - 1 /\ IsInjective(InitPool.free)
    BY <2>1 DEF Range, IsInjective
  <2>3. {b \in Blocks \ {NullBlock} : InitPool.ref[b] = 0} = 1 .. NumGpuBlocks - 1
    BY <1>1 DEF InitPool, Blocks, NullBlock
  <2> QED BY <2>2, <2>3 DEF FreeQueueExact
<1>4. CacheExact(InitPool)
  BY <1>1 DEF CacheExact, InitPool
<1> QED BY <1>2, <1>3, <1>4 DEF PoolInv, InitPool

\* _maybe_evict_cached_block takes the blocks out of the prefix cache and
\* nothing else.
LEMMA EvictedFacts ==
  ASSUME NEW p, PoolInv(p), NEW E \in SUBSET Blocks
  PROVE  LET n == Evicted(p, E)
         IN  /\ PoolInv(n)
             /\ n.ref = p.ref /\ n.free = p.free
             /\ \A b \in Blocks : n.hash[b] = IF b \in E THEN NoHash ELSE p.hash[b]
<1>1. CASE ~ EnableCaching
  BY <1>1 DEF Evicted, PoolInv
<1>2. CASE EnableCaching
  <2> DEFINE n == Evicted(p, E)
             gone(h) == {b \in E : p.hash[b] = h}
  <2>1. PoolShape(p) /\ CacheExact(p)
    BY DEF PoolInv
  <2>2. /\ n.ref = p.ref /\ n.free = p.free
        /\ {"ref", "hash", "free", "cached"} \subseteq DOMAIN n
        /\ n.hash = [b \in Blocks |-> IF b \in E THEN NoHash ELSE p.hash[b]]
        /\ n.cached = Uncached(p, E)
    BY <1>2, <2>1 DEF PoolShape, Evicted, EvictCached
  <2>3. /\ DOMAIN n.cached = {g \in DOMAIN p.cached : ~ (Range(p.cached[g]) \subseteq gone(g))}
        /\ \A h \in DOMAIN n.cached : n.cached[h] = Without(p.cached[h], gone(h))
    BY <2>2 DEF Uncached
  <2> HIDE DEF n
  <2>4. ASSUME NEW h \in DOMAIN n.cached
        PROVE  /\ h \in DOMAIN p.cached /\ ~ (Range(p.cached[h]) \subseteq gone(h))
               /\ n.cached[h] \in Seq(Blocks) /\ IsInjective(n.cached[h])
               /\ Range(n.cached[h]) = Range(p.cached[h]) \ gone(h)
    <3>1. /\ h \in DOMAIN p.cached /\ ~ (Range(p.cached[h]) \subseteq gone(h))
          /\ n.cached[h] = Without(p.cached[h], gone(h))
      BY <2>3
    <3>2. p.cached[h] \in Seq(Blocks) /\ IsInjective(p.cached[h])
      BY <3>1, <2>1 DEF PoolShape, CacheExact
    <3> HIDE DEF gone
    <3> QED BY <3>1, <3>2, WithoutFacts
  <2>5. ASSUME NEW h \in DOMAIN n.cached
        PROVE  /\ n.cached[h] # << >> /\ h # NoHash
               /\ \A b \in Range(n.cached[h]) : n.hash[b] = h
    <3>1. Range(n.cached[h]) # {}
      BY <2>4
    <3>2. n.cached[h] # << >>
      BY <3>1, <2>4, RangeFacts
    <3>3. \A b \in Range(n.cached[h]) : b \in Blocks /\ b \notin E /\ p.hash[b] = h
      BY <2>1, <2>4, RangeFacts DEF CacheExact
    <3> QED BY <3>2, <3>3, <2>1, <2>2, <2>4 DEF CacheExact
  <2>6. ASSUME NEW b \in Blocks, n.hash[b] # NoHash
        PROVE  n.hash[b] \in DOMAIN n.cached /\ b \in Range(n.cached[n.hash[b]])
    <3> DEFINE h == p.hash[b]
    <3>1. b \notin E /\ n.hash[b] = h
      BY <2>2, <2>6
    <3>2. h \in DOMAIN p.cached /\ b \in Range(p.cached[h])
      BY <3>1, <2>1, <2>6 DEF CacheExact
    <3> QED BY <3>1, <3>2, <2>3, <2>4
  <2>7. PoolShape(n)
    BY <2>1, <2>2, <2>4 DEF PoolShape
  <2>8. CacheExact(n)
    <3>1. n.hash[NullBlock] = NoHash
      BY <2>1, <2>2, PoolAssumption DEF CacheExact, NullBlock, Blocks
    <3>2. \A h \in DOMAIN n.cached : IsInjective(n.cached[h])
      BY <2>4
    <3> QED BY <3>1, <3>2, <2>5, <2>6 DEF CacheExact
  <2>9. FreeQueueExact(n)
    BY <2>2 DEF PoolInv, FreeQueueExact
  <2> QED BY <1>2, <2>2, <2>7, <2>8, <2>9 DEF PoolInv, n
<1> QED BY <1>1, <1>2

\* get_new_blocks: the blocks taken are the next free ones, which nobody holds.
LEMMA GetNewBlocksFacts ==
  ASSUME NEW p, PoolInv(p), NEW n \in 0 .. NumFreeBlocks(p)
  PROVE  LET new == NewBlocks(p, n)
             q == GetNewBlocks(p, n)
         IN  /\ PoolInv(q)
             /\ new \in Seq(Usable) /\ IsInjective(new)
             /\ \A b \in Range(new) : p.ref[b] = 0
             /\ \A b \in Blocks :
                  /\ q.ref[b] = IF b \in Range(new) THEN p.ref[b] + 1 ELSE p.ref[b]
                  /\ q.hash[b] = IF b \in Range(new) THEN NoHash ELSE p.hash[b]
<1> DEFINE new == NewBlocks(p, n)
           rest == SubSeq(p.free, n + 1, Len(p.free))
           e == Evicted(p, Range(new))
           q == GetNewBlocks(p, n)
<1>1. PoolShape(p) /\ FreeQueueExact(p)
  BY DEF PoolInv
<1>2. /\ p.free \in Seq(Blocks) /\ IsInjective(p.free) /\ n \in 0 .. Len(p.free)
      /\ Range(p.free) = {b \in Usable : p.ref[b] = 0}
  BY <1>1 DEF PoolShape, FreeQueueExact, NumFreeBlocks, Usable
<1>3. /\ new \in Seq(Blocks) /\ IsInjective(new)
      /\ rest \in Seq(Blocks) /\ IsInjective(rest)
      /\ Range(new) \cup Range(rest) = Range(p.free)
      /\ Range(new) \cap Range(rest) = {}
  BY <1>2, SplitFacts DEF NewBlocks
<1>4. Range(new) \subseteq Usable /\ \A b \in Range(new) : p.ref[b] = 0
  BY <1>2, <1>3
<1>5. new \in Seq(Usable)
  BY <1>3, <1>4, RangeFacts
<1>6. /\ PoolInv(e) /\ e.ref = p.ref /\ e.free = p.free
      /\ \A b \in Blocks : e.hash[b] = IF b \in Range(new) THEN NoHash ELSE p.hash[b]
  BY <1>4, EvictedFacts DEF Usable
<1>7. q = [e EXCEPT !.free = SubSeq(@, n + 1, Len(@)),
                    !.ref = [b \in Blocks |-> IF b \in Range(new) THEN @[b] + 1 ELSE @[b]]]
  BY Zenon DEF GetNewBlocks
<1> HIDE DEF q, e
<1>8. /\ {"ref", "hash", "free", "cached"} \subseteq DOMAIN q
      /\ q.free = rest /\ q.hash = e.hash /\ q.cached = e.cached
      /\ q.ref = [b \in Blocks |-> IF b \in Range(new) THEN p.ref[b] + 1 ELSE p.ref[b]]
  BY <1>6, <1>7 DEF PoolInv, PoolShape
<1> HIDE DEF new, rest
<1>9. PoolShape(q)
  BY <1>1, <1>3, <1>6, <1>8 DEF PoolInv, PoolShape
<1>10. FreeQueueExact(q)
  <2>1. {b \in Usable : q.ref[b] = 0} = Range(p.free) \ Range(new)
    BY <1>1, <1>2, <1>8 DEF PoolShape, Usable
  <2> QED BY <2>1, <1>3, <1>8 DEF FreeQueueExact, Usable
<1>11. CacheExact(q)
  BY <1>6, <1>8 DEF PoolInv, CacheExact
<1>12. PoolInv(q)
  BY <1>6, <1>8, <1>9, <1>10, <1>11 DEF PoolInv
<1> QED BY <1>3, <1>4, <1>5, <1>6, <1>8, <1>12 DEF q, new

\* touch: the hit blocks are held once more and are no candidates for eviction.
LEMMA TouchFacts ==
  ASSUME NEW p, PoolInv(p), NEW bs \in Seq(Usable), IsInjective(bs)
  PROVE  LET q == Touch(p, bs)
         IN  /\ PoolInv(q) /\ q.hash = p.hash
             /\ \A b \in Blocks :
                  q.ref[b] = IF b \in Range(bs) THEN p.ref[b] + 1 ELSE p.ref[b]
<1> DEFINE q == Touch(p, bs)
           idle == {b \in Range(bs) : p.ref[b] = 0 /\ b # NullBlock}
<1>1. PoolShape(p) /\ FreeQueueExact(p)
  BY DEF PoolInv
<1>2. /\ {"ref", "hash", "free", "cached"} \subseteq DOMAIN q
      /\ q.free = Without(p.free, idle) /\ q.hash = p.hash /\ q.cached = p.cached
      /\ q.ref = [b \in Blocks |-> p.ref[b] + Occurrences(bs, b)]
  BY <1>1 DEF Touch, PoolShape
<1> HIDE DEF q
<1>3. \A b \in Blocks : q.ref[b] = IF b \in Range(bs) THEN p.ref[b] + 1 ELSE p.ref[b]
  <2> SUFFICES ASSUME NEW b \in Blocks
               PROVE  q.ref[b] = IF b \in Range(bs) THEN p.ref[b] + 1 ELSE p.ref[b]
    OBVIOUS
  <2>1. Occurrences(bs, b) = IF b \in Range(bs) THEN 1 ELSE 0
    BY OccurrencesFacts
  <2> QED BY <2>1, <1>1, <1>2 DEF PoolShape
<1>4. /\ q.free \in Seq(Blocks) /\ IsInjective(q.free)
      /\ Range(q.free) = Range(p.free) \ idle
  <2>1. p.free \in Seq(Blocks) /\ IsInjective(p.free)
    BY <1>1 DEF PoolShape, FreeQueueExact
  <2> HIDE DEF idle
  <2> QED BY <2>1, <1>2, WithoutFacts
<1>5. q.ref \in [Blocks -> Nat]
  <2>1. \A b \in Blocks : q.ref[b] \in Nat
    BY <1>1, <1>3 DEF PoolShape
  <2> QED BY <2>1, <1>2
<1>6. PoolShape(q)
  BY <1>1, <1>2, <1>4, <1>5 DEF PoolShape
<1>7. FreeQueueExact(q)
  <2>1. Range(bs) \subseteq Usable
    BY RangeFacts
  <2>2. {b \in Usable : q.ref[b] = 0} = {b \in Usable : p.ref[b] = 0} \ idle
    BY <2>1, <1>1, <1>3 DEF PoolShape, Usable
  <2> QED BY <2>2, <1>1, <1>4 DEF FreeQueueExact, Usable
<1>8. CacheExact(q)
  BY <1>2 DEF PoolInv, CacheExact
<1> QED BY <1>2, <1>3, <1>6, <1>7, <1>8 DEF PoolInv, q

\* free_blocks: a block that nobody else holds becomes a candidate for eviction.
LEMMA FreeBlocksFacts ==
  ASSUME NEW p, PoolInv(p), NEW bs \in Seq(Usable), IsInjective(bs),
         \A b \in Range(bs) : p.ref[b] # 0
  PROVE  LET q == FreeBlocks(p, bs)
         IN  /\ PoolInv(q) /\ q.hash = p.hash
             /\ \A b \in Blocks :
                  q.ref[b] = IF b \in Range(bs) THEN p.ref[b] - 1 ELSE p.ref[b]
<1> DEFINE q == FreeBlocks(p, bs)
           held == {b \in Blocks : p.ref[b] # Occurrences(bs, b)}
           left == Without(bs, held \cup {NullBlock})
<1>1. PoolShape(p) /\ FreeQueueExact(p)
  BY DEF PoolInv
<1>2. /\ {"ref", "hash", "free", "cached"} \subseteq DOMAIN q
      /\ q.free = p.free \o left /\ q.hash = p.hash /\ q.cached = p.cached
      /\ q.ref = [b \in Blocks |-> p.ref[b] - Occurrences(bs, b)]
  BY <1>1 DEF FreeBlocks, PoolShape
<1> HIDE DEF q
<1>3. \A b \in Blocks : Occurrences(bs, b) = IF b \in Range(bs) THEN 1 ELSE 0
  BY OccurrencesFacts
<1>4. Range(bs) \subseteq Usable
  BY RangeFacts
<1>5. \A b \in Blocks : /\ q.ref[b] = IF b \in Range(bs) THEN p.ref[b] - 1 ELSE p.ref[b]
                        /\ q.ref[b] \in Nat
  BY <1>1, <1>2, <1>3 DEF PoolShape
<1>6. /\ left \in Seq(Usable) /\ IsInjective(left)
      /\ Range(left) = {b \in Range(bs) : p.ref[b] = 1}
  <2>1. /\ left \in Seq(Usable) /\ IsInjective(left)
        /\ Range(left) = Range(bs) \ (held \cup {NullBlock})
    <3> HIDE DEF held
    <3> QED BY WithoutFacts
  <2>2. \A b \in Range(bs) : b \in held <=> p.ref[b] # 1
    BY <1>3, <1>4 DEF Usable
  <2> HIDE DEF held, left
  <2> QED BY <2>1, <2>2, <1>4 DEF Usable
<1> HIDE DEF left
<1>7. /\ q.free \in Seq(Blocks) /\ IsInjective(q.free)
      /\ Range(q.free) = Range(p.free) \cup {b \in Range(bs) : p.ref[b] = 1}
  <2>1. left \in Seq(Blocks)
    BY <1>6 DEF Usable
  <2>2. p.free \in Seq(Blocks) /\ IsInjective(p.free)
    BY <1>1 DEF PoolShape, FreeQueueExact
  <2>3. Range(p.free) \cap Range(left) = {}
    BY <1>1, <1>6 DEF FreeQueueExact
  <2> QED BY <2>1, <2>2, <2>3, <1>2, <1>6, ConcatFacts
<1>8. PoolShape(q)
  BY <1>1, <1>2, <1>5, <1>7 DEF PoolShape
<1>9. FreeQueueExact(q)
  <2>1. {b \in Usable : q.ref[b] = 0}
          = {b \in Usable : p.ref[b] = 0} \cup {b \in Range(bs) : p.ref[b] = 1}
    BY <1>1, <1>4, <1>5 DEF PoolShape, Usable
  <2> QED BY <2>1, <1>1, <1>7 DEF FreeQueueExact, Usable
<1>10. CacheExact(q)
  BY <1>2 DEF PoolInv, CacheExact
<1> QED BY <1>2, <1>5, <1>8, <1>9, <1>10 DEF PoolInv, q

\* A hash of the first i blocks of a request's tokens: hashes of different
\* numbers of blocks differ.
HashAt(h, i) == h # NoHash /\ Len(h[2]) = i * BlockSize

\* Two places of a chain have different hashes.
LEMMA HashAtInjective ==
  ASSUME NEW h, NEW i \in Int, NEW j \in Int, HashAt(h, i), HashAt(h, j)
  PROVE  i = j
<1>1. i * BlockSize = j * BlockSize /\ BlockSize \in Nat \ {0}
  BY ManagerAssumption DEF HashAt
<1> QED BY <1>1

\* cache_full_blocks puts the full blocks into the prefix cache, each under the
\* hash of its own place.
LEMMA CacheFullBlocksFacts ==
  ASSUME EnableCaching, NEW p, PoolInv(p), NEW bs \in Seq(Usable), IsInjective(bs),
         NEW hs, NEW nc \in Int, NEW nf \in Int,
         \A i \in (nc + 1 .. nf) \cap DOMAIN bs :
            HashAt(hs[i], i) /\ p.hash[bs[i]] = NoHash
  PROVE  LET q == CacheFullBlocks(p, bs, hs, nc, nf)
         IN  /\ PoolInv(q) /\ q.ref = p.ref
             /\ \A b \in Blocks :
                  \/ q.hash[b] = p.hash[b]
                  \/ \E i \in DOMAIN bs : bs[i] = b /\ HashAt(q.hash[b], i)
             /\ \A i \in (nc + 1 .. nf) \cap DOMAIN bs : q.hash[bs[i]] = hs[i]
             /\ \A b \in Blocks :
                  (\A i \in (nc + 1 .. nf) \cap DOMAIN bs : bs[i] # b)
                    => q.hash[b] = p.hash[b]
<1> DEFINE new == (nc + 1 .. nf) \cap DOMAIN bs
           at(h) == {i \in new : hs[i] = h}
           old(h) == IF h \in DOMAIN p.cached THEN p.cached[h] ELSE << >>
           of(b) == {i \in new : bs[i] = b}
           q == CacheFullBlocks(p, bs, hs, nc, nf)
<1>1. PoolShape(p) /\ FreeQueueExact(p) /\ CacheExact(p)
  BY DEF PoolInv
<1>2. /\ {"ref", "hash", "free", "cached"} \subseteq DOMAIN q
      /\ q.free = p.free /\ q.ref = p.ref
      /\ q.hash = [b \in Blocks |-> IF of(b) = {} THEN p.hash[b]
                                    ELSE hs[CHOOSE i \in of(b) : TRUE]]
      /\ q.cached = [h \in DOMAIN p.cached \cup {hs[i] : i \in new} |->
                       IF at(h) = {} THEN old(h)
                       ELSE Append(old(h), bs[CHOOSE i \in at(h) : TRUE])]
  BY <1>1 DEF CacheFullBlocks, PoolShape
<1>3. \A i \in new : /\ i \in Int /\ i \in DOMAIN bs /\ bs[i] \in Usable
                     /\ HashAt(hs[i], i) /\ hs[i] # NoHash /\ p.hash[bs[i]] = NoHash
  BY DEF HashAt
<1> HIDE DEF q, new
\* a place has one block, and one hash
<1>4. \A i \in new : of(bs[i]) = {i} /\ at(hs[i]) = {i}
  <2> SUFFICES ASSUME NEW i \in new PROVE of(bs[i]) = {i} /\ at(hs[i]) = {i}
    OBVIOUS
  <2>1. \A j \in new : bs[j] = bs[i] => j = i
    BY <1>3 DEF IsInjective
  <2>2. \A j \in new : hs[j] = hs[i] => j = i
    BY <1>3, HashAtInjective
  <2> QED BY <2>1, <2>2
<1>5. ASSUME NEW i \in new
      PROVE  /\ q.hash[bs[i]] = hs[i]
             /\ hs[i] \in DOMAIN q.cached
             /\ q.cached[hs[i]] = Append(old(hs[i]), bs[i])
  <2>1. of(bs[i]) = {i} /\ at(hs[i]) = {i}
    BY <1>4
  <2>2. (CHOOSE k \in of(bs[i]) : TRUE) = i /\ (CHOOSE k \in at(hs[i]) : TRUE) = i
    BY <2>1
  <2>3. bs[i] \in Blocks /\ hs[i] \in DOMAIN p.cached \cup {hs[k] : k \in new}
    BY <1>3 DEF Usable
  <2>4. q.hash[bs[i]] = hs[CHOOSE k \in of(bs[i]) : TRUE]
    BY <2>1, <2>3, <1>2
  <2>5. /\ hs[i] \in DOMAIN q.cached
        /\ q.cached[hs[i]] = Append(old(hs[i]), bs[CHOOSE k \in at(hs[i]) : TRUE])
    BY <2>1, <2>3, <1>2
  <2> QED BY <2>2, <2>4, <2>5
<1>6. ASSUME NEW b \in Blocks, \A i \in new : bs[i] # b
      PROVE  q.hash[b] = p.hash[b]
  BY <1>2, <1>6
<1>7. ASSUME NEW h \in DOMAIN q.cached, \A i \in new : hs[i] # h
      PROVE  h \in DOMAIN p.cached /\ q.cached[h] = p.cached[h]
  BY <1>2, <1>7
<1>8. DOMAIN q.cached = DOMAIN p.cached \cup {hs[i] : i \in new}
  BY <1>2
<1> HIDE DEF of, at
<1>9. ASSUME NEW h
      PROVE  /\ old(h) \in Seq(Blocks) /\ IsInjective(old(h))
             /\ \A b \in Range(old(h)) : b \in Blocks /\ p.hash[b] = h /\ h # NoHash
  <2>1. CASE h \in DOMAIN p.cached
    BY <2>1, <1>1, RangeFacts DEF PoolShape, CacheExact
  <2>2. CASE h \notin DOMAIN p.cached
    BY <2>2 DEF IsInjective, Range
  <2> QED BY <2>1, <2>2
<1>10. ASSUME NEW i \in new
       PROVE  LET c == q.cached[hs[i]]
              IN  /\ c \in Seq(Blocks) /\ IsInjective(c) /\ c # << >>
                  /\ Range(c) = Range(old(hs[i])) \cup {bs[i]}
  <2> DEFINE s == old(hs[i])
  <2>1. s \in Seq(Blocks) /\ IsInjective(s) /\ bs[i] \notin Range(s)
    BY <1>3, <1>9
  <2>2. bs[i] \in Blocks /\ q.cached[hs[i]] = Append(s, bs[i])
    BY <1>3, <1>5 DEF Usable
  <2> HIDE DEF s
  <2> DEFINE a == Append(s, bs[i])
  <2>3. a \in Seq(Blocks) /\ IsInjective(a) /\ Range(a) = Range(s) \cup {bs[i]}
    BY <2>1, <2>2, AppendFacts
  <2> HIDE DEF a
  <2>4. a # << >>
    BY <2>3, RangeFacts
  <2> QED BY <2>2, <2>3, <2>4 DEF a, s
\* the blocks that had a hash keep it
<1>11. \A b \in Blocks : p.hash[b] # NoHash => q.hash[b] = p.hash[b]
  BY <1>3, <1>6
<1>12. PoolShape(q)
  <2>1. ASSUME NEW h \in DOMAIN q.cached PROVE q.cached[h] \in Seq(Blocks)
    <3>1. CASE \E i \in new : hs[i] = h
      BY <3>1, <1>10
    <3>2. CASE \A i \in new : hs[i] # h
      BY <3>2, <1>1, <1>7 DEF PoolShape
    <3> QED BY <3>1, <3>2
  <2> QED BY <2>1, <1>1, <1>2 DEF PoolShape
<1>13. CacheExact(q)
  <2>1. ASSUME NEW h \in DOMAIN q.cached
        PROVE  /\ IsInjective(q.cached[h]) /\ q.cached[h] # << >> /\ h # NoHash
               /\ \A b \in Range(q.cached[h]) : q.hash[b] = h
    <3>1. CASE \E i \in new : hs[i] = h
      <4>1. PICK i \in new : hs[i] = h
        BY <3>1
      <4>2. \A b \in Range(old(h)) : q.hash[b] = h
        BY <1>9, <1>11, SMTT(30)
      <4> QED BY <4>1, <4>2, <1>3, <1>5, <1>10, SMTT(30)
    <3>2. CASE \A i \in new : hs[i] # h
      <4>1. h \in DOMAIN p.cached /\ q.cached[h] = p.cached[h]
        BY <3>2, <1>7
      <4>2. /\ IsInjective(p.cached[h]) /\ p.cached[h] # << >> /\ h # NoHash
            /\ \A b \in Range(p.cached[h]) : p.hash[b] = h /\ b \in Blocks
        BY <4>1, <1>1, RangeFacts DEF CacheExact, PoolShape
      <4> QED BY <4>1, <4>2, <1>11
    <3> QED BY <3>1, <3>2
  <2>2. ASSUME NEW b \in Blocks, q.hash[b] # NoHash
        PROVE  q.hash[b] \in DOMAIN q.cached /\ b \in Range(q.cached[q.hash[b]])
    <3>1. CASE \E i \in new : bs[i] = b
      <4>1. PICK i \in new : bs[i] = b
        BY <3>1
      <4>2. q.hash[b] = hs[i] /\ hs[i] \in DOMAIN q.cached
        BY <4>1, <1>5
      <4>3. b \in Range(q.cached[hs[i]])
        BY <4>1, <1>10
      <4> QED BY <4>2, <4>3
    <3>2. CASE \A i \in new : bs[i] # b
      <4> DEFINE h == p.hash[b]
      <4>1. q.hash[b] = h
        BY <3>2, <1>6
      <4>2. h \in DOMAIN p.cached /\ b \in Range(p.cached[h])
        BY <4>1, <2>2, <1>1 DEF CacheExact
      <4>3. h \in DOMAIN q.cached /\ old(h) = p.cached[h]
        BY <4>2, <1>8
      <4> HIDE DEF h, old
      <4>4. CASE \E i \in new : hs[i] = h
        BY <4>1, <4>2, <4>3, <4>4, <1>10
      <4>5. CASE \A i \in new : hs[i] # h
        BY <4>1, <4>2, <4>3, <4>5, <1>7
      <4> QED BY <4>4, <4>5
    <3> QED BY <3>1, <3>2
  <2>3. q.hash[NullBlock] = NoHash
    <3>1. NullBlock \in Blocks /\ \A i \in new : bs[i] # NullBlock
      BY <1>3, PoolAssumption DEF Usable, NullBlock, Blocks
    <3> QED BY <3>1, <1>1, <1>6 DEF CacheExact
  <2> QED BY <2>1, <2>2, <2>3 DEF CacheExact
<1>14. FreeQueueExact(q)
  BY <1>1, <1>2 DEF FreeQueueExact
<1>15. ASSUME NEW b \in Blocks
       PROVE  \/ q.hash[b] = p.hash[b]
              \/ \E i \in DOMAIN bs : bs[i] = b /\ HashAt(q.hash[b], i)
  BY <1>3, <1>5, <1>6
<1>16. PoolInv(q)
  BY <1>2, <1>12, <1>13, <1>14 DEF PoolInv
<1> QED BY <1>2, <1>5, <1>6, <1>15, <1>16 DEF q, new

\* reset_prefix_cache empties the cache.
LEMMA ResetPrefixCacheFacts ==
  ASSUME NEW p, PoolInv(p)
  PROVE  LET q == ResetPrefixCache(p)
         IN  PoolInv(q) /\ q.ref = p.ref /\ \A b \in Blocks : q.hash[b] = NoHash
<1> DEFINE q == ResetPrefixCache(p)
<1>1. /\ {"ref", "hash", "free", "cached"} \subseteq DOMAIN q
      /\ q.free = p.free /\ q.ref = p.ref
      /\ q.hash = [b \in Blocks |-> NoHash] /\ DOMAIN q.cached = {}
  BY DEF PoolInv, PoolShape, ResetPrefixCache
<1> HIDE DEF q
<1>2. PoolShape(q) /\ FreeQueueExact(q)
  BY <1>1 DEF PoolInv, PoolShape, FreeQueueExact
<1>3. CacheExact(q)
  BY <1>1, PoolAssumption DEF CacheExact, NullBlock, Blocks
<1> QED BY <1>1, <1>2, <1>3 DEF PoolInv, q

-----------------------------------------------------------------------------
\* The manager: who holds which block, and where

\* The hashes of a request, each of its own place
Chain(hs) == /\ \E S : hs \in Seq(S)
             /\ \A i \in DOMAIN hs : HashAt(hs[i], i)

\* A cached block has the hash of its place.
FitsAt(p, b, i) == p.hash[b] = NoHash \/ HashAt(p.hash[b], i)

\* A block is at one place only in the lists of all requests that hold it, and
\* if it is cached this is the place its hash is of.
Placed(m) ==
  /\ \A r, s \in Reqs : \A i \in DOMAIN m.blocks[r], j \in DOMAIN m.blocks[s] :
        m.blocks[r][i] = m.blocks[s][j] => i = j
  /\ \A r \in Reqs : \A i \in DOMAIN m.blocks[r] : FitsAt(m.pool, m.blocks[r][i], i)

\* Without a sliding window no request holds the null block.
ManagerInv(m) ==
  /\ ManagerShape(m)
  /\ PoolInv(m.pool)
  /\ \A r \in Reqs : m.blocks[r] \in Seq(Usable) /\ m.ncached[r] \in Int
  /\ DOMAIN m.hashes = Reqs /\ \A r \in Reqs : Chain(m.hashes[r])
  /\ RefCountsExact(m)
  /\ Placed(m)

\* The blocks of a request are distinct, and counted as held.
LEMMA HeldFacts ==
  ASSUME NEW m, ManagerInv(m), NEW r \in Reqs
  PROVE  /\ m.blocks[r] \in Seq(Usable) /\ IsInjective(m.blocks[r])
         /\ Range(m.blocks[r]) \subseteq Usable
         /\ \A b \in Range(m.blocks[r]) : m.pool.ref[b] # 0
<1>1. m.blocks[r] \in Seq(Usable) /\ IsInjective(m.blocks[r])
  BY DEF ManagerInv, Placed, IsInjective
<1>2. Range(m.blocks[r]) \subseteq Usable
  BY <1>1, RangeFacts
<1>3. ASSUME NEW b \in Range(m.blocks[r]) PROVE m.pool.ref[b] # 0
  <2>1. m.pool.ref[b] = Cardinality(Holders(m, b)) /\ r \in Holders(m, b)
    BY <1>2, <1>3 DEF ManagerInv, RefCountsExact, Usable, Holders
  <2>2. IsFiniteSet(Holders(m, b))
    BY ManagerAssumption, FS_Subset DEF Holders
  <2> QED BY <2>1, <2>2, FS_EmptySet
<1> QED BY <1>1, <1>2, <1>3

\* The list of one request is replaced, and the counts follow.
LEMMA RefCountsFollow ==
  ASSUME NEW m, RefCountsExact(m), NEW n, NEW r \in Reqs,
         \A s \in Reqs : s # r => n.blocks[s] = m.blocks[s],
         Placed(n),
         \A b \in Usable :
            n.pool.ref[b] = IF b \in Range(n.blocks[r]) \ Range(m.blocks[r])
                            THEN m.pool.ref[b] + 1
                            ELSE IF b \in Range(m.blocks[r]) \ Range(n.blocks[r])
                            THEN m.pool.ref[b] - 1 ELSE m.pool.ref[b]
  PROVE  RefCountsExact(n)
<1>1. \A s \in Reqs : DistinctOutside(n.blocks[s], {NullBlock})
  BY DEF Placed, DistinctOutside
<1>2. ASSUME NEW b \in Usable
      PROVE  n.pool.ref[b] = Cardinality(Holders(n, b))
  <2>1. IsFiniteSet(Holders(m, b))
    BY ManagerAssumption, FS_Subset DEF Holders
  <2>2. m.pool.ref[b] = Cardinality(Holders(m, b))
    BY DEF RefCountsExact, Usable
  <2>3. CASE b \in Range(n.blocks[r])
    <3>1. Holders(n, b) = Holders(m, b) \cup {r}
      BY <2>3 DEF Holders
    <3>2. r \in Holders(m, b) <=> b \in Range(m.blocks[r])
      BY DEF Holders
    <3> QED BY <3>1, <3>2, <2>1, <2>2, <2>3, FS_AddElement
  <2>4. CASE b \notin Range(n.blocks[r])
    <3>1. Holders(n, b) = Holders(m, b) \ {r}
      BY <2>4 DEF Holders
    <3>2. r \in Holders(m, b) <=> b \in Range(m.blocks[r])
      BY DEF Holders
    <3>3. Cardinality(Holders(m, b) \ {r})
            = IF r \in Holders(m, b) THEN Cardinality(Holders(m, b)) - 1
              ELSE Cardinality(Holders(m, b))
      BY <2>1, FS_RemoveElement
    <3> QED BY <3>1, <3>2, <3>3, <2>2, <2>4
  <2> QED BY <2>3, <2>4
<1> QED BY <1>1, <1>2 DEF RefCountsExact, Usable

\* Nobody holds anything at first.
LEMMA InitManagerInv == ManagerInv(InitManager)
<1> DEFINE m == InitManager
<1>1. /\ m.pool = InitPool /\ ManagerShape(m) /\ DOMAIN m.hashes = Reqs
      /\ \A r \in Reqs : m.blocks[r] = << >> /\ m.hashes[r] = << >> /\ m.ncached[r] = -1
  BY DEF InitManager, ManagerShape, Absent
<1> HIDE DEF m
<1>2. \A r \in Reqs : Chain(m.hashes[r])
  <2>1. << >> \in Seq({}) /\ DOMAIN << >> = {}
    OBVIOUS
  <2> QED BY <2>1, <1>1 DEF Chain
<1>3. Placed(m)
  BY <1>1 DEF Placed
<1>4. RefCountsExact(m)
  <2>1. \A r \in Reqs : DistinctOutside(m.blocks[r], {NullBlock})
    BY <1>1 DEF DistinctOutside
  <2>2. ASSUME NEW b \in Usable PROVE m.pool.ref[b] = Cardinality(Holders(m, b))
    <3>1. Holders(m, b) = {}
      BY <1>1 DEF Holders, Range
    <3>2. m.pool.ref[b] = 0
      BY <1>1 DEF InitPool, Usable
    <3> QED BY <3>1, <3>2, FS_EmptySet
  <2> QED BY <2>1, <2>2 DEF RefCountsExact, Usable
<1>5. << >> \in Seq(Usable) /\ -1 \in Int
  OBVIOUS
<1>6. ManagerInv(m)
  BY <1>1, <1>2, <1>3, <1>4, <1>5, InitPoolInv DEF ManagerInv
<1> QED BY <1>6 DEF m

\* Without a sliding window no block is skipped.
LEMMA FreeSkippedFacts ==
  ASSUME SlidingWindow = 0, NEW m, ManagerInv(m), NEW r \in Reqs, NEW q
  PROVE  LET n == FreeSkipped(m, r, q)
         IN  /\ ManagerInv(n)
             /\ \A s \in Reqs : n.blocks[s] = m.blocks[s]
             /\ n.hashes = m.hashes /\ n.ncached = m.ncached
             /\ n.pool.hash = m.pool.hash
<1> DEFINE n == FreeSkipped(m, r, q)
           bs == m.blocks[r]
           nulls == [i \in DOMAIN bs |-> NullBlock]
           freed == Reversed(Without(nulls, {NullBlock}))
<1>1. SkippedPositions(bs, q.computed) = {}
  BY DEF SkippedPositions
<1>2. freed = << >>
  <2>1. bs \in Seq(Usable) /\ nulls \in Seq({NullBlock}) /\ Range(nulls) \subseteq {NullBlock}
    BY DEF ManagerInv, Range
  <2> HIDE DEF nulls
  <2> DEFINE w == Without(nulls, {NullBlock})
  <2>2. w \in Seq({NullBlock}) /\ Range(w) = {}
    BY <2>1, WithoutFacts
  <2> HIDE DEF w
  <2>3. w = << >>
    BY <2>2, RangeFacts
  <2>4. Reversed(<< >>) = << >>
    BY DEF Reversed
  <2> QED BY <2>3, <2>4 DEF w
<1>3. /\ {"pool", "blocks", "hashes", "ncached"} \subseteq DOMAIN n
      /\ n.pool = FreeBlocks(m.pool, freed)
      /\ DOMAIN n.blocks = Reqs /\ \A s \in Reqs : n.blocks[s] = m.blocks[s]
      /\ n.hashes = m.hashes /\ n.ncached = m.ncached
  <2>1. [i \in DOMAIN bs |-> IF i \in {} THEN bs[i] ELSE NullBlock] = nulls
    OBVIOUS
  <2>2. [i \in DOMAIN bs |-> IF i \in {} THEN NullBlock ELSE bs[i]] = bs
    BY DEF ManagerInv
  <2>3. n = [m EXCEPT !.pool = FreeBlocks(@, freed),
                      !.blocks[r] = [i \in DOMAIN @ |-> IF i \in {} THEN NullBlock ELSE @[i]]]
    BY <1>1, <2>1 DEF FreeSkipped
  <2> HIDE DEF n, freed
  <2> QED BY <2>2, <2>3 DEF ManagerInv, ManagerShape
<1> HIDE DEF n, freed
<1>4. /\ PoolInv(n.pool) /\ n.pool.hash = m.pool.hash
      /\ \A b \in Blocks : n.pool.ref[b] = m.pool.ref[b]
  <2> DEFINE none == << >>
  <2>1. none \in Seq(Usable) /\ IsInjective(none) /\ Range(none) = {}
    BY DEF IsInjective, Range
  <2>2. n.pool = FreeBlocks(m.pool, none) /\ PoolInv(m.pool)
    BY <1>2, <1>3 DEF ManagerInv
  <2> HIDE DEF none
  <2> QED BY <2>1, <2>2, FreeBlocksFacts
<1>5. Placed(n)
  <2>1. /\ Placed(m) /\ n.pool.hash = m.pool.hash
        /\ \A s \in Reqs : n.blocks[s] = m.blocks[s]
    BY <1>3, <1>4 DEF ManagerInv
  <2> QED BY <2>1 DEF Placed, FitsAt
<1>6. RefCountsExact(n)
  BY <1>3, <1>4, <1>5, RefCountsFollow DEF ManagerInv, Usable
<1> QED BY <1>3, <1>4, <1>5, <1>6 DEF ManagerInv, ManagerShape, n

\* The hits become the first blocks of the request, each at the place its hash
\* is of.
LEMMA TakeHitsKeeps ==
  ASSUME NEW m, ManagerInv(m), NEW r \in Reqs, NEW comp \in Seq(Usable),
         comp = << >> \/ m.blocks[r] = << >>,
         \A i \in DOMAIN comp : HashAt(m.pool.hash[comp[i]], i)
  PROVE  LET n == TakeHits(m, r, comp)
         IN  /\ ManagerInv(n) /\ n.hashes = m.hashes /\ n.ncached = m.ncached
             /\ n.blocks[r] = m.blocks[r] \o comp
             /\ n.blocks[r] = IF comp = << >> THEN m.blocks[r] ELSE comp
             /\ \A s \in Reqs : s # r => n.blocks[s] = m.blocks[s]
             /\ \A b \in Blocks : n.pool.hash[b] = m.pool.hash[b]
<1> DEFINE n == TakeHits(m, r, comp)
<1>1. m.blocks[r] \in Seq(Usable) /\ ManagerShape(m) /\ PoolInv(m.pool) /\ Placed(m)
  BY DEF ManagerInv
<1>2. IsInjective(comp)
  <2>1. \A i \in DOMAIN comp : i \in Int
    OBVIOUS
  <2> QED BY <2>1, HashAtInjective DEF IsInjective
<1>3. ~ EnableCaching => comp = << >>
  <2> SUFFICES ASSUME ~ EnableCaching, comp # << >> PROVE FALSE
    OBVIOUS
  <2>1. 1 \in DOMAIN comp /\ comp[1] \in Blocks
    BY DEF Usable
  <2> QED BY <2>1, <1>1 DEF PoolInv, HashAt
<1>4. /\ {"pool", "blocks", "hashes", "ncached"} \subseteq DOMAIN n
      /\ n.pool = IF EnableCaching THEN Touch(m.pool, comp) ELSE m.pool
      /\ DOMAIN n.blocks = Reqs /\ n.blocks[r] = m.blocks[r] \o comp
      /\ \A s \in Reqs : s # r => n.blocks[s] = m.blocks[s]
      /\ n.hashes = m.hashes /\ n.ncached = m.ncached
  BY <1>1 DEF TakeHits, ManagerShape
<1> HIDE DEF n
<1>5. n.blocks[r] \in Seq(Usable) /\ n.blocks[r] = IF comp = << >> THEN m.blocks[r] ELSE comp
  BY <1>1, <1>4, SMTT(30)
<1>6. /\ PoolInv(n.pool)
      /\ \A b \in Blocks : /\ n.pool.hash[b] = m.pool.hash[b]
                           /\ n.pool.ref[b] = IF b \in Range(comp) THEN m.pool.ref[b] + 1
                                              ELSE m.pool.ref[b]
  <2>1. CASE EnableCaching
    <3>1. n.pool = Touch(m.pool, comp)
      BY <2>1, <1>4
    <3> QED BY <3>1, <1>1, <1>2, TouchFacts
  <2>2. CASE ~ EnableCaching
    <3>1. Range(comp) = {}
      BY <2>2, <1>3, RangeFacts
    <3> QED BY <3>1, <2>2, <1>1, <1>4
  <2> QED BY <2>1, <2>2
<1>7. Placed(n)
  <2>1. CASE comp = << >>
    <3>1. \A s \in Reqs : n.blocks[s] = m.blocks[s] /\ n.blocks[s] \in Seq(Usable)
      BY <2>1, <1>4, <1>5 DEF ManagerInv
    <3>2. \A s \in Reqs : \A i \in DOMAIN n.blocks[s] : n.blocks[s][i] \in Blocks
      BY <3>1 DEF Usable
    <3>3. \A s \in Reqs : \A i \in DOMAIN n.blocks[s] : FitsAt(n.pool, n.blocks[s][i], i)
      BY <3>1, <3>2, <1>1, <1>6, SMTT(30) DEF Placed, FitsAt
    <3> QED BY <3>1, <3>3, <1>1, SMTT(30) DEF Placed
  <2>2. CASE comp # << >>
    <3>1. n.blocks[r] = comp
      BY <2>2, <1>5
    <3>2. \A s \in Reqs : n.blocks[s] \in Seq(Usable)
      BY <1>4, <1>5 DEF ManagerInv
    <3>3. \A s \in Reqs : \A i \in DOMAIN n.blocks[s] : i \in Int /\ n.blocks[s][i] \in Blocks
      BY <3>2 DEF Usable
    <3>4. \A i \in DOMAIN n.blocks[r] : HashAt(n.pool.hash[n.blocks[r][i]], i)
      BY <3>1, <3>3, <1>6
    <3>5. ASSUME NEW s \in Reqs, NEW i \in DOMAIN n.blocks[s]
          PROVE  FitsAt(n.pool, n.blocks[s][i], i)
      <4>1. CASE s = r
        BY <4>1, <3>4 DEF FitsAt
      <4>2. CASE s # r
        <5>1. FitsAt(m.pool, n.blocks[s][i], i) /\ n.blocks[s][i] \in Blocks
          BY <4>2, <3>3, <1>1, <1>4 DEF Placed
        <5> QED BY <5>1, <1>6 DEF FitsAt
      <4> QED BY <4>1, <4>2
    <3>6. ASSUME NEW s \in Reqs, NEW i \in DOMAIN n.blocks[r], NEW j \in DOMAIN n.blocks[s],
                 n.blocks[r][i] = n.blocks[s][j]
          PROVE  i = j
      <4>1. HashAt(n.pool.hash[n.blocks[s][j]], i)
        BY <3>4, <3>6
      <4>2. HashAt(n.pool.hash[n.blocks[s][j]], j)
        BY <4>1, <3>5 DEF HashAt, FitsAt
      <4> QED BY <4>1, <4>2, <3>3, HashAtInjective
    <3>7. ASSUME NEW t \in Reqs, NEW s \in Reqs,
                 NEW i \in DOMAIN n.blocks[t], NEW j \in DOMAIN n.blocks[s],
                 n.blocks[t][i] = n.blocks[s][j]
          PROVE  i = j
      <4>1. CASE t = r
        BY <4>1, <3>6, <3>7
      <4>2. CASE s = r
        BY <4>2, <3>6, <3>7
      <4>3. CASE t # r /\ s # r
        BY <4>3, <3>7, <1>1, <1>4 DEF Placed
      <4> QED BY <4>1, <4>2, <4>3
    <3> QED BY <3>5, <3>7 DEF Placed
  <2> QED BY <2>1, <2>2
<1>8. RefCountsExact(n)
  <2>1. \A b \in Usable : b \in Range(n.blocks[r]) \ Range(m.blocks[r]) <=> b \in Range(comp)
    <3>1. Range(<< >>) = {}
      BY DEF Range
    <3>2. comp # << >> => Range(m.blocks[r]) = {}
      BY <3>1
    <3> QED BY <3>1, <3>2, <1>5
  <2>2. Range(m.blocks[r]) \ Range(n.blocks[r]) = {}
    <3>1. Range(<< >>) = {}
      BY DEF Range
    <3> QED BY <3>1, <1>5
  <2>3. RefCountsExact(m)
    BY DEF ManagerInv
  <2>4. ASSUME NEW b \in Usable
        PROVE  n.pool.ref[b] = IF b \in Range(n.blocks[r]) \ Range(m.blocks[r])
                               THEN m.pool.ref[b] + 1
                               ELSE IF b \in Range(m.blocks[r]) \ Range(n.blocks[r])
                               THEN m.pool.ref[b] - 1 ELSE m.pool.ref[b]
    BY <2>1, <2>2, <1>6 DEF Usable
  <2> QED BY <2>3, <2>4, <1>4, <1>7, RefCountsFollow
<1>9. ManagerShape(n) /\ \A s \in Reqs : n.blocks[s] \in Seq(Usable)
  BY <1>1, <1>4, <1>5 DEF ManagerShape, ManagerInv
<1>10. ManagerInv(n)
  BY <1>4, <1>6, <1>7, <1>8, <1>9 DEF ManagerInv
<1> QED BY <1>4, <1>5, <1>6, <1>10 DEF n

\* New blocks are appended: nobody held them, and none is cached any more.
LEMMA TakeNewKeeps ==
  ASSUME NEW m, ManagerInv(m), NEW r \in Reqs, NEW num \in Int,
         num <= NumFreeBlocks(m.pool)
  PROVE  LET n == TakeNew(m, r, num)
         IN  ManagerInv(n) /\ n.hashes[r] = m.hashes[r] /\ n.ncached[r] = m.ncached[r]
<1>1. CASE num <= 0
  BY <1>1 DEF TakeNew
<1>2. CASE num > 0
  <2> DEFINE n == TakeNew(m, r, num)
             old == m.blocks[r]
             new == NewBlocks(m.pool, num)
  <2>1. /\ ManagerShape(m) /\ PoolInv(m.pool) /\ Placed(m) /\ RefCountsExact(m)
        /\ num \in 0 .. NumFreeBlocks(m.pool)
    BY <1>2 DEF ManagerInv, NumFreeBlocks
  <2>2. /\ {"pool", "blocks", "hashes", "ncached"} \subseteq DOMAIN n
        /\ n.pool = GetNewBlocks(m.pool, num)
        /\ DOMAIN n.blocks = Reqs /\ n.blocks[r] = old \o new
        /\ \A s \in Reqs : s # r => n.blocks[s] = m.blocks[s]
        /\ n.hashes = m.hashes /\ n.ncached = m.ncached
    <3>1. n = [m EXCEPT !.pool = GetNewBlocks(@, num), !.blocks[r] = @ \o new]
      BY <1>2 DEF TakeNew
    <3> HIDE DEF n, new
    <3> QED BY <3>1, <2>1 DEF ManagerShape
  <2> HIDE DEF n
  <2>3. /\ PoolInv(n.pool)
        /\ new \in Seq(Usable) /\ IsInjective(new)
        /\ \A b \in Range(new) : m.pool.ref[b] = 0
        /\ \A b \in Blocks :
             /\ n.pool.ref[b] = IF b \in Range(new) THEN m.pool.ref[b] + 1 ELSE m.pool.ref[b]
             /\ n.pool.hash[b] = IF b \in Range(new) THEN NoHash ELSE m.pool.hash[b]
    BY <2>1, <2>2, GetNewBlocksFacts
  <2> HIDE DEF new
  <2>4. \A s \in Reqs : /\ m.blocks[s] \in Seq(Usable) /\ IsInjective(m.blocks[s])
                        /\ Range(m.blocks[s]) \subseteq Usable
                        /\ Range(m.blocks[s]) \cap Range(new) = {}
    BY <2>3, HeldFacts
  <2>5. /\ n.blocks[r] \in Seq(Usable) /\ IsInjective(n.blocks[r])
        /\ Range(n.blocks[r]) = Range(old) \cup Range(new)
    BY <2>2, <2>3, <2>4, ConcatFacts
  <2>6. \A s \in Reqs : n.blocks[s] \in Seq(Usable)
    BY <2>2, <2>4, <2>5
  <2>7. \A s \in Reqs : \A i \in DOMAIN n.blocks[s] :
           /\ n.blocks[s][i] \in Usable /\ n.blocks[s][i] \in Blocks
           /\ \/ n.blocks[s][i] \in Range(new) /\ s = r
              \/ /\ i \in DOMAIN m.blocks[s] /\ n.blocks[s][i] = m.blocks[s][i]
                 /\ n.blocks[s][i] \notin Range(new)
    <3> SUFFICES ASSUME NEW s \in Reqs, NEW i \in DOMAIN n.blocks[s]
                 PROVE  /\ n.blocks[s][i] \in Usable
                        /\ \/ n.blocks[s][i] \in Range(new) /\ s = r
                           \/ /\ i \in DOMAIN m.blocks[s]
                              /\ n.blocks[s][i] = m.blocks[s][i]
                              /\ n.blocks[s][i] \notin Range(new)
      BY DEF Usable
    <3>1. n.blocks[s][i] \in Usable
      BY <2>6
    <3>2. CASE s # r
      BY <3>1, <3>2, <2>2, <2>4 DEF Range
    <3>3. CASE s = r
      <4>1. \/ i \in DOMAIN old /\ n.blocks[s][i] = old[i]
            \/ i - Len(old) \in DOMAIN new /\ n.blocks[s][i] = new[i - Len(old)]
        BY <3>3, <2>2, <2>3, <2>4
      <4> QED BY <4>1, <3>1, <3>3, <2>4 DEF Range
    <3> QED BY <3>2, <3>3
  <2>8. Placed(n)
    <3>1. ASSUME NEW s \in Reqs, NEW i \in DOMAIN n.blocks[s]
          PROVE  FitsAt(n.pool, n.blocks[s][i], i)
      BY <2>1, <2>3, <2>7 DEF Placed, FitsAt
    <3>2. ASSUME NEW t \in Reqs, NEW s \in Reqs,
                 NEW i \in DOMAIN n.blocks[t], NEW j \in DOMAIN n.blocks[s],
                 n.blocks[t][i] = n.blocks[s][j]
          PROVE  i = j
      <4>1. CASE n.blocks[t][i] \in Range(new)
        BY <4>1, <3>2, <2>5, <2>7 DEF IsInjective
      <4>2. CASE n.blocks[t][i] \notin Range(new)
        BY <4>2, <3>2, <2>1, <2>7 DEF Placed
      <4> QED BY <4>1, <4>2
    <3> QED BY <3>1, <3>2 DEF Placed
  <2>9. RefCountsExact(n)
    <3>1. ASSUME NEW b \in Usable
          PROVE  n.pool.ref[b] = IF b \in Range(n.blocks[r]) \ Range(m.blocks[r])
                                 THEN m.pool.ref[b] + 1
                                 ELSE IF b \in Range(m.blocks[r]) \ Range(n.blocks[r])
                                 THEN m.pool.ref[b] - 1 ELSE m.pool.ref[b]
      BY <2>3, <2>4, <2>5 DEF Usable
    <3> QED BY <3>1, <2>1, <2>2, <2>8, RefCountsFollow
  <2>10. ManagerInv(n)
    BY <2>1, <2>2, <2>3, <2>6, <2>8, <2>9 DEF ManagerInv, ManagerShape
  <2> QED BY <2>2, <2>10 DEF n
<1> QED BY <1>1, <1>2

\* free gives the blocks of one request back.
LEMMA FreeKeeps ==
  ASSUME NEW m, ManagerInv(m), NEW r \in Reqs
  PROVE  /\ ManagerInv(Free(m, r)) /\ Free(m, r).hashes = m.hashes
         /\ Free(m, r).pool.hash = m.pool.hash
<1> DEFINE n == Free(m, r)
           bs == m.blocks[r]
           order == IF EnableCaching THEN Reversed(bs) ELSE bs
<1>1. /\ ManagerShape(m) /\ PoolInv(m.pool) /\ Placed(m) /\ RefCountsExact(m)
      /\ \A s \in Reqs : m.blocks[s] \in Seq(Usable)
  BY DEF ManagerInv
<1>2. /\ {"pool", "blocks", "hashes", "ncached"} \subseteq DOMAIN n
      /\ n.pool = FreeBlocks(m.pool, order)
      /\ DOMAIN n.blocks = Reqs /\ DOMAIN n.ncached = Reqs /\ n.blocks[r] = << >>
      /\ \A s \in Reqs : s # r => n.blocks[s] = m.blocks[s]
      /\ n.hashes = m.hashes
      /\ \A s \in Reqs : n.ncached[s] = IF s = r THEN -1 ELSE m.ncached[s]
  <2>1. n = [m EXCEPT !.pool = FreeBlocks(@, order), !.blocks[r] = << >>,
                      !.ncached[r] = Absent]
    BY DEF Free
  <2> HIDE DEF n, order
  <2> QED BY <2>1, <1>1 DEF ManagerShape, Absent
<1> HIDE DEF n
<1>3. order \in Seq(Usable) /\ IsInjective(order) /\ Range(order) = Range(bs)
  <2>1. bs \in Seq(Usable) /\ IsInjective(bs)
    BY HeldFacts
  <2> QED BY <2>1, ReversedFacts
<1>4. \A b \in Range(order) : m.pool.ref[b] # 0
  BY <1>3, HeldFacts
<1> HIDE DEF order
<1>5. /\ PoolInv(n.pool) /\ n.pool.hash = m.pool.hash
      /\ \A b \in Blocks : n.pool.ref[b] = IF b \in Range(bs) THEN m.pool.ref[b] - 1
                                           ELSE m.pool.ref[b]
  BY <1>1, <1>2, <1>3, <1>4, FreeBlocksFacts
<1>6. /\ \A s \in Reqs : n.blocks[s] \in Seq(Usable)
      /\ \A s \in Reqs : \A i \in DOMAIN n.blocks[s] : s # r /\ n.blocks[s] = m.blocks[s]
  <2>1. << >> \in Seq(Usable) /\ DOMAIN << >> = {}
    OBVIOUS
  <2> QED BY <2>1, <1>1, <1>2
<1>7. Placed(n)
  <2>1. \A s \in Reqs : \A i \in DOMAIN n.blocks[s] : FitsAt(n.pool, n.blocks[s][i], i)
    BY <1>1, <1>5, <1>6 DEF Placed, FitsAt
  <2>2. ASSUME NEW t \in Reqs, NEW s \in Reqs,
               NEW i \in DOMAIN n.blocks[t], NEW j \in DOMAIN n.blocks[s],
               n.blocks[t][i] = n.blocks[s][j]
        PROVE  i = j
    <3>1. n.blocks[t] = m.blocks[t] /\ n.blocks[s] = m.blocks[s]
      BY <1>6
    <3> QED BY <3>1, <2>2, <1>1 DEF Placed
  <2> QED BY <2>1, <2>2 DEF Placed
<1>8. RefCountsExact(n)
  <2>1. Range(n.blocks[r]) = {}
    BY <1>2 DEF Range
  <2>2. ASSUME NEW b \in Usable
        PROVE  n.pool.ref[b] = IF b \in Range(n.blocks[r]) \ Range(m.blocks[r])
                               THEN m.pool.ref[b] + 1
                               ELSE IF b \in Range(m.blocks[r]) \ Range(n.blocks[r])
                               THEN m.pool.ref[b] - 1 ELSE m.pool.ref[b]
    BY <2>1, <1>5 DEF Usable
  <2> QED BY <2>2, <1>1, <1>2, <1>7, RefCountsFollow
<1>9. ManagerInv(n)
  BY <1>1, <1>2, <1>5, <1>6, <1>7, <1>8 DEF ManagerInv, ManagerShape
<1> QED BY <1>2, <1>5, <1>9 DEF n

\* Only the hashes of requests and their counts of cached blocks differ.
LEMMA HashesChange ==
  ASSUME NEW m, ManagerInv(m), NEW n, ManagerShape(n),
         n.pool = m.pool, n.blocks = m.blocks, n.ncached = m.ncached,
         DOMAIN n.hashes = Reqs, \A s \in Reqs : Chain(n.hashes[s])
  PROVE  ManagerInv(n)
<1>1. RefCountsExact(n)
  <2>1. \A b \in Blocks : Holders(n, b) = Holders(m, b)
    BY DEF Holders
  <2> QED BY <2>1 DEF ManagerInv, RefCountsExact
<1>2. Placed(n)
  BY DEF ManagerInv, Placed
<1> QED BY <1>1, <1>2 DEF ManagerInv

\* A request that is gone has no hashes.
LEMMA FreeBlockHashesKeeps ==
  ASSUME NEW m, ManagerInv(m), NEW r \in Reqs
  PROVE  ManagerInv(FreeBlockHashes(m, r))
<1> DEFINE n == FreeBlockHashes(m, r)
<1>1. /\ ManagerShape(n) /\ n.pool = m.pool /\ n.blocks = m.blocks
      /\ n.ncached = m.ncached /\ DOMAIN n.hashes = Reqs
      /\ \A s \in Reqs : n.hashes[s] = IF s = r THEN << >> ELSE m.hashes[s]
  BY DEF ManagerInv, ManagerShape, FreeBlockHashes
<1> HIDE DEF n
<1>2. << >> \in Seq({}) /\ DOMAIN << >> = {}
  OBVIOUS
<1>3. \A s \in Reqs : Chain(n.hashes[s])
  BY <1>1, <1>2 DEF ManagerInv, Chain
<1>4. ManagerInv(n)
  BY <1>1, <1>3, HashesChange
<1> QED BY <1>4 DEF n

\* The prefix cache can be emptied at any time.
LEMMA ResetCacheKeeps ==
  ASSUME NEW m, ManagerInv(m)
  PROVE  ManagerInv(ResetCache(m))
<1> DEFINE n == ResetCache(m)
<1>1. /\ {"pool", "blocks", "hashes", "ncached"} \subseteq DOMAIN n
      /\ n.pool = ResetPrefixCache(m.pool) /\ n.blocks = m.blocks
      /\ n.hashes = m.hashes /\ n.ncached = m.ncached
  BY DEF ManagerInv, ManagerShape, ResetCache
<1> HIDE DEF n
<1>2. PoolInv(n.pool) /\ n.pool.ref = m.pool.ref /\ \A b \in Blocks : n.pool.hash[b] = NoHash
  BY <1>1, ResetPrefixCacheFacts DEF ManagerInv
<1>3. RefCountsExact(n)
  <2>1. \A b \in Blocks : Holders(n, b) = Holders(m, b)
    BY <1>1 DEF Holders
  <2> QED BY <2>1, <1>1, <1>2 DEF ManagerInv, RefCountsExact
<1>4. Placed(n)
  <2>1. \A s \in Reqs : \A i \in DOMAIN n.blocks[s] : n.blocks[s][i] \in Blocks
    BY <1>1 DEF ManagerInv, Usable
  <2> QED BY <2>1, <1>1, <1>2 DEF ManagerInv, Placed, FitsAt
<1>5. ManagerInv(n)
  BY <1>1, <1>2, <1>3, <1>4 DEF ManagerInv, ManagerShape
<1> QED BY <1>5 DEF n

-----------------------------------------------------------------------------
\* Hashes and hits

\* The hash of the first i blocks
LEMMA BlockHashAt ==
  ASSUME NEW r, NEW tokens, NEW i \in Nat
  PROVE  HashAt(BlockHash(r, tokens, i), i)
<1>1. i * BlockSize \in Nat
  BY ManagerAssumption
<1>2. Len(SubSeq(tokens, 1, i * BlockSize)) = i * BlockSize
  BY <1>1
<1> QED BY <1>2 DEF HashAt, BlockHash, NoHash

\* The hashes of a request's tokens, each of its own place
LEMMA HashRequestTokensChain ==
  ASSUME NEW r, NEW tokens, Len(tokens) \in Nat
  PROVE  Chain(HashRequestTokens(r, tokens))
<1> DEFINE hs == HashRequestTokens(r, tokens)
           n == Len(tokens) \div BlockSize
           S == {BlockHash(r, tokens, i) : i \in Nat}
<1>1. n \in Nat
  BY ManagerAssumption
<1> HIDE DEF n
<1>2. DOMAIN hs = 1 .. n /\ \A i \in 1 .. n : i \in Nat /\ hs[i] = BlockHash(r, tokens, i)
  BY <1>1 DEF HashRequestTokens, n
<1>3. hs \in Seq(S)
  <2>1. hs = [i \in 1 .. n |-> hs[i]] /\ \A i \in 1 .. n : hs[i] \in S
    BY <1>2 DEF HashRequestTokens, n
  <2> HIDE DEF hs, S
  <2> QED BY <2>1, <1>1
<1> HIDE DEF hs
<1>4. \A i \in DOMAIN hs : HashAt(hs[i], i)
  BY <1>2, BlockHashAt
<1> QED BY <1>3, <1>4 DEF Chain, hs

\* The hashes looked up are a chain.
LEMMA KnownHashesChain ==
  ASSUME NEW m, ManagerInv(m), NEW r \in Reqs, NEW q, Len(q.tokens) \in Nat
  PROVE  Chain(KnownHashes(m, r, q))
BY HashRequestTokensChain DEF KnownHashes, ManagerInv

\* A chain without its last hash is one.
LEMMA ButLastChain ==
  ASSUME NEW hs, Chain(hs)
  PROVE  Chain(ButLast(hs))
<1> DEFINE b == ButLast(hs)
           n == Len(hs)
<1>1. PICK S : hs \in Seq(S)
  BY DEF Chain
<1>2. b \in Seq(S) /\ DOMAIN b \subseteq 1 .. n /\ \A i \in DOMAIN b : b[i] = hs[i]
  <2>1. CASE hs = << >>
    BY <2>1 DEF ButLast
  <2>2. CASE hs # << >>
    <3>1. n \in Nat \ {0} /\ DOMAIN hs = 1 .. n
      BY <1>1, <2>2
    <3>2. b = [i \in 1 .. n - 1 |-> hs[i]]
      BY <3>1, <1>1 DEF ButLast
    <3> QED BY <3>1, <3>2, <1>1
  <2> QED BY <2>1, <2>2
<1> HIDE DEF b
<1>3. DOMAIN hs = 1 .. n
  BY <1>1
<1>4. Chain(b)
  BY <1>2, <1>3 DEF Chain
<1> QED BY <1>4 DEF b

\* and one shorter.
LEMMA ButLastLen ==
  ASSUME NEW S, NEW s \in Seq(S), s # << >>
  PROVE  Len(ButLast(s)) = Len(s) - 1 /\ Len(s) > 0
<1>1. Len(s) \in Nat \ {0} /\ DOMAIN s = 1 .. Len(s)
  OBVIOUS
<1>2. ButLast(s) = [i \in 1 .. Len(s) - 1 |-> s[i]]
  BY <1>1 DEF ButLast
<1> QED BY <1>1, <1>2

\* A cached block is one of the pool, with the hash it was found under.
LEMMA CachedBlockFacts ==
  ASSUME NEW p, PoolInv(p), NEW h, GetCachedBlock(p, h) # NullBlock
  PROVE  GetCachedBlock(p, h) \in Usable /\ p.hash[GetCachedBlock(p, h)] = h
<1>1. h \in DOMAIN p.cached /\ GetCachedBlock(p, h) = p.cached[h][1]
  BY DEF GetCachedBlock
<1>2. p.cached[h] \in Seq(Blocks) /\ p.cached[h] # << >>
  BY <1>1 DEF PoolInv, PoolShape, CacheExact
<1>3. p.cached[h][1] \in Blocks /\ p.cached[h][1] \in Range(p.cached[h])
  BY <1>2, TailFacts, RangeFacts
<1> QED BY <1>1, <1>3 DEF PoolInv, CacheExact, Usable

\* The blocks found for a chain of hashes, each with the hash of its place
HitsFit(p, hits) ==
  /\ hits \in Seq(Usable)
  /\ \A i \in DOMAIN hits : HashAt(p.hash[hits[i]], i)

\* The longest cached prefix
LEMMA FullAttentionHitFacts ==
  ASSUME NEW p, PoolInv(p), NEW hs, Chain(hs)
  PROVE  LET hits == FullAttentionHit(p, hs)
         IN  /\ HitsFit(p, hits) /\ Len(hits) <= Len(hs)
             /\ \A i \in DOMAIN hits : p.hash[hits[i]] = hs[i]
<1> DEFINE l == Len(hs)
           Ok(k) == /\ AllCached(p, hs, 1, k)
                    /\ k < l => ~ AllCached(p, hs, k + 1, k + 1)
           n == CHOOSE k \in 0 .. l : Ok(k)
           hit == [i \in 1 .. n |-> GetCachedBlock(p, hs[i])]
<1>1. l \in Nat /\ DOMAIN hs = 1 .. l
  BY DEF Chain
<1>2. \E k \in 0 .. l : Ok(k)
  <2> SUFFICES ASSUME \A k \in 0 .. l : ~ Ok(k) PROVE FALSE
    OBVIOUS
  <2> DEFINE T == {k \in Nat : k <= l => AllCached(p, hs, 1, k)}
  <2>1. 0 \in T
    BY DEF AllCached
  <2>2. ASSUME NEW k \in T PROVE k + 1 \in T
    <3> SUFFICES ASSUME k + 1 <= l PROVE AllCached(p, hs, 1, k + 1)
      OBVIOUS
    <3>1. k \in 0 .. l /\ k < l /\ AllCached(p, hs, 1, k)
      BY <1>1
    <3>2. AllCached(p, hs, k + 1, k + 1)
      BY <3>1
    <3>3. \A i \in 1 .. k + 1 : i \in 1 .. k \/ i \in k + 1 .. k + 1
      BY <3>1
    <3> QED BY <3>1, <3>2, <3>3 DEF AllCached
  <2> HIDE DEF T
  <2>3. T = Nat
    <3>1. T \in SUBSET Nat
      BY DEF T
    <3> QED BY <3>1, <2>1, <2>2, NatSetInduction
  <2>4. AllCached(p, hs, 1, l)
    BY <2>3, <1>1 DEF T
  <2> QED BY <2>4, <1>1
<1>3. n \in 0 .. l /\ AllCached(p, hs, 1, n)
  <2> HIDE DEF l
  <2>1. n \in 0 .. l /\ Ok(n)
    BY <1>2
  <2> QED BY <2>1
<1>4. FullAttentionHit(p, hs) = hit
  BY DEF FullAttentionHit
<1> HIDE DEF n, l
<1>5. \A i \in 1 .. n : /\ i \in 1 .. l /\ GetCachedBlock(p, hs[i]) \in Usable
                        /\ p.hash[GetCachedBlock(p, hs[i])] = hs[i]
  BY <1>1, <1>3, CachedBlockFacts DEF AllCached
<1>6. n \in Nat
  BY <1>1, <1>3
<1>7. hit \in Seq(Usable) /\ DOMAIN hit = 1 .. n
  BY <1>5, <1>6
<1>8. \A i \in DOMAIN hit : HashAt(p.hash[hit[i]], i) /\ p.hash[hit[i]] = hs[i]
  BY <1>1, <1>5, <1>7 DEF Chain
<1>9. Len(hit) <= l
  BY <1>1, <1>3
<1> QED BY <1>4, <1>7, <1>8, <1>9 DEF HitsFit, l

\* get_computed_blocks: the hits, fitting their places
LEMMA GetComputedBlocksFacts ==
  ASSUME SlidingWindow = 0, NEW m, ManagerInv(m), NEW r \in Reqs, NEW q,
         Len(q.tokens) \in Nat
  PROVE  HitsFit(m.pool, GetComputedBlocks(m, r, q))
<1> DEFINE known == KnownHashes(m, r, q)
           looked == IF Len(known) * BlockSize = Len(q.tokens) THEN ButLast(known)
                     ELSE known
           hit == FindLongestCacheHit(m.pool, looked)
<1>1. Chain(looked)
  <2> HIDE DEF known
  <2>1. Chain(known)
    BY KnownHashesChain DEF known
  <2> QED BY <2>1, ButLastChain
<1> HIDE DEF looked
<1>2. HitsFit(m.pool, hit)
  BY <1>1, FullAttentionHitFacts DEF FindLongestCacheHit, ManagerInv
<1> HIDE DEF hit
<1>3. HitsFit(m.pool, << >>)
  <2>1. << >> \in Seq(Usable) /\ DOMAIN << >> = {}
    OBVIOUS
  <2> QED BY <2>1 DEF HitsFit
<1>4. hit # << >> => HitsFit(m.pool, ButLast(hit))
  <2> SUFFICES ASSUME hit # << >> PROVE HitsFit(m.pool, ButLast(hit))
    OBVIOUS
  <2> DEFINE n == Len(hit)
  <2>1. hit \in Seq(Usable) /\ n \in Nat \ {0} /\ DOMAIN hit = 1 .. n
    BY <1>2 DEF HitsFit
  <2>2. ButLast(hit) = [i \in 1 .. n - 1 |-> hit[i]]
    BY <2>1 DEF ButLast
  <2>3. ButLast(hit) \in Seq(Usable) /\ DOMAIN ButLast(hit) = 1 .. n - 1
    BY <2>1, <2>2
  <2> QED BY <2>1, <2>2, <2>3, <1>2 DEF HitsFit
<1>5. GetComputedBlocks(m, r, q)
        \in {<< >>, hit} \cup (IF hit # << >> THEN {ButLast(hit)} ELSE {})
  BY DEF GetComputedBlocks, hit, looked
<1> QED BY <1>2, <1>3, <1>4, <1>5

\* get_computed_blocks remembers the hashes it computed.
LEMMA AfterLookupKeeps ==
  ASSUME NEW m, ManagerInv(m), NEW r \in Reqs, NEW q, Len(q.tokens) \in Nat
  PROVE  LET n == AfterLookup(m, r, q)
         IN  ManagerInv(n) /\ n.pool = m.pool /\ n.blocks = m.blocks /\ n.ncached = m.ncached
<1> DEFINE n == AfterLookup(m, r, q)
<1>1. CASE ~ EnableCaching
  BY <1>1 DEF AfterLookup
<1>2. CASE EnableCaching
  <2>1. /\ ManagerShape(n) /\ n.pool = m.pool /\ n.blocks = m.blocks
        /\ n.ncached = m.ncached /\ DOMAIN n.hashes = Reqs
        /\ \A s \in Reqs : n.hashes[s] = IF s = r THEN KnownHashes(m, r, q) ELSE m.hashes[s]
    BY <1>2 DEF ManagerInv, ManagerShape, AfterLookup
  <2> HIDE DEF n
  <2>2. \A s \in Reqs : Chain(n.hashes[s])
    BY <2>1, KnownHashesChain DEF ManagerInv
  <2>3. ManagerInv(n)
    BY <2>1, <2>2, HashesChange
  <2> QED BY <2>1, <2>3 DEF n
<1> QED BY <1>1, <1>2

-----------------------------------------------------------------------------
\* Allocation

\* The hashes up to a position, old and new, are a chain as long as needed.
LEMMA HashesUpToChain ==
  ASSUME NEW m, ManagerInv(m), NEW r \in Reqs, NEW q, NEW nf \in Int
  PROVE  /\ Chain(HashesUpTo(m, r, q, nf))
         /\ \A i \in Int : 1 <= i /\ i <= nf => i \in DOMAIN HashesUpTo(m, r, q, nf)
         /\ Len(HashesUpTo(m, r, q, nf)) = Larger(Len(m.hashes[r]), nf)
<1> DEFINE old == m.hashes[r]
           l == Len(old)
           k == Larger(0, nf - l)
           more == [i \in 1 .. k |-> BlockHash(r, q.tokens, l + i)]
           hs == old \o more
<1>1. PICK S : old \in Seq(S)
  BY DEF ManagerInv, Chain
<1>2. l \in Nat /\ DOMAIN old = 1 .. l /\ \A i \in 1 .. l : HashAt(old[i], i)
  BY <1>1 DEF ManagerInv, Chain
<1> HIDE DEF l
<1>3. k \in Nat /\ k >= nf - l
  BY <1>2 DEF Larger
<1> HIDE DEF k
<1> DEFINE U == S \cup {more[i] : i \in 1 .. k}
<1>4. more \in Seq(U) /\ Len(more) = k /\ old \in Seq(U)
  <2>1. \A i \in 1 .. k : more[i] \in U
    OBVIOUS
  <2>2. old \in Seq(U)
    <3>1. \A i \in 1 .. l : old[i] \in U
      BY <1>1, <1>2
    <3>2. old = [i \in 1 .. l |-> old[i]]
      BY <1>1, <1>2
    <3> HIDE DEF U, old
    <3> QED BY <3>1, <3>2, <1>2
  <2>3. more = [i \in 1 .. k |-> more[i]]
    OBVIOUS
  <2> HIDE DEF U, more, old
  <2> QED BY <2>1, <2>2, <2>3, <1>3
<1>5. \A i \in 1 .. k : l + i \in Nat /\ HashAt(more[i], l + i)
  BY <1>2, <1>3, BlockHashAt
<1> HIDE DEF more, U, old
<1>6. /\ hs \in Seq(U) /\ DOMAIN hs = 1 .. l + k
      /\ \A i \in 1 .. l + k : hs[i] = IF i <= l THEN old[i] ELSE more[i - l]
  BY <1>2, <1>3, <1>4 DEF l
<1> HIDE DEF hs
<1>7. \A i \in DOMAIN hs : HashAt(hs[i], i)
  <2> SUFFICES ASSUME NEW i \in 1 .. l + k PROVE HashAt(hs[i], i)
    BY <1>6
  <2>1. CASE i <= l
    BY <2>1, <1>2, <1>6
  <2>2. CASE ~ (i <= l)
    <3>1. i - l \in 1 .. k /\ l + (i - l) = i
      BY <2>2, <1>2, <1>3
    <3> QED BY <3>1, <2>2, <1>5, <1>6
  <2> QED BY <2>1, <2>2
<1>8. \A i \in Int : 1 <= i /\ i <= nf => i \in DOMAIN hs
  BY <1>2, <1>3, <1>6
<1>9. HashesUpTo(m, r, q, nf) = hs
  BY DEF HashesUpTo, hs, more, old, k, l
<1>10. Len(hs) = Larger(l, nf)
  BY <1>2, <1>6 DEF Larger, k
<1> QED BY <1>6, <1>7, <1>8, <1>9, <1>10 DEF Chain, l, old

\* Full blocks enter the cache under the hash of their place.
LEMMA CacheFullKeeps ==
  ASSUME EnableCaching, NEW m, ManagerInv(m), NEW r \in Reqs, NEW q,
         NEW nc \in Int, NEW nf \in Int, CacheAsserts(m, r, q, nc, nf)
  PROVE  ManagerInv(CacheFull(m, r, q, nc, nf))
<1> DEFINE n == CacheFull(m, r, q, nc, nf)
           bs == m.blocks[r]
           hs == IF nf > nc THEN HashesUpTo(m, r, q, nf) ELSE m.hashes[r]
<1>1. /\ ManagerShape(m) /\ PoolInv(m.pool) /\ Placed(m) /\ RefCountsExact(m)
      /\ \A s \in Reqs : m.blocks[s] \in Seq(Usable)
      /\ bs \in Seq(Usable) /\ IsInjective(bs)
  BY HeldFacts DEF ManagerInv
<1>2. /\ {"pool", "blocks", "hashes", "ncached"} \subseteq DOMAIN n
      /\ n.pool = CacheFullBlocks(m.pool, bs, hs, nc, nf)
      /\ n.blocks = m.blocks
      /\ DOMAIN n.hashes = Reqs /\ DOMAIN n.ncached = Reqs
      /\ \A s \in Reqs : /\ n.hashes[s] = IF s = r THEN hs ELSE m.hashes[s]
                         /\ n.ncached[s] = IF s = r THEN nf ELSE m.ncached[s]
  <2>1. n = [m EXCEPT !.pool = CacheFullBlocks(@, bs, hs, nc, nf),
                      !.hashes[r] = hs, !.ncached[r] = nf]
    BY DEF CacheFull
  <2> HIDE DEF n, hs
  <2> QED BY <2>1, <1>1 DEF ManagerShape, ManagerInv
<1> HIDE DEF n
<1>3. Chain(hs) /\ (nf > nc => \A i \in Int : 1 <= i /\ i <= nf => i \in DOMAIN hs)
  BY HashesUpToChain DEF ManagerInv
<1> HIDE DEF hs
<1>4. \A i \in (nc + 1 .. nf) \cap DOMAIN bs :
         HashAt(hs[i], i) /\ m.pool.hash[bs[i]] = NoHash
  <2> SUFFICES ASSUME NEW i \in (nc + 1 .. nf) \cap DOMAIN bs
               PROVE  HashAt(hs[i], i) /\ m.pool.hash[bs[i]] = NoHash
    OBVIOUS
  <2>1. i \in Int /\ 1 <= i /\ i <= nf /\ nf > nc
    BY <1>1
  <2>2. HashAt(hs[i], i)
    BY <2>1, <1>3 DEF Chain
  <2>3. m.pool.hash[bs[i]] = NoHash
    BY <2>1 DEF CacheAsserts, CacheFullBlocksAsserts
  <2> QED BY <2>2, <2>3
<1>5. /\ PoolInv(n.pool) /\ n.pool.ref = m.pool.ref
      /\ \A b \in Blocks : \/ n.pool.hash[b] = m.pool.hash[b]
                           \/ \E i \in DOMAIN bs : bs[i] = b /\ HashAt(n.pool.hash[b], i)
  BY <1>1, <1>2, <1>4, CacheFullBlocksFacts
<1>6. Placed(n)
  <2>1. ASSUME NEW s \in Reqs, NEW j \in DOMAIN n.blocks[s]
        PROVE  FitsAt(n.pool, n.blocks[s][j], j)
    <3> DEFINE b == n.blocks[s][j]
    <3>1. b \in Blocks /\ FitsAt(m.pool, b, j)
      BY <1>1, <1>2 DEF Usable, Placed
    <3>2. CASE n.pool.hash[b] = m.pool.hash[b]
      BY <3>1, <3>2 DEF FitsAt
    <3>3. CASE n.pool.hash[b] # m.pool.hash[b]
      <4>1. PICK i \in DOMAIN bs : bs[i] = b /\ HashAt(n.pool.hash[b], i)
        BY <3>1, <3>3, <1>5
      <4>2. i = j
        BY <4>1, <1>1, <1>2 DEF Placed
      <4> QED BY <4>1, <4>2 DEF FitsAt
    <3> QED BY <3>2, <3>3
  <2> QED BY <2>1, <1>1, <1>2 DEF Placed
<1>7. RefCountsExact(n)
  <2>1. \A b \in Blocks : Holders(n, b) = Holders(m, b)
    BY <1>2 DEF Holders
  <2> QED BY <2>1, <1>1, <1>2, <1>5 DEF RefCountsExact
<1>8. /\ \A s \in Reqs : n.blocks[s] \in Seq(Usable) /\ n.ncached[s] \in Int
      /\ \A s \in Reqs : Chain(n.hashes[s])
  BY <1>2, <1>3 DEF ManagerInv
<1>9. ManagerInv(n)
  BY <1>1, <1>2, <1>5, <1>6, <1>7, <1>8 DEF ManagerInv, ManagerShape
<1> QED BY <1>9 DEF n

\* The number of blocks a list of any length leaves to allocate is an integer.
LEMMA NumbersOfBlocks ==
  ASSUME NEW computed \in Int, NEW n \in Int, NEW l \in Nat, NEW s \in Int,
         NEW lookahead \in Nat
  PROVE  /\ l * BlockSize \in Nat
         /\ CDiv(computed + l * BlockSize + n + lookahead, BlockSize) \in Int
         /\ (computed + l * BlockSize + n - s) \div BlockSize \in Int
         /\ MaxNumBlocksPerReq \in Int
<1>1. BlockSize \in Nat \ {0} /\ MaxModelLen \in Int
  BY ManagerAssumption
<1>2. l * BlockSize \in Nat
  BY <1>1
<1>3. \A x \in Int : x \div BlockSize \in Int
  BY <1>1
<1>4. MaxNumBlocksPerReq \in Int
  BY <1>1, <1>3 DEF MaxNumBlocksPerReq, CDiv
<1> DEFINE k == l * BlockSize
<1> HIDE DEF k
<1>5. CDiv(computed + k + n + lookahead, BlockSize) \in Int
  BY <1>1, <1>2, <1>3 DEF CDiv, k
<1>6. (computed + k + n - s) \div BlockSize \in Int
  BY <1>1, <1>2, <1>3 DEF k
<1> QED BY <1>2, <1>4, <1>5, <1>6 DEF k

\* allocate_slots keeps the manager's state consistent, whatever its outcome.
LEMMA AllocateSlotsKeeps ==
  ASSUME SlidingWindow = 0, NEW m, ManagerInv(m), NEW r \in Reqs, NEW q,
         q.computed \in Int, Len(q.spec) \in Int, NEW n \in Int,
         NEW lookahead \in Nat, NEW comp, HitsFit(m.pool, comp),
         comp = << >> \/ m.blocks[r] = << >>
  PROVE  ManagerInv(AllocateSlots(m, r, q, n, comp, lookahead).m)
<1> DEFINE freed == FreeSkipped(m, r, q)
           num == NumNewBlocks(freed, r, q, n, comp, lookahead)
           hits == TakeHits(freed, r, comp)
           got == IF num <= 0 THEN 0 ELSE NumAllocated(hits, r, num)
           taken == TakeNew(hits, r, got)
           nc == NumCached(m, r, comp)
           nf == NumFull(q, q.computed + Len(comp) * BlockSize, n)
           cached == CacheFull(taken, r, q, nc, nf)
<1>1. /\ AllocateSlots(m, r, q, n, comp, lookahead).m \in {freed, hits, taken, cached}
      /\ AllocateSlots(m, r, q, n, comp, lookahead).m \in {freed, hits, taken}
           \/ (EnableCaching /\ CacheAsserts(taken, r, q, nc, nf))
  BY Zenon DEF AllocateSlots
<1>2. comp \in Seq(Usable) /\ Len(comp) \in Nat
  BY DEF HitsFit
<1>3. /\ ManagerInv(freed) /\ freed.blocks[r] = m.blocks[r]
      /\ freed.pool.hash = m.pool.hash
  BY FreeSkippedFacts
<1> HIDE DEF freed
<1>4. Len(freed.blocks[r]) \in Nat
  BY <1>3 DEF ManagerInv
<1>5. num \in Int /\ nf \in Int /\ nc \in Int
  <2>1. num \in Int
    <3> DEFINE all == CDiv(q.computed + Len(comp) * BlockSize + n + lookahead, BlockSize)
    <3>1. all \in Int
      BY <1>2, NumbersOfBlocks, ManagerAssumption
    <3>2. num = all - Len(freed.blocks[r]) - Len(comp)
      BY DEF NumNewBlocks
    <3> HIDE DEF all, num
    <3> QED BY <3>1, <3>2, <1>2, <1>4
  <2>2. nf \in Int
    BY <1>2, NumbersOfBlocks, ManagerAssumption DEF NumFull
  <2>3. nc \in Int
    BY <1>2 DEF NumCached, ManagerInv
  <2> QED BY <2>1, <2>2, <2>3
<1> HIDE DEF num, nf, nc
<1>6. ManagerInv(hits)
  BY <1>2, <1>3, TakeHitsKeeps DEF HitsFit
<1> HIDE DEF hits
<1>7. got \in Int /\ got <= NumFreeBlocks(hits.pool)
  <2>1. NumFreeBlocks(hits.pool) \in Nat /\ Len(hits.blocks[r]) \in Nat
    BY <1>6 DEF ManagerInv, PoolInv, PoolShape, NumFreeBlocks
  <2>2. MaxNumBlocksPerReq \in Int
    BY NumbersOfBlocks
  <2> QED BY <2>1, <2>2, <1>5 DEF NumAllocated, Smaller
<1> HIDE DEF got
<1>8. ManagerInv(taken)
  BY <1>6, <1>7, TakeNewKeeps
<1> HIDE DEF taken
<1>9. EnableCaching /\ CacheAsserts(taken, r, q, nc, nf) => ManagerInv(cached)
  BY <1>5, <1>8, CacheFullKeeps
<1> HIDE DEF cached
<1> QED BY <1>1, <1>3, <1>6, <1>8, <1>9

\* get_num_common_prefix_blocks ends at the first block that not all hold.
LEMMA CommonPrefixFacts ==
  ASSUME NEW m, NEW r, NEW n, Len(m.blocks[r]) \in Nat
  PROVE  LET k == NumCommonPrefixBlocks(m, r, n)
         IN  /\ k \in 0 .. Len(m.blocks[r])
             /\ \A i \in 1 .. k : m.pool.ref[m.blocks[r][i]] = n
<1> DEFINE bs == m.blocks[r]
           l == Len(bs)
           Shared(k) == \A i \in 1 .. k : m.pool.ref[bs[i]] = n
           Ok(k) == Shared(k) /\ (k < l => m.pool.ref[bs[k + 1]] # n)
           T == {k \in Nat : k <= l => Shared(k)}
<1>1. \E k \in 0 .. l : Ok(k)
  <2> SUFFICES ASSUME \A k \in 0 .. l : ~ Ok(k) PROVE FALSE
    OBVIOUS
  <2>1. 0 \in T
    OBVIOUS
  <2>2. ASSUME NEW k \in T PROVE k + 1 \in T
    <3> SUFFICES ASSUME k + 1 <= l PROVE Shared(k + 1)
      OBVIOUS
    <3>1. k \in 0 .. l /\ k < l /\ Shared(k)
      BY SMTT(30)
    <3>2. m.pool.ref[bs[k + 1]] = n
      BY <3>1
    <3>3. \A i \in 1 .. k + 1 : i \in 1 .. k \/ i = k + 1
      BY <3>1
    <3> QED BY <3>1, <3>2, <3>3
  <2>3. T \in SUBSET Nat
    OBVIOUS
  <2> HIDE DEF T
  <2>4. T = Nat
    BY <2>1, <2>2, <2>3, NatSetInduction
  <2>5. l \in T /\ l \in 0 .. l
    BY <2>4
  <2>6. Shared(l)
    <3> HIDE DEF l, Shared
    <3> QED BY <2>4, <2>5 DEF T
  <2>7. Ok(l)
    BY <2>5, <2>6
  <2> HIDE DEF l, Ok
  <2> QED BY <2>5, <2>7
<1>2. NumCommonPrefixBlocks(m, r, n) = CHOOSE k \in 0 .. l : Ok(k)
  BY DEF NumCommonPrefixBlocks
<1> DEFINE c == CHOOSE k \in 0 .. l : Ok(k)
<1> HIDE DEF l
<1>3. c \in 0 .. l /\ Ok(c)
  BY <1>1
<1> HIDE DEF c
<1>4. Shared(c)
  BY <1>3
<1> QED BY <1>2, <1>3, <1>4 DEF c, l

\* Blocks that are held as often as there are requests to hold them are at the
\* same place in all their lists.
LEMMA CommonPrefixOfAll ==
  ASSUME NEW m, ManagerInv(m), NEW rs \in Seq(Reqs), IsInjective(rs),
         \A s \in Reqs : s \notin Range(rs) => m.blocks[s] = << >>,
         NEW r \in Range(rs),
         NEW i \in 1 .. NumCommonPrefixBlocks(m, rs[1], Len(rs))
  PROVE  m.blocks[r][i] = m.blocks[rs[1]][i]
<1> DEFINE f == rs[1]
           n == Len(rs)
           b == m.blocks[f][i]
           k == NumCommonPrefixBlocks(m, f, n)
<1>1. rs # << >> /\ Range(rs) \subseteq Reqs /\ f \in Reqs /\ r \in Reqs /\ n \in Nat
  BY RangeFacts
<1>2. m.blocks[f] \in Seq(Usable) /\ m.blocks[r] \in Seq(Usable)
  BY <1>1 DEF ManagerInv
<1>3. i \in DOMAIN m.blocks[f] /\ m.pool.ref[b] = n
  <2>1. Len(m.blocks[f]) \in Nat /\ DOMAIN m.blocks[f] = 1 .. Len(m.blocks[f])
    BY <1>2
  <2>2. /\ k \in 0 .. Len(m.blocks[f])
        /\ \A j \in 1 .. k : m.pool.ref[m.blocks[f][j]] = n
    BY <2>1, CommonPrefixFacts, SMTT(30)
  <2>3. i \in 1 .. k
    OBVIOUS
  <2> HIDE DEF k, n, f
  <2> QED BY <2>1, <2>2, <2>3
<1>4. b \in Usable
  BY <1>2, <1>3
<1> HIDE DEF b, n, k, f
<1>5. n = Cardinality(Holders(m, b))
  BY <1>3, <1>4 DEF ManagerInv, RefCountsExact, Usable
<1>6. Holders(m, b) \subseteq Range(rs)
  <2>1. Range(<< >>) = {}
    BY DEF Range
  <2> QED BY <2>1 DEF Holders
<1>7. IsFiniteSet(Range(rs)) /\ Cardinality(Range(rs)) = n
  BY CardinalityOfDistinct DEF n
<1>8. Holders(m, b) = Range(rs)
  BY <1>5, <1>6, <1>7, FS_Subset
<1>9. PICK j \in DOMAIN m.blocks[r] : m.blocks[r][j] = b
  BY <1>8 DEF Holders, Range
<1>10. j = i
  BY <1>1, <1>3, <1>9 DEF ManagerInv, Placed, b
<1> QED BY <1>9, <1>10 DEF b, f

-----------------------------------------------------------------------------
\* The assertions on the way to the prefix cache

\* What division by the block size is
LEMMA DivFacts ==
  ASSUME NEW a \in Nat, NEW k \in Nat
  PROVE  /\ a \div BlockSize \in Nat
         /\ (a \div BlockSize) * BlockSize <= a
         /\ k <= a \div BlockSize <=> k * BlockSize <= a
<1>1. BlockSize \in Nat /\ BlockSize > 0
  BY ManagerAssumption
<1> DEFINE q == a \div BlockSize
<1>2. q \in Nat /\ q * BlockSize <= a /\ a < (q + 1) * BlockSize
  BY <1>1
<1> HIDE DEF q
<1>3. k <= q => k * BlockSize <= q * BlockSize
  BY <1>1, <1>2
<1>4. q < k => (q + 1) * BlockSize <= k * BlockSize
  BY <1>1, <1>2
<1>5. k * BlockSize \in Nat /\ q * BlockSize \in Nat /\ (q + 1) * BlockSize \in Nat
  BY <1>1, <1>2
<1> QED BY <1>2, <1>3, <1>4, <1>5 DEF q

\* The number of blocks for a tokens: as many as are full, or one more
LEMMA CDivFacts ==
  ASSUME NEW a \in Nat, NEW b \in Nat, a <= b
  PROVE  /\ CDiv(a, BlockSize) \in Nat
         /\ a \div BlockSize <= CDiv(a, BlockSize)
         /\ CDiv(a, BlockSize) <= CDiv(b, BlockSize)
         /\ a \div BlockSize <= b \div BlockSize
<1>1. BlockSize \in Nat /\ BlockSize > 0
  BY ManagerAssumption
<1>2. ASSUME NEW x \in Nat, NEW y \in Nat, x <= y
      PROVE  x \div BlockSize \in Nat /\ x \div BlockSize <= y \div BlockSize
  <2> DEFINE d == x \div BlockSize
  <2>1. d \in Nat
    BY DivFacts
  <2> HIDE DEF d
  <2>2. d * BlockSize <= x /\ d * BlockSize \in Nat
    BY <1>1, <2>1, DivFacts DEF d
  <2>3. d * BlockSize <= y
    BY <1>2, <2>2
  <2> QED BY <2>1, <2>3, DivFacts DEF d
<1>3. /\ a + BlockSize - 1 \in Nat /\ b + BlockSize - 1 \in Nat
      /\ a <= a + BlockSize - 1 /\ a + BlockSize - 1 <= b + BlockSize - 1
  BY <1>1
<1> QED BY <1>2, <1>3 DEF CDiv

\* The first c blocks of r are cached, and no other.
CachedTo(m, r, c) ==
  /\ c \in 0 .. Len(m.blocks[r])
  /\ \A i \in DOMAIN m.blocks[r] : m.pool.hash[m.blocks[r][i]] # NoHash <=> i <= c

\* num_cached_block is true of a request: it has no entry before it has blocks,
\* and for every block counted there is a hash in req_to_block_hashes.
CountTrue(m, r) ==
  IF m.ncached[r] = Absent THEN m.blocks[r] = << >>
  ELSE CachedTo(m, r, m.ncached[r]) /\ m.ncached[r] <= Len(m.hashes[r])

\* Requests share blocks through the cache only.
SharedAreCached(m) ==
  \A r, s \in Reqs : r # s =>
    \A i \in DOMAIN m.blocks[r], j \in DOMAIN m.blocks[s] :
       m.blocks[r][i] = m.blocks[s][j] => m.pool.hash[m.blocks[r][i]] # NoHash

\* While r is allocated blocks, the counts of the others are true.
CountsBut(m, r, c) == /\ \A s \in Reqs : s # r => CountTrue(m, s)
                      /\ CachedTo(m, r, c)
                      /\ SharedAreCached(m)

CacheCounts(m) == (\A r \in Reqs : CountTrue(m, r)) /\ SharedAreCached(m)

\* What the counts are about: the blocks held, their hashes, the counts, and
\* how many hashes there are.
LEMMA CountsOfSame ==
  ASSUME NEW m, ManagerInv(m), CacheCounts(m), NEW n,
         \A s \in Reqs : /\ n.blocks[s] = m.blocks[s] /\ n.ncached[s] = m.ncached[s]
                         /\ Len(n.hashes[s]) >= Len(m.hashes[s]) /\ Len(n.hashes[s]) \in Nat
                         /\ Len(m.hashes[s]) \in Nat,
         \A b \in Usable : n.pool.hash[b] = m.pool.hash[b]
  PROVE  CacheCounts(n)
<1>1. \A s \in Reqs : \A i \in DOMAIN m.blocks[s] :
         n.pool.hash[m.blocks[s][i]] = m.pool.hash[m.blocks[s][i]]
  BY DEF ManagerInv
<1>2. ASSUME NEW s \in Reqs PROVE CountTrue(n, s)
  <2>1. CountTrue(m, s) /\ n.blocks[s] = m.blocks[s] /\ n.ncached[s] = m.ncached[s]
    BY DEF CacheCounts
  <2>2. CASE m.ncached[s] = Absent
    BY <2>1, <2>2 DEF CountTrue
  <2>3. CASE m.ncached[s] # Absent
    <3>1. CachedTo(m, s, m.ncached[s]) /\ m.ncached[s] <= Len(m.hashes[s])
      BY <2>1, <2>3 DEF CountTrue
    <3>2. CachedTo(n, s, n.ncached[s])
      BY <3>1, <2>1, <1>1 DEF CachedTo
    <3>3. n.ncached[s] <= Len(n.hashes[s])
      BY <3>1, <2>1 DEF ManagerInv
    <3> QED BY <3>2, <3>3, <2>1, <2>3 DEF CountTrue
  <2> QED BY <2>2, <2>3
<1>3. SharedAreCached(n)
  BY <1>1 DEF CacheCounts, SharedAreCached
<1> QED BY <1>2, <1>3 DEF CacheCounts

\* The number of hashes is a number.
LEMMA HashesLen ==
  ASSUME NEW m, ManagerInv(m), NEW r \in Reqs
  PROVE  Len(m.hashes[r]) \in Nat
<1>1. Chain(m.hashes[r])
  BY DEF ManagerInv
<1>2. PICK S : m.hashes[r] \in Seq(S)
  BY <1>1 DEF Chain
<1> QED BY <1>2

\* Nothing is counted at first.
LEMMA InitCacheCounts == CacheCounts(InitManager)
<1>1. \A r \in Reqs : InitManager.blocks[r] = << >> /\ InitManager.ncached[r] = Absent
  BY DEF InitManager
<1> QED BY <1>1 DEF CacheCounts, CountTrue, SharedAreCached

\* Blocks are freed and keep their hashes.
LEMMA FreeCounts ==
  ASSUME NEW m, ManagerInv(m), CacheCounts(m), NEW r \in Reqs
  PROVE  CacheCounts(Free(m, r))
<1> DEFINE n == Free(m, r)
<1>1. n.hashes = m.hashes /\ OnlyOf(r, m, n) /\ n.blocks[r] = << >> /\ n.ncached[r] = Absent
  BY FreeKeeps, FreeOnlyOf DEF ManagerInv
<1>2. n.pool.hash = m.pool.hash
  BY DEF Free, FreeBlocks, ManagerInv, ManagerShape, PoolInv, PoolShape
<1> HIDE DEF n
<1>3. ASSUME NEW s \in Reqs PROVE CountTrue(n, s)
  <2>1. CASE s = r
    BY <2>1, <1>1 DEF CountTrue
  <2>2. CASE s # r
    <3>1. n.blocks[s] = m.blocks[s] /\ n.ncached[s] = m.ncached[s] /\ CountTrue(m, s)
      BY <2>2, <1>1 DEF OnlyOf, CacheCounts
    <3> QED BY <3>1, <1>1, <1>2 DEF CountTrue, CachedTo
  <2> QED BY <2>1, <2>2
<1>4. SharedAreCached(n)
  <2> SUFFICES ASSUME NEW t \in Reqs, NEW s \in Reqs, t # s,
                      NEW i \in DOMAIN n.blocks[t], NEW j \in DOMAIN n.blocks[s],
                      n.blocks[t][i] = n.blocks[s][j]
               PROVE  n.pool.hash[n.blocks[t][i]] # NoHash
    BY DEF SharedAreCached
  <2>1. t # r /\ s # r
    BY <1>1
  <2>2. n.blocks[t] = m.blocks[t] /\ n.blocks[s] = m.blocks[s]
    BY <2>1, <1>1 DEF OnlyOf
  <2> QED BY <2>2, <1>2 DEF CacheCounts, SharedAreCached
<1>5. CacheCounts(n)
  BY <1>3, <1>4 DEF CacheCounts
<1> QED BY <1>5 DEF n

\* A request without blocks needs no hashes.
LEMMA FreeBlockHashesCounts ==
  ASSUME NEW m, ManagerInv(m), CacheCounts(m), NEW r \in Reqs, m.ncached[r] = Absent
  PROVE  CacheCounts(FreeBlockHashes(m, r))
<1> DEFINE n == FreeBlockHashes(m, r)
<1>1. /\ n.pool = m.pool /\ n.blocks = m.blocks /\ n.ncached = m.ncached
      /\ \A s \in Reqs : s # r => n.hashes[s] = m.hashes[s]
  BY DEF ManagerInv, ManagerShape, FreeBlockHashes
<1> HIDE DEF n
<1>2. \A s \in Reqs : CountTrue(n, s)
  BY <1>1 DEF CacheCounts, CountTrue, CachedTo
<1>3. SharedAreCached(n)
  BY <1>1 DEF CacheCounts, SharedAreCached
<1>4. CacheCounts(n)
  BY <1>2, <1>3 DEF CacheCounts
<1> QED BY <1>4 DEF n

\* The prefix cache is emptied only when no request holds a block.
LEMMA NobodyHolds ==
  ASSUME NEW m, ManagerInv(m), CanResetPrefixCache(m.pool)
  PROVE  \A r \in Reqs : m.blocks[r] = << >>
<1> DEFINE free == m.pool.free
<1>1. NumGpuBlocks \in Nat /\ Usable = 1 .. NumGpuBlocks - 1
  BY PoolAssumption DEF Usable, Blocks, NullBlock
<1>2. /\ free \in Seq(Blocks) /\ IsInjective(free) /\ Len(free) = NumGpuBlocks - 1
      /\ Range(free) = {b \in Usable : m.pool.ref[b] = 0}
  <2>1. PoolShape(m.pool) /\ FreeQueueExact(m.pool)
    BY DEF ManagerInv, PoolInv
  <2>2. Len(free) = NumGpuBlocks - 1
    BY <1>1, <2>1 DEF PoolShape, CanResetPrefixCache, NumFreeBlocks
  <2> QED BY <2>1, <2>2 DEF PoolShape, FreeQueueExact, Usable
<1> HIDE DEF free
<1>3. Cardinality(Range(free)) = NumGpuBlocks - 1
  BY <1>2, CardinalityOfDistinct
<1>4. IsFiniteSet(Usable) /\ Cardinality(Usable) = NumGpuBlocks - 1
  <2>1. Len(free) \in Nat
    BY <1>2
  <2>2. 1 \in Int /\ NumGpuBlocks - 1 \in Nat
    BY <1>1, <1>2, <2>1
  <2> QED BY <1>1, <2>2, FS_Interval
<1>5. Range(free) = Usable
  <2>1. Range(free) \in SUBSET Usable
    BY <1>2
  <2> QED BY <2>1, <1>3, <1>4, FS_Subset
<1>6. \A r \in Reqs : m.blocks[r] = << >>
  <2> SUFFICES ASSUME NEW r \in Reqs PROVE m.blocks[r] = << >>
    OBVIOUS
  <2>1. \A b \in Usable : m.pool.ref[b] = 0
    BY <1>2, <1>5
  <2>2. Range(m.blocks[r]) = {} /\ m.blocks[r] \in Seq(Usable)
    BY <2>1, HeldFacts
  <2> QED BY <2>2, RangeFacts
<1> QED BY <1>6

\* So the counts remain true.
LEMMA ResetCacheCounts ==
  ASSUME NEW m, ManagerInv(m), CacheCounts(m), CanResetPrefixCache(m.pool)
  PROVE  CacheCounts(ResetCache(m))
<1> DEFINE n == ResetCache(m)
<1>1. \A r \in Reqs : m.blocks[r] = << >>
  BY NobodyHolds
<1>2. n.blocks = m.blocks /\ n.hashes = m.hashes /\ n.ncached = m.ncached
  BY DEF ManagerInv, ManagerShape, ResetCache
<1> HIDE DEF n
<1>3. \A r \in Reqs : CountTrue(n, r)
  BY <1>1, <1>2 DEF CacheCounts, CountTrue, CachedTo
<1>4. SharedAreCached(n)
  BY <1>1, <1>2 DEF SharedAreCached
<1>5. CacheCounts(n)
  BY <1>3, <1>4 DEF CacheCounts
<1> QED BY <1>5 DEF n

\* Every hash is of a full block of the request's tokens.
HashesOfTokens(m, r, tokens) == Len(m.hashes[r]) * BlockSize <= Len(tokens)

\* get_computed_blocks: the hits are blocks whose hashes are now known, and they
\* leave a token to compute.
LEMMA LookupCounts ==
  ASSUME SlidingWindow = 0, NEW m, ManagerInv(m), NEW r \in Reqs, NEW q,
         Len(q.tokens) \in Nat \ {0}, HashesOfTokens(m, r, q.tokens),
         EnableCaching => CacheCounts(m)
  PROVE  LET n == AfterLookup(m, r, q)
             hits == GetComputedBlocks(m, r, q)
         IN  /\ EnableCaching => CacheCounts(n)
             /\ \A s \in Reqs : s # r => n.hashes[s] = m.hashes[s]
             /\ HashesOfTokens(n, r, q.tokens)
             /\ Len(hits) <= Len(n.hashes[r])
             /\ Len(hits) * BlockSize < Len(q.tokens)
<1> DEFINE n == AfterLookup(m, r, q)
           hits == GetComputedBlocks(m, r, q)
           known == KnownHashes(m, r, q)
           l == Len(q.tokens)
           looked == IF Len(known) * BlockSize = l THEN ButLast(known) ELSE known
           hit == FindLongestCacheHit(m.pool, looked)
<1>0. BlockSize \in Nat /\ BlockSize > 0 /\ l \in Nat /\ l > 0
  BY ManagerAssumption
<1>1. Chain(known) /\ Len(known) \in Nat /\ Len(known) * BlockSize <= l
      /\ Len(m.hashes[r]) <= Len(known) /\ Len(m.hashes[r]) \in Nat
  <2>1. Chain(known)
    BY KnownHashesChain
  <2>2. Len(m.hashes[r]) \in Nat
    BY HashesLen
  <2>3. CASE m.hashes[r] = << >>
    <3>1. known = HashRequestTokens(r, q.tokens)
      BY <2>3 DEF KnownHashes
    <3> DEFINE d == l \div BlockSize
    <3>2. d \in Nat
      BY <1>0, DivFacts
    <3>3. Len(known) = d
      BY <3>1, <3>2 DEF HashRequestTokens
    <3>4. d * BlockSize <= l
      BY <1>0, DivFacts
    <3> HIDE DEF d
    <3> QED BY <2>1, <2>3, <3>2, <3>3, <3>4
  <2>4. CASE m.hashes[r] # << >>
    BY <2>1, <2>2, <2>4 DEF KnownHashes, HashesOfTokens
  <2> QED BY <2>3, <2>4
<1>2. Chain(looked) /\ Len(looked) \in Nat /\ Len(looked) <= Len(known)
      /\ Len(looked) * BlockSize < l
  <2>1. CASE Len(known) * BlockSize = l
    <3>1. Len(known) > 0
      BY <2>1, <1>0, <1>1
    <3>2. looked = ButLast(known)
      BY <2>1
    <3> HIDE DEF known, looked, l
    <3>3. Len(looked) = Len(known) - 1
      BY <3>1, <3>2, <1>1, ButLastLen DEF Chain
    <3>4. (Len(known) - 1) * BlockSize = l - BlockSize
      BY <2>1, <1>0, <1>1
    <3> QED BY <3>1, <3>2, <3>3, <3>4, <1>0, <1>1, ButLastChain
  <2>2. CASE Len(known) * BlockSize # l
    <3>1. looked = known
      BY <2>2
    <3> HIDE DEF known, looked, l
    <3>2. Len(known) * BlockSize \in Nat
      BY <1>0, <1>1
    <3> QED BY <3>1, <3>2, <2>2, <1>0, <1>1
  <2> QED BY <2>1, <2>2
<1>3. hits \in {<< >>, hit} \cup (IF hit # << >> THEN {ButLast(hit)} ELSE {})
  BY DEF GetComputedBlocks
<1> HIDE DEF looked, hits
<1>4. HitsFit(m.pool, hit) /\ Len(hit) <= Len(looked)
  BY <1>2, FullAttentionHitFacts DEF FindLongestCacheHit, ManagerInv
<1> HIDE DEF hit
<1>5. Len(hits) \in Nat /\ Len(hits) <= Len(looked)
  <2>1. hit \in Seq(Usable) /\ Len(hit) \in Nat
    BY <1>4 DEF HitsFit
  <2>2. hit # << >> => Len(ButLast(hit)) = Len(hit) - 1 /\ Len(hit) > 0
    BY <2>1, ButLastLen
  <2>3. Len(<< >>) = 0
    OBVIOUS
  <2> QED BY <2>1, <2>2, <2>3, <1>2, <1>3, <1>4
<1>6. Len(hits) * BlockSize < l
  <2>1. Len(hits) * BlockSize <= Len(looked) * BlockSize
    BY <1>0, <1>2, <1>5
  <2> HIDE DEF l
  <2> QED BY <2>1, <1>0, <1>2, <1>5
<1>7. CASE ~ EnableCaching
  <2>1. n = m /\ hits = << >>
    BY <1>7 DEF AfterLookup, GetComputedBlocks, hits
  <2> QED BY <2>1, <1>1, <1>6, <1>7 DEF hits
<1>8. CASE EnableCaching
  <2>1. /\ n.pool = m.pool /\ n.blocks = m.blocks /\ n.ncached = m.ncached
        /\ \A s \in Reqs : n.hashes[s] = IF s = r THEN known ELSE m.hashes[s]
    BY <1>8 DEF ManagerInv, ManagerShape, AfterLookup
  <2> HIDE DEF n, known
  <2>2. \A s \in Reqs : /\ Len(n.hashes[s]) >= Len(m.hashes[s])
                        /\ Len(n.hashes[s]) \in Nat /\ Len(m.hashes[s]) \in Nat
    BY <2>1, <1>1, HashesLen
  <2>3. CacheCounts(n)
    BY <2>1, <2>2, <1>8, CountsOfSame
  <2>4. HashesOfTokens(n, r, q.tokens)
    BY <2>1, <1>1 DEF HashesOfTokens
  <2>5. Len(hits) <= Len(n.hashes[r])
    BY <2>1, <1>1, <1>2, <1>5
  <2> QED BY <2>1, <2>3, <2>4, <2>5, <1>6 DEF n, hits
<1> QED BY <1>7, <1>8

\* Hits are cached blocks, so the count of the request that takes them is their
\* number.
LEMMA TakeHitsCounts ==
  ASSUME NEW m, ManagerInv(m), NEW r \in Reqs, NEW c, CountsBut(m, r, c),
         NEW comp, HitsFit(m.pool, comp), comp = << >> \/ m.blocks[r] = << >>
  PROVE  CountsBut(TakeHits(m, r, comp), r, IF comp = << >> THEN c ELSE Len(comp))
<1> DEFINE n == TakeHits(m, r, comp)
           d == IF comp = << >> THEN c ELSE Len(comp)
<1>1. /\ comp \in Seq(Usable) /\ \A i \in DOMAIN comp : HashAt(m.pool.hash[comp[i]], i)
      /\ \A s \in Reqs : m.blocks[s] \in Seq(Usable)
  BY DEF HitsFit, ManagerInv
<1>2. /\ n.hashes = m.hashes /\ n.ncached = m.ncached
      /\ n.blocks[r] = IF comp = << >> THEN m.blocks[r] ELSE comp
      /\ \A s \in Reqs : s # r => n.blocks[s] = m.blocks[s]
      /\ \A b \in Usable : n.pool.hash[b] = m.pool.hash[b]
  BY <1>1, TakeHitsKeeps DEF Usable
<1> HIDE DEF n
<1>3. \A s \in Reqs : n.blocks[s] \in Seq(Usable)
  BY <1>1, <1>2
<1>4. \A i \in DOMAIN comp : i \in Int /\ i <= Len(comp) /\ m.pool.hash[comp[i]] # NoHash
  BY <1>1 DEF HashAt
<1>5. CachedTo(n, r, d)
  <2>1. CASE comp = << >>
    <3>1. CachedTo(m, r, c) /\ n.blocks[r] = m.blocks[r] /\ d = c
      BY <2>1, <1>2 DEF CountsBut
    <3>2. \A i \in DOMAIN m.blocks[r] :
            n.pool.hash[m.blocks[r][i]] = m.pool.hash[m.blocks[r][i]]
      BY <1>1, <1>2
    <3> QED BY <3>1, <3>2 DEF CachedTo
  <2>2. CASE comp # << >>
    <3>1. n.blocks[r] = comp /\ d = Len(comp) /\ Len(comp) \in Nat
      BY <2>2, <1>1, <1>2
    <3>2. \A i \in DOMAIN comp : n.pool.hash[comp[i]] # NoHash
      BY <1>1, <1>2, <1>4
    <3> QED BY <3>1, <3>2, <1>4 DEF CachedTo
  <2> QED BY <2>1, <2>2
<1>6. ASSUME NEW s \in Reqs, s # r PROVE CountTrue(n, s)
  <2>1. CountTrue(m, s) /\ n.blocks[s] = m.blocks[s] /\ m.blocks[s] \in Seq(Usable)
    BY <1>1, <1>2, <1>6 DEF CountsBut
  <2>2. \A i \in DOMAIN m.blocks[s] : n.pool.hash[m.blocks[s][i]] = m.pool.hash[m.blocks[s][i]]
    BY <2>1, <1>2
  <2> QED BY <2>1, <2>2, <1>2 DEF CountTrue, CachedTo
<1>7. SharedAreCached(n)
  <2> SUFFICES ASSUME NEW t \in Reqs, NEW s \in Reqs, t # s,
                      NEW i \in DOMAIN n.blocks[t], NEW j \in DOMAIN n.blocks[s],
                      n.blocks[t][i] = n.blocks[s][j]
               PROVE  n.pool.hash[n.blocks[t][i]] # NoHash
    BY DEF SharedAreCached
  <2>1. n.blocks[t][i] \in Usable
    BY <1>3
  <2>2. n.pool.hash[n.blocks[t][i]] = m.pool.hash[n.blocks[t][i]]
    BY <2>1, <1>2
  <2>3. CASE comp # << >> /\ t = r
    BY <2>2, <2>3, <1>2, <1>4
  <2>4. CASE comp # << >> /\ s = r
    <3>1. n.blocks[s] = comp
      BY <2>4, <1>2
    <3>2. m.pool.hash[n.blocks[s][j]] # NoHash
      BY <3>1, <1>4
    <3> QED BY <3>2, <2>2
  <2>5. CASE comp = << >> \/ (t # r /\ s # r)
    <3>1. n.blocks[t] = m.blocks[t] /\ n.blocks[s] = m.blocks[s]
      BY <2>5, <1>2
    <3>2. SharedAreCached(m)
      BY DEF CountsBut
    <3> QED BY <3>1, <3>2, <2>2 DEF SharedAreCached
  <2> QED BY <2>3, <2>4, <2>5
<1> QED BY <1>5, <1>6, <1>7 DEF CountsBut, n, d

\* New blocks are not cached, and nobody else has them.
LEMMA TakeNewCounts ==
  ASSUME NEW m, ManagerInv(m), NEW r \in Reqs, NEW c, CountsBut(m, r, c),
         NEW num \in Int, num <= NumFreeBlocks(m.pool)
  PROVE  CountsBut(TakeNew(m, r, num), r, c)
<1>1. CASE num <= 0
  BY <1>1 DEF TakeNew
<1>2. CASE num > 0
  <2> DEFINE n == TakeNew(m, r, num)
             old == m.blocks[r]
             new == NewBlocks(m.pool, num)
  <2>1. /\ ManagerShape(m) /\ PoolInv(m.pool) /\ num \in 0 .. NumFreeBlocks(m.pool)
        /\ \A s \in Reqs : m.blocks[s] \in Seq(Usable)
    BY <1>2 DEF ManagerInv, NumFreeBlocks
  <2>2. /\ n.pool = GetNewBlocks(m.pool, num) /\ n.blocks[r] = old \o new
        /\ \A s \in Reqs : s # r => n.blocks[s] = m.blocks[s]
        /\ n.hashes = m.hashes /\ n.ncached = m.ncached
    <3>1. n = [m EXCEPT !.pool = GetNewBlocks(@, num), !.blocks[r] = @ \o new]
      BY <1>2 DEF TakeNew
    <3> HIDE DEF n, new
    <3> QED BY <3>1, <2>1 DEF ManagerShape
  <2> HIDE DEF n
  <2>3. /\ new \in Seq(Usable)
        /\ \A b \in Range(new) : m.pool.ref[b] = 0
        /\ \A b \in Blocks :
             n.pool.hash[b] = IF b \in Range(new) THEN NoHash ELSE m.pool.hash[b]
    BY <2>1, <2>2, GetNewBlocksFacts
  <2> HIDE DEF new
  <2>4. \A s \in Reqs : Range(m.blocks[s]) \subseteq Usable /\ Range(m.blocks[s]) \cap Range(new) = {}
    BY <2>3, HeldFacts
  \* held before, and cached as before
  <2>5. ASSUME NEW s \in Reqs, NEW i \in DOMAIN m.blocks[s]
        PROVE  n.pool.hash[m.blocks[s][i]] = m.pool.hash[m.blocks[s][i]]
    <3>1. m.blocks[s][i] \in Range(m.blocks[s])
      BY DEF Range
    <3> QED BY <3>1, <2>3, <2>4 DEF Usable
  <2>6. \A i \in DOMAIN n.blocks[r] :
          \/ i \in DOMAIN old /\ n.blocks[r][i] = old[i]
          \/ /\ i \in Int /\ i > Len(old) /\ n.blocks[r][i] \in Range(new)
             /\ n.pool.hash[n.blocks[r][i]] = NoHash
    <3> SUFFICES ASSUME NEW i \in DOMAIN n.blocks[r], i \notin DOMAIN old
                 PROVE  i \in Int /\ i > Len(old) /\ n.blocks[r][i] \in Range(new)
      <4>1. \A i \in DOMAIN old : n.blocks[r][i] = old[i]
        BY <2>1, <2>2, <2>3
      <4>2. \A b \in Range(new) : b \in Blocks
        BY <2>3, RangeFacts DEF Usable
      <4> QED BY <4>1, <4>2, <2>3
    <3>1. i \in Int /\ i > Len(old) /\ i - Len(old) \in DOMAIN new
          /\ n.blocks[r][i] = new[i - Len(old)]
      BY <2>1, <2>2, <2>3
    <3> QED BY <3>1 DEF Range
  <2>7. CachedTo(n, r, c)
    <3>1. CachedTo(m, r, c)
      BY DEF CountsBut
    <3>2. c \in 0 .. Len(n.blocks[r])
      BY <3>1, <2>1, <2>2, <2>3 DEF CachedTo
    <3>3. ASSUME NEW i \in DOMAIN n.blocks[r]
          PROVE  n.pool.hash[n.blocks[r][i]] # NoHash <=> i <= c
      <4>1. CASE i \in DOMAIN old /\ n.blocks[r][i] = old[i]
        BY <4>1, <3>1, <2>5 DEF CachedTo
      <4>2. CASE i \in Int /\ i > Len(old) /\ n.pool.hash[n.blocks[r][i]] = NoHash
        BY <4>2, <3>1, <2>1 DEF CachedTo
      <4> QED BY <4>1, <4>2, <2>6
    <3> QED BY <3>2, <3>3 DEF CachedTo
  <2>8. ASSUME NEW s \in Reqs, s # r PROVE CountTrue(n, s)
    <3>1. CountTrue(m, s) /\ n.blocks[s] = m.blocks[s]
      BY <2>2, <2>8 DEF CountsBut
    <3>2. n.ncached[s] = m.ncached[s] /\ n.hashes[s] = m.hashes[s]
      BY <2>2
    <3>3. \A i \in DOMAIN m.blocks[s] :
             n.pool.hash[m.blocks[s][i]] = m.pool.hash[m.blocks[s][i]]
      BY <2>5
    <3>4. \A c1 : CachedTo(m, s, c1) => CachedTo(n, s, c1)
      BY <3>1, <3>3 DEF CachedTo
    <3> QED BY <3>1, <3>2, <3>4 DEF CountTrue
  <2>9. SharedAreCached(n)
    <3> SUFFICES ASSUME NEW t \in Reqs, NEW s \in Reqs, t # s,
                        NEW i \in DOMAIN n.blocks[t], NEW j \in DOMAIN n.blocks[s],
                        n.blocks[t][i] = n.blocks[s][j]
                 PROVE  n.pool.hash[n.blocks[t][i]] # NoHash
      BY DEF SharedAreCached
    <3>1. \/ i \in DOMAIN m.blocks[t] /\ n.blocks[t][i] = m.blocks[t][i]
          \/ t = r /\ n.blocks[t][i] \in Range(new)
      BY <2>2, <2>6
    <3>2. \/ j \in DOMAIN m.blocks[s] /\ n.blocks[s][j] = m.blocks[s][j]
          \/ s = r /\ n.blocks[s][j] \in Range(new)
      BY <2>2, <2>6
    <3>3. /\ i \in DOMAIN m.blocks[t] /\ n.blocks[t][i] = m.blocks[t][i]
          /\ j \in DOMAIN m.blocks[s] /\ n.blocks[s][j] = m.blocks[s][j]
      BY <3>1, <3>2, <2>4 DEF Range
    <3>4. m.pool.hash[m.blocks[t][i]] # NoHash
      BY <3>3 DEF CountsBut, SharedAreCached
    <3> QED BY <3>3, <3>4, <2>5
  <2> QED BY <2>7, <2>8, <2>9 DEF CountsBut, n
<1> QED BY <1>1, <1>2

\* With a true count nothing is asserted in vain on the way to the cache.
LEMMA CountsAssert ==
  ASSUME NEW m, ManagerInv(m), NEW r \in Reqs, NEW q, NEW nc \in Nat, NEW nf \in Nat,
         CachedTo(m, r, nc), nc <= Len(m.hashes[r]), nc <= nf,
         nf * BlockSize <= Len(q.tokens)
  PROVE  CacheAsserts(m, r, q, nc, nf)
<1>1. m.blocks[r] \in Seq(Usable) /\ Len(m.hashes[r]) \in Nat
  BY HashesLen DEF ManagerInv
<1>2. nc > 0 => m.pool.hash[m.blocks[r][nc]] # NoHash
  BY <1>1 DEF CachedTo
<1>3. \A i \in nc + 1 .. nf : i \in DOMAIN m.blocks[r] => m.pool.hash[m.blocks[r][i]] = NoHash
  BY <1>1 DEF CachedTo
<1> QED BY <1>1, <1>2, <1>3 DEF CacheAsserts, CacheFullBlocksAsserts

\* The full blocks are cached, and the count is their number.
LEMMA CacheFullCounts ==
  ASSUME EnableCaching, NEW m, ManagerInv(m), NEW r \in Reqs, NEW q,
         NEW nc \in Nat, NEW nf \in Nat, nc <= nf, nf <= Len(m.blocks[r]),
         CountsBut(m, r, nc), nc <= Len(m.hashes[r]), CacheAsserts(m, r, q, nc, nf)
  PROVE  LET n == CacheFull(m, r, q, nc, nf)
         IN  /\ CacheCounts(n) /\ n.ncached[r] = nf
             /\ \A s \in Reqs : s # r => n.hashes[s] = m.hashes[s]
             /\ Len(n.hashes[r]) <= Larger(Len(m.hashes[r]), nf)
<1> DEFINE n == CacheFull(m, r, q, nc, nf)
           bs == m.blocks[r]
           hs == IF nf > nc THEN HashesUpTo(m, r, q, nf) ELSE m.hashes[r]
<1>1. /\ ManagerShape(m) /\ PoolInv(m.pool)
      /\ \A s \in Reqs : m.blocks[s] \in Seq(Usable)
      /\ bs \in Seq(Usable) /\ IsInjective(bs)
      /\ Len(m.hashes[r]) \in Nat
  BY HeldFacts, HashesLen DEF ManagerInv
<1>2. /\ n.pool = CacheFullBlocks(m.pool, bs, hs, nc, nf)
      /\ n.blocks = m.blocks
      /\ \A s \in Reqs : /\ n.hashes[s] = IF s = r THEN hs ELSE m.hashes[s]
                         /\ n.ncached[s] = IF s = r THEN nf ELSE m.ncached[s]
  <2>1. n = [m EXCEPT !.pool = CacheFullBlocks(@, bs, hs, nc, nf),
                      !.hashes[r] = hs, !.ncached[r] = nf]
    BY DEF CacheFull
  <2> HIDE DEF n, hs
  <2> QED BY <2>1, <1>1 DEF ManagerShape, ManagerInv
<1> HIDE DEF n
<1>3. /\ Chain(hs) /\ (nf > nc => \A i \in Int : 1 <= i /\ i <= nf => i \in DOMAIN hs)
      /\ Len(hs) <= Larger(Len(m.hashes[r]), nf) /\ nf <= Len(hs)
  BY <1>1, HashesUpToChain DEF ManagerInv, Larger
<1> HIDE DEF hs
<1>4. \A i \in nc + 1 .. nf : i \in DOMAIN bs
  BY <1>1
<1>5. \A i \in (nc + 1 .. nf) \cap DOMAIN bs :
         HashAt(hs[i], i) /\ m.pool.hash[bs[i]] = NoHash
  <2> SUFFICES ASSUME NEW i \in (nc + 1 .. nf) \cap DOMAIN bs
               PROVE  HashAt(hs[i], i) /\ m.pool.hash[bs[i]] = NoHash
    OBVIOUS
  <2>1. i \in Int /\ 1 <= i /\ i <= nf /\ nf > nc
    BY <1>1
  <2>2. HashAt(hs[i], i)
    BY <2>1, <1>3 DEF Chain
  <2>3. m.pool.hash[bs[i]] = NoHash
    BY <2>1 DEF CacheAsserts, CacheFullBlocksAsserts
  <2> QED BY <2>2, <2>3
<1>6. /\ \A i \in nc + 1 .. nf : n.pool.hash[bs[i]] # NoHash
      /\ \A b \in Blocks : (\A i \in nc + 1 .. nf : bs[i] # b)
                              => n.pool.hash[b] = m.pool.hash[b]
  <2>1. /\ \A i \in (nc + 1 .. nf) \cap DOMAIN bs : n.pool.hash[bs[i]] = hs[i]
        /\ \A b \in Blocks : (\A i \in (nc + 1 .. nf) \cap DOMAIN bs : bs[i] # b)
                                => n.pool.hash[b] = m.pool.hash[b]
    <3> DEFINE p == m.pool
    <3>1. n.pool = CacheFullBlocks(p, bs, hs, nc, nf)
      BY <1>2
    <3>2. PoolInv(p) /\ bs \in Seq(Usable) /\ IsInjective(bs)
      BY <1>1
    <3>3. \A i \in (nc + 1 .. nf) \cap DOMAIN bs :
             HashAt(hs[i], i) /\ p.hash[bs[i]] = NoHash
      BY <1>5
    <3>4. nc \in Int /\ nf \in Int
      OBVIOUS
    <3> HIDE DEF p, bs
    <3>5. LET q1 == CacheFullBlocks(p, bs, hs, nc, nf)
          IN  /\ \A i \in (nc + 1 .. nf) \cap DOMAIN bs : q1.hash[bs[i]] = hs[i]
              /\ \A b \in Blocks : (\A i \in (nc + 1 .. nf) \cap DOMAIN bs : bs[i] # b)
                                      => q1.hash[b] = p.hash[b]
      BY <3>2, <3>3, <3>4, CacheFullBlocksFacts
    <3> QED BY <3>1, <3>5 DEF p
  <2>2. \A i \in nc + 1 .. nf : i \in (nc + 1 .. nf) \cap DOMAIN bs
    BY <1>4
  <2>3. \A i \in (nc + 1 .. nf) \cap DOMAIN bs : hs[i] # NoHash
    BY <1>5 DEF HashAt
  <2> HIDE DEF bs
  <2>4. \A i \in nc + 1 .. nf : n.pool.hash[bs[i]] # NoHash
    BY <2>1, <2>2, <2>3
  <2>5. ASSUME NEW b \in Blocks, \A i \in nc + 1 .. nf : bs[i] # b
        PROVE  n.pool.hash[b] = m.pool.hash[b]
    BY <2>1, <2>5
  <2> QED BY <2>4, <2>5
<1>7. CachedTo(n, r, nf)
  <2> SUFFICES ASSUME NEW i \in DOMAIN bs
               PROVE  n.pool.hash[bs[i]] # NoHash <=> i <= nf
    BY <1>1, <1>2 DEF CachedTo
  <2>1. i \in Int /\ i >= 1 /\ bs[i] \in Blocks
    BY <1>1 DEF Usable
  <2>2. CASE i \in nc + 1 .. nf
    BY <2>2, <1>6
  <2>3. CASE i \notin nc + 1 .. nf
    <3>1. \A j \in nc + 1 .. nf : bs[j] # bs[i]
      BY <2>3, <1>1, <1>4 DEF IsInjective
    <3>2. n.pool.hash[bs[i]] = m.pool.hash[bs[i]]
      BY <3>1, <2>1, <1>6
    <3>3. m.pool.hash[bs[i]] # NoHash <=> i <= nc
      BY DEF CountsBut, CachedTo
    <3> QED BY <3>2, <3>3, <2>1, <2>3
  <2> QED BY <2>2, <2>3
\* the blocks cached here are r's alone
<1>8. ASSUME NEW s \in Reqs, s # r, NEW i \in DOMAIN m.blocks[s]
      PROVE  n.pool.hash[m.blocks[s][i]] = m.pool.hash[m.blocks[s][i]]
  <2>1. m.blocks[s][i] \in Blocks
    BY <1>1 DEF Usable
  <2>2. \A j \in nc + 1 .. nf : bs[j] # m.blocks[s][i]
    BY <1>4, <1>5, <1>8 DEF CountsBut, SharedAreCached
  <2> QED BY <2>1, <2>2, <1>6
<1>9. ASSUME NEW s \in Reqs PROVE CountTrue(n, s)
  <2>1. CASE s = r
    <3>1. nf # Absent
      BY DEF Absent
    <3> QED BY <3>1, <2>1, <1>2, <1>3, <1>7 DEF CountTrue
  <2>2. CASE s # r
    <3>1. CountTrue(m, s)
      BY <2>2 DEF CountsBut
    <3>2. /\ n.ncached[s] = m.ncached[s] /\ n.hashes[s] = m.hashes[s]
          /\ n.blocks[s] = m.blocks[s]
      BY <2>2, <1>2
    <3>3. \A c : CachedTo(m, s, c) => CachedTo(n, s, c)
      BY <2>2, <3>2, <1>8 DEF CachedTo
    <3> QED BY <3>1, <3>2, <3>3 DEF CountTrue
  <2> QED BY <2>1, <2>2
<1>10. SharedAreCached(n)
  <2> SUFFICES ASSUME NEW t \in Reqs, NEW s \in Reqs, t # s,
                      NEW i \in DOMAIN m.blocks[t], NEW j \in DOMAIN m.blocks[s],
                      m.blocks[t][i] = m.blocks[s][j]
               PROVE  n.pool.hash[m.blocks[t][i]] # NoHash
    BY <1>2 DEF SharedAreCached
  <2>1. m.pool.hash[m.blocks[t][i]] # NoHash
    BY DEF CountsBut, SharedAreCached
  <2>2. t # r \/ s # r
    OBVIOUS
  <2> QED BY <2>1, <2>2, <1>8
<1>11. CacheCounts(n)
  BY <1>9, <1>10 DEF CacheCounts
<1> QED BY <1>2, <1>3, <1>11 DEF n

\* Taking hits from the free queue takes no more than were counted.
LEMMA TakeHitsSpace ==
  ASSUME NEW m, ManagerInv(m), NEW r \in Reqs, NEW comp \in Seq(Usable)
  PROVE  /\ NumEvictable(m.pool, comp) \in Nat
         /\ NumFreeBlocks(m.pool) \in Nat
         /\ NumFreeBlocks(TakeHits(m, r, comp).pool)
              >= NumFreeBlocks(m.pool) - NumEvictable(m.pool, comp)
<1> DEFINE p == m.pool
           n == TakeHits(m, r, comp)
           idle == {b \in Range(comp) : p.ref[b] = 0 /\ b # NullBlock}
           places == {i \in DOMAIN comp : p.ref[comp[i]] = 0}
<1>1. /\ PoolShape(p) /\ p.free \in Seq(Blocks) /\ IsInjective(p.free)
      /\ NumFreeBlocks(p) = Len(p.free) /\ Len(p.free) \in Nat
  BY DEF ManagerInv, PoolInv, PoolShape, FreeQueueExact, NumFreeBlocks
<1>2. IsFiniteSet(places) /\ Cardinality(places) \in Nat
  <2>1. IsFiniteSet(DOMAIN comp)
    BY FS_Interval
  <2> QED BY <2>1, FS_Subset, FS_CardinalityType
<1>3. NumEvictable(p, comp) = Cardinality(places)
  BY DEF NumEvictable
<1>4. IsFiniteSet(idle) /\ Cardinality(idle) <= Cardinality(places)
  <2> DEFINE f == [i \in places |-> comp[i]]
  <2>1. f \in Surjection(places, idle)
    <3>1. \A i \in places : comp[i] \in idle
      BY DEF Range, Usable
    <3>2. \A b \in idle : \E i \in places : f[i] = b
      BY DEF Range
    <3> QED BY <3>1, <3>2 DEF Surjection
  <2> QED BY <2>1, <1>2, FS_Surjection
<1>5. n.pool = IF EnableCaching THEN Touch(p, comp) ELSE p
  BY DEF TakeHits, ManagerInv, ManagerShape
<1>6. CASE ~ EnableCaching
  <2>1. n.pool = p
    BY <1>5, <1>6
  <2> HIDE DEF n, p, places
  <2> QED BY <2>1, <1>1, <1>2, <1>3 DEF n, p
<1>7. CASE EnableCaching
  <2>1. n.pool.free = Without(p.free, idle)
    BY <1>1, <1>5, <1>7 DEF Touch, PoolShape
  <2> HIDE DEF n, p, idle, places
  <2>2. /\ n.pool.free \in Seq(Blocks) /\ IsInjective(n.pool.free)
        /\ Range(n.pool.free) = Range(p.free) \ idle
    BY <2>1, <1>1, WithoutFacts
  <2>3. /\ Cardinality(Range(p.free)) = Len(p.free) /\ IsFiniteSet(Range(p.free))
        /\ Cardinality(Range(n.pool.free)) = Len(n.pool.free)
    BY <2>2, <1>1, CardinalityOfDistinct
  <2>4. /\ Cardinality(Range(p.free) \ idle)
             = Cardinality(Range(p.free)) - Cardinality(Range(p.free) \cap idle)
        /\ Cardinality(Range(p.free) \cap idle) <= Cardinality(idle)
        /\ Cardinality(Range(p.free) \cap idle) \in Nat /\ Cardinality(idle) \in Nat
    BY <2>3, <1>4, FS_Difference, FS_Intersection, FS_CardinalityType
  <2>5. Len(n.pool.free) >= Len(p.free) - Cardinality(places)
    BY <2>2, <2>3, <2>4, <1>1, <1>2, <1>4
  <2>6. NumFreeBlocks(n.pool) = Len(n.pool.free)
    BY DEF NumFreeBlocks
  <2> QED BY <2>5, <2>6, <1>1, <1>2, <1>3 DEF n, p
<1> QED BY <1>6, <1>7

\* As many blocks are taken as were asked for.
LEMMA TakeNewLen ==
  ASSUME NEW m, ManagerInv(m), NEW r \in Reqs, NEW num \in 0 .. NumFreeBlocks(m.pool)
  PROVE  LET n == TakeNew(m, r, num)
         IN  /\ Len(n.blocks[r]) = Len(m.blocks[r]) + num
             /\ n.hashes = m.hashes /\ n.ncached = m.ncached
<1>1. m.blocks[r] \in Seq(Usable) /\ NumFreeBlocks(m.pool) \in Nat
  BY DEF ManagerInv, PoolInv, PoolShape, NumFreeBlocks
<1>2. CASE num <= 0
  BY <1>1, <1>2 DEF TakeNew
<1>3. CASE num > 0
  <2> DEFINE n == TakeNew(m, r, num)
             new == NewBlocks(m.pool, num)
  <2>1. new \in Seq(Usable) /\ Len(new) = num
    <3>1. Len(new) = num
      BY SplitFacts DEF ManagerInv, PoolInv, PoolShape, FreeQueueExact, NumFreeBlocks, NewBlocks
    <3> HIDE DEF new
    <3>2. new \in Seq(Usable)
      BY GetNewBlocksFacts DEF ManagerInv, new
    <3> QED BY <3>1, <3>2
  <2>2. n = [m EXCEPT !.pool = GetNewBlocks(@, num), !.blocks[r] = @ \o new]
    BY <1>3 DEF TakeNew
  <2> HIDE DEF n, new
  <2>3. n.blocks[r] = m.blocks[r] \o new /\ n.hashes = m.hashes /\ n.ncached = m.ncached
    BY <2>2 DEF ManagerInv, ManagerShape
  <2>4. Len(m.blocks[r] \o new) = Len(m.blocks[r]) + Len(new)
    <3> DEFINE old == m.blocks[r]
    <3>1. old \in Seq(Usable)
      BY <1>1
    <3> HIDE DEF old
    <3>2. Len(old \o new) = Len(old) + Len(new)
      BY <3>1, <2>1
    <3> QED BY <3>2 DEF old
  <2>5. Len(n.blocks[r]) = Len(m.blocks[r]) + num
    BY <2>1, <2>3, <2>4
  <2> QED BY <2>3, <2>5 DEF n
<1> QED BY <1>2, <1>3

\* What allocate_slots is given: n tokens that the request has, behind those
\* counted as computed, and a count of cached blocks that agrees with these
Allocatable(m, r, q, n, comp) ==
  /\ q.computed \in Nat /\ q.spec = << >> /\ n \in Nat \ {0}
  /\ Len(q.tokens) \in Nat /\ Len(q.tokens) <= MaxModelLen
  /\ q.computed + Len(comp) * BlockSize + n <= Len(q.tokens)
  /\ HitsFit(m.pool, comp) /\ (comp = << >> \/ m.blocks[r] = << >>)
  /\ HashesOfTokens(m, r, q.tokens)
  /\ EnableCaching =>
       /\ CacheCounts(m)
       /\ Len(comp) <= Len(m.hashes[r])
       /\ IF m.ncached[r] = Absent THEN q.computed = 0
          ELSE comp = << >> /\ m.ncached[r] = q.computed \div BlockSize

\* The arithmetic of allocate_slots: a block for every token, no more full
\* blocks than there are, and no fewer than are cached
LEMMA AllocationNumbers ==
  ASSUME NEW m, ManagerInv(m), NEW r \in Reqs, NEW q, NEW n, NEW comp,
         Allocatable(m, r, q, n, comp)
  PROVE  LET total == q.computed + Len(comp) * BlockSize + n
             nf == NumFull(q, q.computed + Len(comp) * BlockSize, n)
             nc == NumCached(m, r, comp)
             all == CDiv(total, BlockSize)
         IN  /\ nf = total \div BlockSize /\ nf \in Nat /\ nf * BlockSize <= Len(q.tokens)
             /\ nf <= all /\ all \in Nat
             /\ all <= MaxNumBlocksPerReq /\ MaxNumBlocksPerReq \in Nat
             /\ NumNewBlocks(m, r, q, n, comp, 0) = all - Len(m.blocks[r]) - Len(comp)
             /\ EnableCaching => nc \in Nat /\ nc <= nf /\ nc <= Len(m.hashes[r])
<1> DEFINE hit == Len(comp) * BlockSize
           total == q.computed + hit + n
           nf == NumFull(q, q.computed + hit, n)
           nc == NumCached(m, r, comp)
           all == CDiv(total, BlockSize)
<1>1. BlockSize \in Nat /\ BlockSize > 0 /\ MaxModelLen \in Nat
  BY ManagerAssumption
<1>2. /\ q.computed \in Nat /\ Len(q.spec) = 0 /\ n \in Nat /\ n > 0
      /\ Len(q.tokens) \in Nat /\ Len(q.tokens) <= MaxModelLen /\ total <= Len(q.tokens)
      /\ comp \in Seq(Usable) /\ Len(comp) \in Nat
  BY DEF Allocatable, HitsFit
<1>3. hit \in Nat
  BY <1>1, <1>2
<1> HIDE DEF hit
<1>4. total \in Nat /\ hit <= total /\ q.computed <= total /\ total <= MaxModelLen
  BY <1>1, <1>2, <1>3
<1>5. nf = total \div BlockSize
  BY <1>2, <1>3 DEF NumFull
<1>6. NumNewBlocks(m, r, q, n, comp, 0) = all - Len(m.blocks[r]) - Len(comp)
  <2>1. q.computed + hit + n + 0 = total
    BY <1>4
  <2> QED BY <2>1 DEF NumNewBlocks, hit
<1> HIDE DEF total, nf
<1>7. /\ nf \in Nat /\ nf * BlockSize <= total
      /\ all \in Nat /\ nf <= all /\ all <= MaxNumBlocksPerReq /\ MaxNumBlocksPerReq \in Nat
  BY <1>1, <1>4, <1>5, DivFacts, CDivFacts DEF MaxNumBlocksPerReq
<1>8. nf * BlockSize <= Len(q.tokens)
  BY <1>1, <1>2, <1>4, <1>7 DEF total
<1>9. ASSUME EnableCaching PROVE nc \in Nat /\ nc <= nf /\ nc <= Len(m.hashes[r])
  <2>1. CASE m.ncached[r] = Absent
    <3>1. nc = Len(comp)
      BY <2>1 DEF NumCached
    <3>2. Len(comp) <= nf
      BY <1>2, <1>4, <1>5, DivFacts DEF hit
    <3> QED BY <3>1, <3>2, <1>2, <1>9 DEF Allocatable
  <2>2. CASE m.ncached[r] # Absent
    <3>1. nc = q.computed \div BlockSize /\ nc = m.ncached[r]
      BY <2>2, <1>9 DEF NumCached, Allocatable
    <3>2. nc \in Nat /\ nc <= nf
      BY <3>1, <1>2, <1>4, <1>5, DivFacts, CDivFacts
    <3>3. nc <= Len(m.hashes[r])
      BY <2>2, <3>1, <1>9 DEF Allocatable, CacheCounts, CountTrue
    <3> QED BY <3>2, <3>3
  <2> QED BY <2>1, <2>2
<1> QED BY <1>5, <1>6, <1>7, <1>8, <1>9 DEF total, nf, hit

\* What allocate_slots does for n tokens behind the hits comp when it takes got new
\* blocks
AllocatedBy(m, r, q, n, comp, got, res) ==
  LET hits == TakeHits(FreeSkipped(m, r, q), r, comp)
      taken == TakeNew(hits, r, got)
      total == q.computed + Len(comp) * BlockSize + n
      nc == NumCached(m, r, comp)
      nf == total \div BlockSize
  IN  /\ got \in 0 .. NumFreeBlocks(hits.pool)
      /\ res.blocks = NewBlocks(hits.pool, got)
      /\ CDiv(total, BlockSize) <= Len(hits.blocks[r]) + got
      /\ IF EnableCaching
         THEN CacheAsserts(taken, r, q, nc, nf) /\ res.m = CacheFull(taken, r, q, nc, nf)
         ELSE res.m = taken

\* No assertion of allocate_slots or of cache_full_blocks fails, and the counts
\* remain true: the count of the request is then the number of its full blocks.
LEMMA AllocateSlotsPath ==
  ASSUME SlidingWindow = 0, NEW m, ManagerInv(m), NEW r \in Reqs, NEW q, NEW n,
         NEW comp, Allocatable(m, r, q, n, comp)
  PROVE  LET res == AllocateSlots(m, r, q, n, comp, 0)
             total == q.computed + Len(comp) * BlockSize + n
         IN  /\ res.outcome \in {"ok", "full"}
             /\ EnableCaching => CacheCounts(res.m)
             /\ EnableCaching /\ res.outcome = "ok"
                  => res.m.ncached[r] = total \div BlockSize
             /\ res.outcome = "full" => res.m.ncached = m.ncached
             /\ \A s \in Reqs : s # r => res.m.hashes[s] = m.hashes[s]
             /\ HashesOfTokens(res.m, r, q.tokens)
             /\ res.outcome = "full" => res.m = FreeSkipped(m, r, q)
             /\ res.outcome = "ok" => \E got : AllocatedBy(m, r, q, n, comp, got, res)
<1> DEFINE freed == FreeSkipped(m, r, q)
           num == NumNewBlocks(freed, r, q, n, comp, 0)
           hits == TakeHits(freed, r, comp)
           got == IF num <= 0 THEN 0 ELSE NumAllocated(hits, r, num)
           taken == TakeNew(hits, r, got)
           nc == NumCached(m, r, comp)
           total == q.computed + Len(comp) * BlockSize + n
           nf == NumFull(q, q.computed + Len(comp) * BlockSize, n)
           cached == CacheFull(taken, r, q, nc, nf)
           all == CDiv(total, BlockSize)
           space == HasSpace(freed, r, q, n, comp, 0)
           ok == CacheAsserts(taken, r, q, nc, nf)
           res == AllocateSlots(m, r, q, n, comp, 0)
<1>1. res = IF ~ space THEN [outcome |-> "full", m |-> freed, blocks |-> << >>]
            ELSE IF num > 0 /\ got <= 0
            THEN [outcome |-> "assert", m |-> hits, blocks |-> << >>]
            ELSE IF ~ EnableCaching
            THEN [outcome |-> "ok", m |-> taken, blocks |-> NewBlocks(hits.pool, got)]
            ELSE IF ~ ok
            THEN [outcome |-> "assert", m |-> taken, blocks |-> NewBlocks(hits.pool, got)]
            ELSE [outcome |-> "ok", m |-> cached, blocks |-> NewBlocks(hits.pool, got)]
  BY Zenon DEF AllocateSlots
<1>2. /\ ManagerInv(freed) /\ \A s \in Reqs : freed.blocks[s] = m.blocks[s]
      /\ freed.hashes = m.hashes /\ freed.ncached = m.ncached
      /\ freed.pool.hash = m.pool.hash
  BY FreeSkippedFacts
<1> HIDE DEF freed, res
<1>3. EnableCaching => CacheCounts(freed)
  <2> SUFFICES ASSUME EnableCaching PROVE CacheCounts(freed)
    OBVIOUS
  <2>1. CacheCounts(m)
    BY DEF Allocatable
  <2> QED BY <2>1, <1>2, HashesLen, CountsOfSame
<1>4. Allocatable(freed, r, q, n, comp)
  BY <1>2, <1>3 DEF Allocatable, HitsFit, HashesOfTokens
<1>5. /\ nf = total \div BlockSize /\ nf \in Nat /\ nf * BlockSize <= Len(q.tokens)
      /\ nf <= all /\ all \in Nat /\ all <= MaxNumBlocksPerReq /\ MaxNumBlocksPerReq \in Nat
      /\ num = all - Len(freed.blocks[r]) - Len(comp)
      /\ EnableCaching => nc \in Nat /\ nc <= nf /\ nc <= Len(freed.hashes[r])
  <2>1. nc = NumCached(freed, r, comp)
    BY <1>2 DEF NumCached
  <2> HIDE DEF nc
  <2> QED BY <2>1, <1>2, <1>4, AllocationNumbers
<1>6. /\ comp \in Seq(Usable) /\ Len(comp) \in Nat /\ HitsFit(freed.pool, comp)
      /\ comp = << >> \/ freed.blocks[r] = << >>
      /\ freed.blocks[r] \in Seq(Usable) /\ Len(freed.blocks[r]) \in Nat
  BY <1>2, <1>4 DEF Allocatable, HitsFit, ManagerInv
<1>7. /\ space <=> num <= NumFreeBlocks(freed.pool) - NumEvictable(freed.pool, comp)
      /\ num \in Int
  BY <1>5, <1>6 DEF HasSpace
<1> HIDE DEF num, nf, all, space, nc, total
\* the hits
<1>8. /\ ManagerInv(hits) /\ hits.hashes = freed.hashes /\ hits.ncached = freed.ncached
      /\ hits.blocks[r] = freed.blocks[r] \o comp
      /\ Len(hits.blocks[r]) = Len(freed.blocks[r]) + Len(comp)
  <2>1. /\ ManagerInv(hits) /\ hits.hashes = freed.hashes /\ hits.ncached = freed.ncached
        /\ hits.blocks[r] = freed.blocks[r] \o comp
    <3>1. \A i \in DOMAIN comp : HashAt(freed.pool.hash[comp[i]], i)
      BY <1>6 DEF HitsFit
    <3>2. /\ ManagerInv(freed) /\ comp \in Seq(Usable)
          /\ comp = << >> \/ freed.blocks[r] = << >>
      BY <1>2, <1>6
    <3>3. /\ ManagerInv(TakeHits(freed, r, comp))
          /\ TakeHits(freed, r, comp).hashes = freed.hashes
          /\ TakeHits(freed, r, comp).ncached = freed.ncached
          /\ TakeHits(freed, r, comp).blocks[r] = freed.blocks[r] \o comp
      BY ONLY r \in Reqs, <3>1, <3>2, TakeHitsKeeps
    <3> QED BY <3>3
  <2> HIDE DEF hits
  <2> QED BY <2>1, <1>6
<1>9. /\ NumFreeBlocks(hits.pool) \in Nat
      /\ NumFreeBlocks(hits.pool) >= NumFreeBlocks(freed.pool) - NumEvictable(freed.pool, comp)
      /\ NumFreeBlocks(freed.pool) - NumEvictable(freed.pool, comp) \in Int
  BY <1>2, <1>6, <1>8, TakeHitsSpace
<1>10. EnableCaching => CountsBut(hits, r, nc)
  <2> SUFFICES ASSUME EnableCaching PROVE CountsBut(hits, r, nc)
    OBVIOUS
  <2> DEFINE c == IF freed.ncached[r] = Absent THEN 0 ELSE freed.ncached[r]
  <2>1. CountTrue(freed, r) /\ \A s \in Reqs : CountTrue(freed, s)
    BY <1>3 DEF CacheCounts
  <2>2. CachedTo(freed, r, c)
    <3>1. CASE freed.ncached[r] = Absent
      <4>1. freed.blocks[r] = << >> /\ c = 0
        BY <3>1, <2>1 DEF CountTrue
      <4> QED BY <4>1 DEF CachedTo
    <3>2. CASE freed.ncached[r] # Absent
      BY <3>2, <2>1 DEF CountTrue
    <3> QED BY <3>1, <3>2
  <2>3. CountsBut(freed, r, c)
    BY <2>1, <2>2, <1>3 DEF CountsBut, CacheCounts
  <2>4. nc = IF comp = << >> THEN c ELSE Len(comp)
    <3>1. CASE freed.ncached[r] = Absent
      BY <3>1, <1>2, <1>6 DEF nc, NumCached
    <3>2. CASE freed.ncached[r] # Absent
      BY <3>2, <1>2, <1>4 DEF nc, NumCached, Allocatable
    <3> QED BY <3>1, <3>2
  <2> HIDE DEF c, hits
  <2>5. CountsBut(TakeHits(freed, r, comp), r, IF comp = << >> THEN c ELSE Len(comp))
    BY <2>3, <1>2, <1>6, TakeHitsCounts
  <2> QED BY <2>4, <2>5 DEF hits
<1> HIDE DEF hits
\* the new blocks: as many as are missing
<1>11. ASSUME space
       PROVE  /\ got \in 0 .. NumFreeBlocks(hits.pool) /\ (num > 0 => got = num)
              /\ all <= Len(hits.blocks[r]) + got
  <2> DEFINE f == NumFreeBlocks(hits.pool)
             l == Len(hits.blocks[r])
  <2>1. f \in Nat /\ l \in Nat /\ num = all - l /\ num \in Int
    BY <1>5, <1>6, <1>7, <1>8, <1>9
  <2>2. num <= f /\ num <= MaxNumBlocksPerReq - l
    BY <2>1, <1>5, <1>7, <1>9, <1>11
  <2>3. got = IF num <= 0 THEN 0 ELSE Smaller(num, Smaller(f, MaxNumBlocksPerReq - l))
    BY DEF NumAllocated
  <2> HIDE DEF got, f, l
  <2>4. CASE num <= 0
    BY <2>1, <2>3, <2>4, <1>5 DEF f, l
  <2>5. CASE num > 0
    <3>1. got = num
      BY <2>1, <2>2, <2>3, <2>5, <1>5 DEF Smaller
    <3> QED BY <3>1, <2>1, <2>2, <2>5, <1>5 DEF f, l
  <2> QED BY <2>1, <2>4, <2>5
<1> HIDE DEF got
<1>12. ASSUME space
       PROVE  /\ ManagerInv(taken) /\ nf <= Len(taken.blocks[r])
              /\ taken.hashes = freed.hashes /\ taken.ncached = freed.ncached
              /\ EnableCaching => CountsBut(taken, r, nc)
  <2>1. got \in Int /\ got <= NumFreeBlocks(hits.pool)
    BY <1>9, <1>11, <1>12
  <2>2. ManagerInv(taken)
    BY <2>1, <1>8, TakeNewKeeps
  <2>3. /\ Len(taken.blocks[r]) = Len(hits.blocks[r]) + got
        /\ taken.hashes = hits.hashes /\ taken.ncached = hits.ncached
    BY <1>8, <1>11, <1>12, TakeNewLen
  <2>4. EnableCaching => CountsBut(taken, r, nc)
    BY <2>1, <1>8, <1>10, TakeNewCounts
  <2> HIDE DEF taken
  <2>5. nf <= Len(taken.blocks[r])
    <3>1. nf <= all /\ nf \in Nat /\ all \in Nat
      BY <1>5
    <3>2. all <= Len(hits.blocks[r]) + got /\ got \in Nat
      BY <1>9, <1>11, <1>12
    <3>3. Len(hits.blocks[r]) \in Nat
      BY <1>6, <1>8
    <3> QED BY <3>1, <3>2, <3>3, <2>3
  <2> QED BY <2>2, <2>3, <2>4, <2>5, <1>8
<1> HIDE DEF taken
<1>13. ASSUME space, EnableCaching
       PROVE  /\ ok /\ CacheCounts(cached) /\ cached.ncached[r] = nf
              /\ \A s \in Reqs : s # r => cached.hashes[s] = m.hashes[s]
              /\ HashesOfTokens(cached, r, q.tokens)
  <2>1. /\ ManagerInv(taken) /\ CountsBut(taken, r, nc) /\ nc \in Nat /\ nf \in Nat
        /\ nc <= nf /\ nc <= Len(taken.hashes[r]) /\ nf <= Len(taken.blocks[r])
        /\ nf * BlockSize <= Len(q.tokens)
    BY <1>5, <1>12, <1>13
  <2>2. ok
    BY <2>1, CountsAssert DEF CountsBut
  <2>3. /\ CacheCounts(cached) /\ cached.ncached[r] = nf
        /\ \A s \in Reqs : s # r => cached.hashes[s] = taken.hashes[s]
        /\ Len(cached.hashes[r]) <= Larger(Len(taken.hashes[r]), nf)
    BY <2>1, <2>2, <1>13, CacheFullCounts
  <2>4. ManagerInv(cached)
    BY <2>1, <2>2, <1>13, CacheFullKeeps
  <2> HIDE DEF cached, ok
  <2>5. HashesOfTokens(cached, r, q.tokens)
    <3>1. Len(cached.hashes[r]) \in Nat /\ Len(taken.hashes[r]) \in Nat
      BY <2>1, <2>4, HashesLen
    <3>2. Len(cached.hashes[r]) <= Len(taken.hashes[r]) \/ Len(cached.hashes[r]) <= nf
      BY <2>3 DEF Larger
    <3>3. Len(taken.hashes[r]) * BlockSize <= Len(q.tokens) /\ Len(q.tokens) \in Nat
      BY <1>4, <1>12, <1>13 DEF Allocatable, HashesOfTokens
    <3>4. BlockSize \in Nat
      BY ManagerAssumption
    <3>5. ASSUME NEW x \in Nat, NEW y \in Nat, x <= y, y * BlockSize <= Len(q.tokens)
          PROVE  x * BlockSize <= Len(q.tokens)
      <4>1. x * BlockSize <= y * BlockSize /\ x * BlockSize \in Nat /\ y * BlockSize \in Nat
        BY <3>4, <3>5
      <4> QED BY <4>1, <3>3, <3>5
    <3> QED BY <3>1, <3>2, <3>3, <3>5, <2>1 DEF HashesOfTokens
  <2> QED BY <2>2, <2>3, <2>5, <1>2, <1>12, <1>13
<1> HIDE DEF cached, ok
<1>14. CASE ~ space
  <2>1. res.outcome = "full" /\ res.m = freed
    BY <1>1, <1>14
  <2> QED BY <2>1, <1>2, <1>3, <1>4 DEF res, Allocatable, freed
<1>15. CASE space /\ ~ EnableCaching
  <2>1. ~ (num > 0 /\ got <= 0)
    BY <1>7, <1>11, <1>15
  <2>2. res.outcome = "ok" /\ res.m = taken /\ res.blocks = NewBlocks(hits.pool, got)
    BY <2>1, <1>1, <1>15
  <2>3. taken.hashes = m.hashes /\ HashesOfTokens(taken, r, q.tokens)
    BY <1>2, <1>4, <1>12, <1>15 DEF Allocatable, HashesOfTokens
  <2>4. AllocatedBy(m, r, q, n, comp, got, res)
    BY <2>2, <1>11, <1>15 DEF AllocatedBy, freed, hits, taken, all, total
  <2> QED BY <2>2, <2>3, <2>4, <1>15 DEF res
<1>16. CASE space /\ EnableCaching
  <2>1. ~ (num > 0 /\ got <= 0)
    BY <1>7, <1>11, <1>16
  <2>2. res.outcome = "ok" /\ res.m = cached /\ res.blocks = NewBlocks(hits.pool, got)
    BY <2>1, <1>1, <1>13, <1>16
  <2>3. AllocatedBy(m, r, q, n, comp, got, res)
    <3>1. nf = total \div BlockSize /\ ok
      BY <1>5, <1>13, <1>16
    <3> QED BY <3>1, <2>2, <1>11, <1>16
            DEF AllocatedBy, freed, hits, taken, all, total, nc, ok, cached
  <2> QED BY <2>2, <2>3, <1>5, <1>13, <1>16 DEF res, total
<1> QED BY <1>14, <1>15, <1>16

\* There are finitely many requests.
LEMMA ReqsFinite == IsFiniteSet(Reqs)
BY ManagerAssumption

\* The part about the counts
LEMMA AllocateSlotsCounts ==
  ASSUME SlidingWindow = 0, NEW m, ManagerInv(m), NEW r \in Reqs, NEW q, NEW n,
         NEW comp, Allocatable(m, r, q, n, comp)
  PROVE  LET res == AllocateSlots(m, r, q, n, comp, 0)
             total == q.computed + Len(comp) * BlockSize + n
         IN  /\ res.outcome \in {"ok", "full"}
             /\ EnableCaching => CacheCounts(res.m)
             /\ EnableCaching /\ res.outcome = "ok"
                  => res.m.ncached[r] = total \div BlockSize
             /\ res.outcome = "full" => res.m.ncached = m.ncached
             /\ \A s \in Reqs : s # r => res.m.hashes[s] = m.hashes[s]
             /\ HashesOfTokens(res.m, r, q.tokens)
BY AllocateSlotsPath

\* An allocation appends blocks nobody held, caches full blocks of the request that
\* were not, and computes the hashes this takes from the request's tokens.
Allocated(m, r, q, n, comp, new, k) ==
  LET total == q.computed + Len(comp) * BlockSize + n
  IN  /\ new \in Seq(Usable) /\ k.blocks[r] = (m.blocks[r] \o comp) \o new
      /\ total <= Len(k.blocks[r]) * BlockSize
      /\ \A b \in Range(new) : /\ b \notin Range(comp)
                               /\ \A s \in Reqs : b \notin Range(m.blocks[s])
      /\ \A b \in Blocks : m.pool.hash[b] # NoHash /\ b \notin Range(new)
                             => k.pool.hash[b] = m.pool.hash[b]
      /\ \A b \in Blocks : k.pool.hash[b] # NoHash =>
           \/ k.pool.hash[b] = m.pool.hash[b] /\ b \notin Range(new)
           \/ \E i \in DOMAIN k.blocks[r] \cap DOMAIN k.hashes[r] :
                /\ k.blocks[r][i] = b /\ k.pool.hash[b] = k.hashes[r][i]
                /\ i * BlockSize <= total
      /\ DOMAIN m.hashes[r] \subseteq DOMAIN k.hashes[r]
      /\ \A i \in DOMAIN k.hashes[r] :
            k.hashes[r][i] = IF i \in DOMAIN m.hashes[r] THEN m.hashes[r][i]
                             ELSE BlockHash(r, q.tokens, i)
      /\ Len(k.hashes[r]) = Len(m.hashes[r]) \/ Len(k.hashes[r]) * BlockSize <= total

\* The hashes up to a position are those known and those of the tokens.
LEMMA HashesUpToElements ==
  ASSUME NEW m, ManagerInv(m), NEW r \in Reqs, NEW q, NEW nf \in Int
  PROVE  LET hs == HashesUpTo(m, r, q, nf)
         IN  /\ DOMAIN m.hashes[r] \subseteq DOMAIN hs
             /\ \A i \in DOMAIN hs :
                  hs[i] = IF i \in DOMAIN m.hashes[r] THEN m.hashes[r][i]
                          ELSE BlockHash(r, q.tokens, i)
<1> DEFINE old == m.hashes[r]
           l == Len(old)
           k == Larger(0, nf - l)
           more == [i \in 1 .. k |-> BlockHash(r, q.tokens, l + i)]
           hs == old \o more
<1>1. PICK S : old \in Seq(S)
  BY DEF ManagerInv, Chain
<1>2. l \in Nat /\ DOMAIN old = 1 .. l
  BY <1>1
<1> HIDE DEF l
<1>3. k \in Nat
  BY <1>2 DEF Larger
<1> HIDE DEF k
<1> DEFINE U == S \cup {more[i] : i \in 1 .. k}
<1>4. more \in Seq(U) /\ Len(more) = k /\ old \in Seq(U)
  <2>1. \A i \in 1 .. k : more[i] \in U
    OBVIOUS
  <2>2. old \in Seq(U)
    <3>1. S \subseteq U
      OBVIOUS
    <3> HIDE DEF U, old
    <3> QED BY <3>1, <1>1, SeqMonotonic
  <2>3. more = [i \in 1 .. k |-> more[i]]
    OBVIOUS
  <2> HIDE DEF U, more, old
  <2> QED BY <2>1, <2>2, <2>3, <1>3
<1>5. \A i \in 1 .. k : more[i] = BlockHash(r, q.tokens, l + i)
  OBVIOUS
<1> HIDE DEF more, U, old
<1>6. /\ DOMAIN hs = 1 .. l + k
      /\ \A i \in 1 .. l + k : hs[i] = IF i <= l THEN old[i] ELSE more[i - l]
  BY <1>2, <1>3, <1>4 DEF l
<1> HIDE DEF hs
<1>7. DOMAIN old \subseteq DOMAIN hs
  BY <1>2, <1>3, <1>6
<1>8. ASSUME NEW i \in DOMAIN hs
      PROVE  hs[i] = IF i \in DOMAIN old THEN old[i] ELSE BlockHash(r, q.tokens, i)
  <2>1. i \in 1 .. l + k
    BY <1>6
  <2>2. CASE i <= l
    <3>1. i \in DOMAIN old
      BY <2>1, <2>2, <1>2
    <3> QED BY <2>1, <2>2, <3>1, <1>6
  <2>3. CASE ~ (i <= l)
    <3>1. i \notin DOMAIN old /\ i - l \in 1 .. k /\ l + (i - l) = i
      BY <2>1, <2>3, <1>2, <1>3
    <3>2. hs[i] = more[i - l]
      BY <2>1, <2>3, <1>6
    <3> QED BY <3>1, <3>2, <1>5
  <2> QED BY <2>2, <2>3
<1>9. HashesUpTo(m, r, q, nf) = hs
  BY DEF HashesUpTo, hs, more, old, k, l
<1> QED BY <1>7, <1>8, <1>9 DEF old

\* The blocks taken are fresh.
LEMMA TakeNewEffect ==
  ASSUME NEW m, ManagerInv(m), NEW r \in Reqs, NEW num \in 0 .. NumFreeBlocks(m.pool)
  PROVE  LET n == TakeNew(m, r, num)
             new == NewBlocks(m.pool, num)
         IN  /\ new \in Seq(Usable) /\ Len(new) = num
             /\ n.blocks[r] = m.blocks[r] \o new
             /\ \A b \in Range(new) : \A s \in Reqs : b \notin Range(m.blocks[s])
             /\ \A b \in Blocks :
                  n.pool.hash[b] = IF b \in Range(new) THEN NoHash ELSE m.pool.hash[b]
<1> DEFINE n == TakeNew(m, r, num)
           new == NewBlocks(m.pool, num)
           old == m.blocks[r]
<1>1. /\ old \in Seq(Usable) /\ NumFreeBlocks(m.pool) \in Nat /\ PoolInv(m.pool)
      /\ ManagerShape(m) /\ m.pool.free \in Seq(Blocks) /\ IsInjective(m.pool.free)
  BY DEF ManagerInv, PoolInv, PoolShape, NumFreeBlocks, FreeQueueExact
<1>2. /\ new \in Seq(Usable)
      /\ \A b \in Range(new) : m.pool.ref[b] = 0
      /\ \A b \in Blocks :
           GetNewBlocks(m.pool, num).hash[b]
             = IF b \in Range(new) THEN NoHash ELSE m.pool.hash[b]
  BY <1>1, GetNewBlocksFacts
<1>3. Len(new) = num
  BY <1>1, SplitFacts DEF NumFreeBlocks, NewBlocks
<1> HIDE DEF new
<1>4. \A b \in Range(new) : \A s \in Reqs : b \notin Range(m.blocks[s])
  BY <1>2, HeldFacts
<1>5. /\ n.blocks[r] = old \o new
      /\ \A b \in Blocks :
           n.pool.hash[b] = IF b \in Range(new) THEN NoHash ELSE m.pool.hash[b]
  <2>1. CASE num <= 0
    <3>1. n = m /\ num = 0
      BY <1>1, <2>1 DEF TakeNew
    <3>2. new = << >>
      BY <1>2, <1>3, <3>1
    <3>3. old \o << >> = old /\ Range(new) = {}
      BY <3>2, <1>1, ConcatEmptySeq DEF Range
    <3> QED BY <3>1, <3>2, <3>3
  <2>2. CASE num > 0
    <3>1. n = [m EXCEPT !.pool = GetNewBlocks(@, num), !.blocks[r] = @ \o new]
      BY <2>2 DEF TakeNew, new
    <3> HIDE DEF n
    <3>2. n.blocks[r] = old \o new /\ n.pool = GetNewBlocks(m.pool, num)
      BY <3>1, <1>1 DEF ManagerShape
    <3> QED BY <3>2, <1>2
  <2> QED BY <2>1, <2>2, <1>1
<1> QED BY <1>2, <1>3, <1>4, <1>5 DEF new

\* The full blocks get the hashes of their places, and no other block is changed.
LEMMA CacheFullEffect ==
  ASSUME EnableCaching, NEW m, ManagerInv(m), NEW r \in Reqs, NEW q,
         NEW nc \in Nat, NEW nf \in Nat, nc <= nf, CacheAsserts(m, r, q, nc, nf)
  PROVE  LET n == CacheFull(m, r, q, nc, nf)
         IN  /\ n.blocks = m.blocks
             /\ \A b \in Blocks : m.pool.hash[b] # NoHash => n.pool.hash[b] = m.pool.hash[b]
             /\ \A b \in Blocks :
                  \/ n.pool.hash[b] = m.pool.hash[b]
                  \/ \E i \in DOMAIN m.blocks[r] \cap DOMAIN n.hashes[r] :
                       /\ m.blocks[r][i] = b /\ n.pool.hash[b] = n.hashes[r][i]
                       /\ i <= nf
             /\ DOMAIN m.hashes[r] \subseteq DOMAIN n.hashes[r]
             /\ \A i \in DOMAIN n.hashes[r] :
                  n.hashes[r][i] = IF i \in DOMAIN m.hashes[r] THEN m.hashes[r][i]
                                   ELSE BlockHash(r, q.tokens, i)
             /\ Len(n.hashes[r]) = Len(m.hashes[r]) \/ Len(n.hashes[r]) = nf
<1> DEFINE n == CacheFull(m, r, q, nc, nf)
           bs == m.blocks[r]
           hs == IF nf > nc THEN HashesUpTo(m, r, q, nf) ELSE m.hashes[r]
<1>1. /\ ManagerShape(m) /\ PoolInv(m.pool) /\ Placed(m)
      /\ bs \in Seq(Usable) /\ IsInjective(bs)
  BY HeldFacts DEF ManagerInv
<1>2. /\ n.pool = CacheFullBlocks(m.pool, bs, hs, nc, nf)
      /\ n.blocks = m.blocks /\ n.hashes[r] = hs
  <2>1. n = [m EXCEPT !.pool = CacheFullBlocks(@, bs, hs, nc, nf),
                      !.hashes[r] = hs, !.ncached[r] = nf]
    BY DEF CacheFull
  <2> HIDE DEF n, hs
  <2> QED BY <2>1, <1>1 DEF ManagerShape, ManagerInv
<1> HIDE DEF n
<1>3. Chain(hs) /\ (nf > nc => \A i \in Int : 1 <= i /\ i <= nf => i \in DOMAIN hs)
  BY HashesUpToChain DEF ManagerInv
<1>4. /\ DOMAIN m.hashes[r] \subseteq DOMAIN hs
      /\ \A i \in DOMAIN hs : hs[i] = IF i \in DOMAIN m.hashes[r] THEN m.hashes[r][i]
                                      ELSE BlockHash(r, q.tokens, i)
      /\ Len(hs) = Len(m.hashes[r]) \/ Len(hs) = nf
  <2>1. CASE nf > nc
    <3>1. hs = HashesUpTo(m, r, q, nf)
      BY <2>1
    <3>2. Len(HashesUpTo(m, r, q, nf)) = Larger(Len(m.hashes[r]), nf)
      BY HashesUpToChain
    <3> HIDE DEF hs
    <3> QED BY <3>1, <3>2, HashesUpToElements DEF Larger
  <2>2. CASE ~ (nf > nc)
    BY <2>2
  <2> QED BY <2>1, <2>2
<1> HIDE DEF hs
<1>5. \A i \in (nc + 1 .. nf) \cap DOMAIN bs :
         HashAt(hs[i], i) /\ m.pool.hash[bs[i]] = NoHash /\ i \in DOMAIN hs /\ i <= nf
  <2> SUFFICES ASSUME NEW i \in (nc + 1 .. nf) \cap DOMAIN bs
               PROVE  /\ HashAt(hs[i], i) /\ m.pool.hash[bs[i]] = NoHash
                      /\ i \in DOMAIN hs /\ i <= nf
    OBVIOUS
  <2>1. i \in Int /\ 1 <= i /\ i <= nf /\ nf > nc
    BY <1>1
  <2>2. HashAt(hs[i], i) /\ i \in DOMAIN hs
    BY <2>1, <1>3 DEF Chain
  <2>3. m.pool.hash[bs[i]] = NoHash
    BY <2>1 DEF CacheAsserts, CacheFullBlocksAsserts
  <2> QED BY <2>1, <2>2, <2>3
<1>6. /\ \A i \in (nc + 1 .. nf) \cap DOMAIN bs : n.pool.hash[bs[i]] = hs[i]
      /\ \A b \in Blocks :
           (\A i \in (nc + 1 .. nf) \cap DOMAIN bs : bs[i] # b)
             => n.pool.hash[b] = m.pool.hash[b]
  <2>1. \A i \in (nc + 1 .. nf) \cap DOMAIN bs :
           HashAt(hs[i], i) /\ m.pool.hash[bs[i]] = NoHash
    BY <1>5
  <2>2. nc \in Int /\ nf \in Int
    OBVIOUS
  <2>3. PICK p : p = m.pool
    OBVIOUS
  <2>4. /\ PoolInv(p) /\ bs \in Seq(Usable) /\ IsInjective(bs)
        /\ \A i \in (nc + 1 .. nf) \cap DOMAIN bs : HashAt(hs[i], i) /\ p.hash[bs[i]] = NoHash
    BY <2>1, <2>3, <1>1
  <2> HIDE DEF bs
  <2>5. LET w == CacheFullBlocks(p, bs, hs, nc, nf)
        IN  /\ \A i \in (nc + 1 .. nf) \cap DOMAIN bs : w.hash[bs[i]] = hs[i]
            /\ \A b \in Blocks :
                 (\A i \in (nc + 1 .. nf) \cap DOMAIN bs : bs[i] # b)
                   => w.hash[b] = p.hash[b]
    BY ONLY EnableCaching, <2>2, <2>4, CacheFullBlocksFacts
  <2> QED BY <2>3, <2>5, <1>2
<1>7. ASSUME NEW b \in Blocks, m.pool.hash[b] # NoHash
      PROVE  n.pool.hash[b] = m.pool.hash[b]
  BY <1>5, <1>6, <1>7
<1>8. ASSUME NEW b \in Blocks, n.pool.hash[b] # m.pool.hash[b]
      PROVE  \E i \in DOMAIN bs \cap DOMAIN hs :
                bs[i] = b /\ n.pool.hash[b] = hs[i] /\ i <= nf
  <2>1. PICK i \in (nc + 1 .. nf) \cap DOMAIN bs : bs[i] = b
    BY <1>6, <1>8
  <2> QED BY <2>1, <1>5, <1>6
<1> QED BY <1>2, <1>4, <1>7, <1>8 DEF n

\* The hits of a lookup have the hashes the request knows after it.
LEMMA HitsHashes ==
  ASSUME SlidingWindow = 0, NEW m, ManagerInv(m), NEW r \in Reqs, NEW q,
         Len(q.tokens) \in Nat
  PROVE  LET hits == GetComputedBlocks(m, r, q)
             known == KnownHashes(m, r, q)
         IN  /\ ~ EnableCaching => hits = << >>
             /\ \A i \in DOMAIN hits : i \in DOMAIN known /\ m.pool.hash[hits[i]] = known[i]
<1> DEFINE known == KnownHashes(m, r, q)
           looked == IF Len(known) * BlockSize = Len(q.tokens) THEN ButLast(known)
                     ELSE known
           hit == FindLongestCacheHit(m.pool, looked)
           hits == GetComputedBlocks(m, r, q)
<1>1. Chain(known)
  BY KnownHashesChain
<1>2. hits \in {<< >>, hit} \cup (IF hit # << >> THEN {ButLast(hit)} ELSE {})
  BY DEF GetComputedBlocks, hit, looked
<1>3. ~ EnableCaching => hits = << >>
  BY DEF GetComputedBlocks
<1> HIDE DEF known, hits
<1>4. /\ Chain(looked) /\ Len(looked) \in Nat /\ DOMAIN looked = 1 .. Len(looked)
      /\ \A i \in DOMAIN looked : i \in DOMAIN known /\ looked[i] = known[i]
  <2>1. PICK S : known \in Seq(S)
    BY <1>1 DEF Chain
  <2>2. Len(ButLast(known)) \in Nat
        /\ \A i \in DOMAIN ButLast(known) : i \in DOMAIN known /\ ButLast(known)[i] = known[i]
    <3>1. ButLast(known) = [i \in 1 .. Len(known) - 1 |-> known[i]]
      BY <2>1 DEF ButLast
    <3>2. \A i \in 1 .. Len(known) - 1 : i \in DOMAIN known
      BY <2>1
    <3>3. Len(ButLast(known)) \in Nat
      <4>1. Chain(ButLast(known))
        BY <1>1, ButLastChain
      <4> QED BY <4>1 DEF Chain
    <3> QED BY <3>1, <3>2, <3>3
  <2>3. Chain(ButLast(known))
    BY <1>1, ButLastChain
  <2> QED BY <2>1, <2>2, <2>3, <1>1 DEF Chain
<1> HIDE DEF looked
<1>5. /\ hit \in Seq(Usable) /\ Len(hit) <= Len(looked)
      /\ \A i \in DOMAIN hit : m.pool.hash[hit[i]] = looked[i]
  BY <1>4, FullAttentionHitFacts DEF FindLongestCacheHit, ManagerInv, HitsFit
<1> HIDE DEF hit
<1>6. \A i \in DOMAIN hit : i \in DOMAIN known /\ m.pool.hash[hit[i]] = known[i]
  <2>1. \A i \in DOMAIN hit : i \in DOMAIN looked
    BY <1>4, <1>5
  <2> QED BY <2>1, <1>4, <1>5
<1>7. ASSUME hit # << >>
      PROVE  \A i \in DOMAIN ButLast(hit) : i \in DOMAIN hit /\ ButLast(hit)[i] = hit[i]
  <2>1. ButLast(hit) = [i \in 1 .. Len(hit) - 1 |-> hit[i]]
    BY <1>5 DEF ButLast
  <2> QED BY <2>1, <1>5
<1>8. DOMAIN << >> = {}
  OBVIOUS
<1>9. \A i \in DOMAIN hits : i \in DOMAIN known /\ m.pool.hash[hits[i]] = known[i]
  <2>1. CASE hits = << >>
    BY <2>1, <1>8
  <2>2. CASE hits = hit
    BY <2>2, <1>6
  <2>3. CASE hit # << >> /\ hits = ButLast(hit)
    BY <2>3, <1>6, <1>7
  <2> QED BY <2>1, <2>2, <2>3, <1>2
<1> QED BY <1>3, <1>9 DEF hits, known

\* Blocks enough for a tokens
LEMMA CDivCovers ==
  ASSUME NEW a \in Nat
  PROVE  a <= CDiv(a, BlockSize) * BlockSize
<1>1. BlockSize \in Nat /\ BlockSize > 0
  BY ManagerAssumption
<1> DEFINE c == a + BlockSize - 1
           d == c \div BlockSize
<1>2. c \in Nat /\ CDiv(a, BlockSize) = d
  BY <1>1 DEF CDiv
<1>3. d \in Nat
  BY <1>2, DivFacts
<1>4. ~ ((d + 1) * BlockSize <= c)
  <2>1. d + 1 \in Nat /\ ~ (d + 1 <= d)
    BY <1>3
  <2> HIDE DEF c
  <2> QED BY <2>1, <1>2, DivFacts
<1> HIDE DEF d
<1>5. (d + 1) * BlockSize = d * BlockSize + BlockSize /\ d * BlockSize \in Nat
  BY <1>1, <1>3
<1> QED BY <1>1, <1>2, <1>4, <1>5

\* allocate_slots, when it finds space
LEMMA AllocateSlotsEffect ==
  ASSUME SlidingWindow = 0, NEW m, ManagerInv(m), NEW r \in Reqs, NEW q, NEW n,
         NEW comp, Allocatable(m, r, q, n, comp),
         AllocateSlots(m, r, q, n, comp, 0).outcome = "ok"
  PROVE  LET res == AllocateSlots(m, r, q, n, comp, 0)
         IN  Allocated(m, r, q, n, comp, res.blocks, res.m)
<1> DEFINE freed == FreeSkipped(m, r, q)
           hits == TakeHits(freed, r, comp)
           total == q.computed + Len(comp) * BlockSize + n
           nc == NumCached(m, r, comp)
           nf == total \div BlockSize
           res == AllocateSlots(m, r, q, n, comp, 0)
           new == res.blocks
           k == res.m
<1>1. PICK got : AllocatedBy(m, r, q, n, comp, got, res)
  BY AllocateSlotsPath
<1> DEFINE taken == TakeNew(hits, r, got)
<1> HIDE DEF res
<1>2. /\ ManagerInv(freed) /\ \A s \in Reqs : freed.blocks[s] = m.blocks[s]
      /\ freed.hashes = m.hashes /\ freed.pool.hash = m.pool.hash
  BY FreeSkippedFacts
<1>3. /\ comp \in Seq(Usable) /\ (comp = << >> \/ m.blocks[r] = << >>)
      /\ \A i \in DOMAIN comp : HashAt(m.pool.hash[comp[i]], i)
  BY DEF Allocatable, HitsFit
<1>4. /\ ManagerInv(hits) /\ hits.hashes = m.hashes
      /\ hits.blocks[r] = m.blocks[r] \o comp
      /\ \A s \in Reqs : s # r => hits.blocks[s] = m.blocks[s]
      /\ \A b \in Blocks : hits.pool.hash[b] = m.pool.hash[b]
  <2> HIDE DEF freed
  <2>1. \A i \in DOMAIN comp : HashAt(freed.pool.hash[comp[i]], i)
    BY <1>2, <1>3
  <2>2. /\ ManagerInv(freed) /\ comp \in Seq(Usable)
        /\ comp = << >> \/ freed.blocks[r] = << >>
    BY <1>2, <1>3
  <2>3. LET k0 == TakeHits(freed, r, comp)
        IN  /\ ManagerInv(k0) /\ k0.hashes = freed.hashes
            /\ k0.blocks[r] = freed.blocks[r] \o comp
            /\ \A s \in Reqs : s # r => k0.blocks[s] = freed.blocks[s]
            /\ \A b \in Blocks : k0.pool.hash[b] = freed.pool.hash[b]
    BY ONLY r \in Reqs, <2>1, <2>2, TakeHitsKeeps
  <2> HIDE DEF hits
  <2> QED BY <2>3, <1>2 DEF hits
<1>5. /\ got \in 0 .. NumFreeBlocks(hits.pool) /\ new = NewBlocks(hits.pool, got)
      /\ CDiv(total, BlockSize) <= Len(hits.blocks[r]) + got
      /\ IF EnableCaching
         THEN CacheAsserts(taken, r, q, nc, nf) /\ k = CacheFull(taken, r, q, nc, nf)
         ELSE k = taken
  BY <1>1 DEF AllocatedBy
<1> HIDE DEF freed, new, k, hits
<1>6. total \in Nat /\ nf \in Nat /\ (EnableCaching => nc \in Nat /\ nc <= nf)
  <2>1. total \in Nat
    <3>1. q.computed \in Nat /\ n \in Nat /\ Len(comp) \in Nat /\ BlockSize \in Nat
      BY <1>3, ManagerAssumption DEF Allocatable
    <3> QED BY <3>1
  <2>2. EnableCaching => nc \in Nat /\ nc <= nf
    <3> HIDE DEF nc
    <3> QED BY AllocationNumbers DEF nc
  <2> HIDE DEF total
  <2> QED BY <2>1, <2>2, DivFacts
<1> HIDE DEF total, nc
<1>7. NumFreeBlocks(hits.pool) \in Nat
  BY <1>4 DEF NumFreeBlocks, ManagerInv, PoolInv, PoolShape
<1>8. /\ new \in Seq(Usable) /\ Len(new) = got
      /\ taken.blocks[r] = (m.blocks[r] \o comp) \o new
      /\ \A b \in Range(new) : \A s \in Reqs : b \notin Range(hits.blocks[s])
      /\ \A b \in Blocks :
           taken.pool.hash[b] = IF b \in Range(new) THEN NoHash ELSE m.pool.hash[b]
  <2>1. LET k0 == TakeNew(hits, r, got)
            n0 == NewBlocks(hits.pool, got)
        IN  /\ n0 \in Seq(Usable) /\ Len(n0) = got
            /\ k0.blocks[r] = hits.blocks[r] \o n0
            /\ \A b \in Range(n0) : \A s \in Reqs : b \notin Range(hits.blocks[s])
            /\ \A b \in Blocks :
                 k0.pool.hash[b] = IF b \in Range(n0) THEN NoHash ELSE hits.pool.hash[b]
    <3>1. ManagerInv(hits) /\ got \in 0 .. NumFreeBlocks(hits.pool)
      BY <1>4, <1>5
    <3> QED BY ONLY r \in Reqs, <3>1, TakeNewEffect
  <2>2. new = NewBlocks(hits.pool, got)
    BY <1>5
  <2> QED BY <2>1, <2>2, <1>4
<1>9. ManagerInv(taken) /\ taken.hashes = m.hashes
      /\ Len(taken.blocks[r]) = Len(hits.blocks[r]) + got
  <2>1. got \in Int /\ got <= NumFreeBlocks(hits.pool)
    BY <1>5, <1>7
  <2> QED BY <2>1, <1>4, <1>5, TakeNewKeeps, TakeNewLen
<1> HIDE DEF taken
<1>10. ASSUME NEW b \in Range(new)
       PROVE  b \notin Range(comp) /\ \A s \in Reqs : b \notin Range(m.blocks[s])
  <2>1. m.blocks[r] \in Seq(Usable)
    BY DEF ManagerInv
  <2>2. Range(hits.blocks[r]) = Range(m.blocks[r]) \cup Range(comp)
    BY <2>1, <1>3, <1>4, ConcatFacts
  <2> QED BY <2>2, <1>4, <1>8
<1>11. total <= Len(taken.blocks[r]) * BlockSize
  <2> DEFINE d == CDiv(total, BlockSize)
             l == Len(taken.blocks[r])
  <2>1. l \in Nat
    BY <1>9 DEF ManagerInv
  <2>2. d <= l
    BY <1>5, <1>9
  <2>3. d \in Nat /\ total <= d * BlockSize
    BY <1>6, CDivCovers, CDivFacts
  <2>4. BlockSize \in Nat
    BY ManagerAssumption
  <2> HIDE DEF d, l
  <2>5. d * BlockSize <= l * BlockSize /\ d * BlockSize \in Nat /\ l * BlockSize \in Nat
    BY <2>1, <2>2, <2>3, <2>4
  <2> QED BY <2>3, <2>5, <1>6 DEF l
<1>12. \A i \in Nat : i <= nf => i * BlockSize <= total
  <2> HIDE DEF nf
  <2> QED BY <1>6, DivFacts DEF nf
<1>13. /\ k.blocks = taken.blocks
       /\ \A b \in Blocks : taken.pool.hash[b] # NoHash => k.pool.hash[b] = taken.pool.hash[b]
       /\ \A b \in Blocks :
            \/ k.pool.hash[b] = taken.pool.hash[b]
            \/ \E i \in DOMAIN taken.blocks[r] \cap DOMAIN k.hashes[r] :
                 /\ taken.blocks[r][i] = b /\ k.pool.hash[b] = k.hashes[r][i]
                 /\ i <= nf
       /\ DOMAIN m.hashes[r] \subseteq DOMAIN k.hashes[r]
       /\ \A i \in DOMAIN k.hashes[r] :
            k.hashes[r][i] = IF i \in DOMAIN m.hashes[r] THEN m.hashes[r][i]
                             ELSE BlockHash(r, q.tokens, i)
       /\ Len(k.hashes[r]) = Len(m.hashes[r]) \/ Len(k.hashes[r]) = nf
  <2> HIDE DEF nf
  <2>1. CASE EnableCaching
    <3>1. /\ EnableCaching /\ ManagerInv(taken) /\ nc \in Nat /\ nf \in Nat /\ nc <= nf
          /\ CacheAsserts(taken, r, q, nc, nf)
      BY <2>1, <1>5, <1>6, <1>9
    <3>2. LET k0 == CacheFull(taken, r, q, nc, nf)
          IN  /\ k0.blocks = taken.blocks
              /\ \A b \in Blocks :
                   taken.pool.hash[b] # NoHash => k0.pool.hash[b] = taken.pool.hash[b]
              /\ \A b \in Blocks :
                   \/ k0.pool.hash[b] = taken.pool.hash[b]
                   \/ \E i \in DOMAIN taken.blocks[r] \cap DOMAIN k0.hashes[r] :
                        /\ taken.blocks[r][i] = b /\ k0.pool.hash[b] = k0.hashes[r][i]
                        /\ i <= nf
              /\ DOMAIN taken.hashes[r] \subseteq DOMAIN k0.hashes[r]
              /\ \A i \in DOMAIN k0.hashes[r] :
                   k0.hashes[r][i] = IF i \in DOMAIN taken.hashes[r] THEN taken.hashes[r][i]
                                     ELSE BlockHash(r, q.tokens, i)
              /\ Len(k0.hashes[r]) = Len(taken.hashes[r]) \/ Len(k0.hashes[r]) = nf
      BY ONLY r \in Reqs, <3>1, CacheFullEffect
    <3>3. k = CacheFull(taken, r, q, nc, nf) /\ taken.hashes = m.hashes
      BY <2>1, <1>5, <1>9
    <3> QED BY <3>2, <3>3
  <2>2. CASE ~ EnableCaching
    BY <2>2, <1>5, <1>9
  <2> QED BY <2>1, <2>2
<1>14. Len(k.hashes[r]) = Len(m.hashes[r]) \/ Len(k.hashes[r]) * BlockSize <= total
  <2> HIDE DEF nf
  <2>1. nf <= nf
    BY <1>6
  <2> QED BY <2>1, <1>6, <1>12, <1>13
<1>15. ASSUME NEW b \in Blocks, k.pool.hash[b] # NoHash
       PROVE  \/ k.pool.hash[b] = m.pool.hash[b] /\ b \notin Range(new)
              \/ \E i \in DOMAIN k.blocks[r] \cap DOMAIN k.hashes[r] :
                   /\ k.blocks[r][i] = b /\ k.pool.hash[b] = k.hashes[r][i]
                   /\ i * BlockSize <= total
  <2> HIDE DEF nf
  <2>1. CASE k.pool.hash[b] = taken.pool.hash[b]
    BY <2>1, <1>8, <1>15
  <2>2. CASE k.pool.hash[b] # taken.pool.hash[b]
    <3>1. PICK i \in DOMAIN taken.blocks[r] \cap DOMAIN k.hashes[r] :
            /\ taken.blocks[r][i] = b /\ k.pool.hash[b] = k.hashes[r][i] /\ i <= nf
      BY <2>2, <1>13
    <3>2. i \in Nat
      <4>1. taken.blocks[r] \in Seq(Usable)
        BY <1>9 DEF ManagerInv
      <4> QED BY <4>1
    <3> QED BY <3>1, <3>2, <1>12, <1>13
  <2> QED BY <2>1, <2>2
<1>16. \A b \in Blocks : m.pool.hash[b] # NoHash /\ b \notin Range(new)
                           => k.pool.hash[b] = m.pool.hash[b]
  BY <1>8, <1>13
<1>17. total <= Len(k.blocks[r]) * BlockSize /\ k.blocks[r] = (m.blocks[r] \o comp) \o new
  BY <1>8, <1>11, <1>13
<1>18. Allocated(m, r, q, n, comp, new, k)
  <2> HIDE DEF nf
  <2> QED BY <1>8, <1>10, <1>13, <1>14, <1>15, <1>16, <1>17 DEF Allocated, total
<1> QED BY <1>18 DEF new, k, res
=============================================================================
