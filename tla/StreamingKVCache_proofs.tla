----------------------- MODULE StreamingKVCache_proofs -----------------------
(***************************************************************************)
(* The streaming cache keeps the sinks and an unbroken run of recent       *)
(* tokens, for every size of the two parts and every length of the turns;  *)
(* it stays within its size if a turn fits into the recent part.           *)
(***************************************************************************)
EXTENDS StreamingKVCache, SequenceTheorems, TLAPS

Token == Nat \ {0}

\* SinksAndRecent of a cache c after s tokens
Shaped(c, s) ==
  /\ c \in Seq(Token)
  /\ Len(c) <= s
  /\ \A i \in 1 .. Len(c) : c[i] = IF i <= StartSize THEN i ELSE s - Len(c) + i
  /\ Len(c) < StartSize => Len(c) = s

\* A cache that keeps the sinks of c and what follows its first k tokens.
LEMMA SinksKept ==
  ASSUME NEW s \in Nat, NEW c, Shaped(c, s),
         NEW k \in Nat, StartSize <= k
  PROVE  LET d == Slice(c, 0, StartSize) \o Slice(c, k, Len(c))
         IN  /\ Shaped(d, s)
             /\ Len(d) = IF Len(c) <= StartSize THEN Len(c)
                         ELSE IF Len(c) <= k THEN StartSize
                         ELSE StartSize + Len(c) - k
<1> DEFINE sinks == Slice(c, 0, StartSize)
           recent == Slice(c, k, Len(c))
           d == sinks \o recent
           lc == Len(c)
           ls == Len(sinks)
           lr == Len(recent)
           ld == Len(d)
<1>1. c \in Seq(Token) /\ Len(c) \in Nat /\ StartSize \in Nat \ {0}
  BY StreamingAssumption DEF Shaped
<1>2. /\ sinks \in Seq(Token)
      /\ \A i \in 1 .. ls : sinks[i] = c[i]
  BY <1>1 DEF Slice
<1>3. ls = IF lc <= StartSize THEN lc ELSE StartSize
  BY <1>1 DEF Slice
<1>4. /\ recent \in Seq(Token)
      /\ \A i \in 1 .. lr : recent[i] = c[k + i]
  BY <1>1 DEF Slice
<1>5. lr = IF lc <= k THEN 0 ELSE lc - k
  BY <1>1 DEF Slice
<1>6. /\ lc \in Nat /\ lc <= s
      /\ \A i \in 1 .. lc : c[i] = IF i <= StartSize THEN i ELSE s - lc + i
      /\ lc < StartSize => lc = s
  BY <1>1 DEF Shaped
<1> HIDE DEF sinks, recent
<1>7. /\ d \in Seq(Token)
      /\ ld = ls + lr
      /\ \A i \in 1 .. ls + lr : d[i] = IF i <= ls THEN sinks[i] ELSE recent[i - ls]
  BY <1>2, <1>4, ConcatProperties, Zenon
<1> HIDE DEF d, lc, ls, lr, ld
<1>8. ld = IF lc <= StartSize THEN lc
           ELSE IF lc <= k THEN StartSize ELSE StartSize + lc - k
  BY <1>1, <1>3, <1>5, <1>6, <1>7
<1>9. ASSUME NEW i \in 1 .. ld
      PROVE  d[i] = IF i <= StartSize THEN i ELSE s - ld + i
  <2>1. i \in Nat /\ i >= 1 /\ i <= ls + lr
    BY <1>1, <1>3, <1>5, <1>6, <1>7
  <2>2. CASE i <= ls
    <3>1. d[i] = c[i] /\ i \in 1 .. lc /\ i <= StartSize
      BY <2>1, <2>2, <1>1, <1>2, <1>3, <1>5, <1>6, <1>7
    <3> QED BY <3>1, <1>6
  <2>3. CASE i > ls
    <3>1. /\ lc > k /\ ls = StartSize
          /\ i - StartSize \in 1 .. lr /\ k + i - StartSize \in 1 .. lc
          /\ k + i - StartSize > StartSize /\ i > StartSize
      BY <2>1, <2>3, <1>1, <1>3, <1>5, <1>6
    <3>2. d[i] = recent[i - StartSize]
      BY <2>1, <2>3, <3>1, <1>1, <1>3, <1>5, <1>6, <1>7
    <3>3. k + (i - StartSize) = k + i - StartSize
      BY <2>1, <1>1
    <3>4. d[i] = c[k + i - StartSize]
      BY <3>1, <3>2, <3>3, <1>4
    <3>5. c[k + i - StartSize] = s - lc + (k + i - StartSize)
      BY <3>1, <1>1, <1>6
    <3> QED BY <2>1, <3>1, <3>4, <3>5, <1>1, <1>6, <1>8
  <2> QED BY <2>1, <2>2, <2>3, <1>1, <1>3, <1>5, <1>6
<1>10. Shaped(d, s)
  <2>1. ld <= s /\ (ld < StartSize => ld = s)
    BY <1>1, <1>6, <1>8
  <2> QED BY <2>1, <1>7, <1>9 DEF Shaped, ld
<1> QED BY <1>8, <1>10 DEF d, sinks, recent, ld, lc

\* evict_for_space keeps the shape, and makes room for n tokens and no more if
\* they fit into the recent part.
LEMMA EvictForSpaceKeepsShape ==
  ASSUME NEW s \in Nat, NEW c, Shaped(c, s), NEW n \in Nat \ {0}
  PROVE  /\ Shaped(EvictForSpace(c, n), s)
         /\ n <= RecentSize => Len(EvictForSpace(c, n)) + n <= CacheSize
         /\ n <= RecentSize /\ Len(c) + n > CacheSize
              => Len(EvictForSpace(c, n)) + n = CacheSize
<1> DEFINE lc == Len(c)
           le == Len(EvictForSpace(c, n))
           k == StartSize + (lc + n - CacheSize)
<1>1. /\ lc \in Nat
      /\ StartSize \in Nat /\ RecentSize \in Nat
      /\ CacheSize = StartSize + RecentSize
  BY StreamingAssumption DEF Shaped, CacheSize
<1>2. CASE lc + n <= CacheSize
  BY <1>1, <1>2 DEF EvictForSpace
<1>3. CASE lc + n > CacheSize
  <2>1. EvictForSpace(c, n) = Slice(c, 0, StartSize) \o Slice(c, k, Len(c))
    BY <1>1, <1>3 DEF EvictForSpace
  <2> HIDE DEF lc
  <2>2. k \in Nat /\ StartSize <= k
    BY <1>1, <1>3
  <2> HIDE DEF k
  <2>3. /\ Shaped(EvictForSpace(c, n), s)
        /\ le = IF lc <= StartSize THEN lc
                ELSE IF lc <= k THEN StartSize ELSE StartSize + lc - k
    BY <2>1, <2>2, SinksKept DEF lc
  <2> HIDE DEF le
  <2>4. n <= RecentSize => le + n = CacheSize
    BY <1>1, <1>3, <2>2, <2>3 DEF k
  <2> QED BY <2>3, <2>4 DEF le
<1> HIDE DEF lc
<1> QED BY <1>1, <1>2, <1>3

\* So does __call__, which drops what is over the size.
LEMMA CallKeepsShape ==
  ASSUME NEW s \in Nat, NEW c, Shaped(c, s)
  PROVE  /\ Shaped(Call(c), s)
         /\ Len(Call(c)) = IF Len(c) <= CacheSize THEN Len(c) ELSE CacheSize
<1>1. /\ Len(c) \in Nat
      /\ StartSize \in Nat \ {0} /\ RecentSize \in Nat \ {0}
  BY StreamingAssumption DEF Shaped
<1>2. CASE Len(c) <= CacheSize
  BY <1>2 DEF Call
<1>3. CASE Len(c) > CacheSize
  <2>1. Len(c) - RecentSize \in Nat /\ StartSize <= Len(c) - RecentSize
    BY <1>1, <1>3 DEF CacheSize
  <2>2. Call(c) = Slice(c, 0, StartSize) \o Slice(c, Len(c) - RecentSize, Len(c))
    BY <1>1, <1>3 DEF Call, StartRecent, CacheSize
  <2> QED BY <1>1, <1>3, <2>1, <2>2, SinksKept DEF CacheSize
<1> QED BY <1>1, <1>2, <1>3 DEF CacheSize

\* A forward pass appends the tokens that come next in the text.
LEMMA ForwardKeepsShape ==
  ASSUME seen \in Nat, NEW c, Shaped(c, seen), NEW n \in Nat
  PROVE  Shaped(Forward(c, n), seen + n) /\ Len(Forward(c, n)) = Len(c) + n
<1> DEFINE new == [i \in 1 .. n |-> seen + i]
           lc == Len(c)
<1>1. /\ c \in Seq(Token)
      /\ StartSize \in Nat \ {0}
      /\ lc \in Nat /\ lc <= seen
      /\ \A i \in 1 .. lc : c[i] = IF i <= StartSize THEN i ELSE seen - lc + i
      /\ lc < StartSize => lc = seen
  BY StreamingAssumption DEF Shaped
<1>2. new \in Seq(Token) /\ Len(new) = n
  BY DEF Token
<1>3. \A i \in 1 .. n : new[i] = seen + i
  OBVIOUS
<1> HIDE DEF new
<1>4. /\ c \o new \in Seq(Token)
      /\ Len(c \o new) = lc + n
      /\ \A i \in 1 .. lc + n :
            (c \o new)[i] = IF i <= lc THEN c[i] ELSE new[i - lc]
  BY <1>1, <1>2, ConcatProperties
<1> HIDE DEF lc
<1>5. ASSUME NEW i \in 1 .. lc + n
      PROVE  (c \o new)[i] = IF i <= StartSize THEN i ELSE seen - lc + i
  <2>1. i \in Nat /\ i >= 1 /\ i <= lc + n /\ (i <= lc \/ i > lc)
    BY <1>1
  <2>2. CASE i <= lc
    BY <2>1, <2>2, <1>1, <1>4
  <2>3. CASE i > lc
    <3>1. i - lc \in 1 .. n
      BY <2>1, <2>3, <1>1
    <3>2. (c \o new)[i] = seen + (i - lc)
      BY <3>1, <2>1, <2>3, <1>1, <1>3, <1>4
    <3> QED BY <3>2, <2>1, <2>3, <1>1
  <2> QED BY <2>1, <2>2, <2>3
<1>6. Shaped(c \o new, seen + n)
  <2> DEFINE ld == Len(c \o new)
  <2>1. ld = lc + n
    BY <1>4
  <2> HIDE DEF ld
  <2>2. ld <= seen + n /\ (ld < StartSize => ld = seen + n)
    BY <1>1, <2>1
  <2>3. ASSUME NEW i \in 1 .. ld
        PROVE  (c \o new)[i] = IF i <= StartSize THEN i ELSE seen + n - ld + i
    <3>1. i \in Nat /\ seen - lc + i = seen + n - ld + i
      BY <1>1, <2>1
    <3> QED BY <3>1, <2>1, <1>5
  <2> QED BY <1>4, <2>2, <2>3 DEF Shaped, ld
<1> QED BY <1>4, <1>6 DEF Forward, new, lc

-----------------------------------------------------------------------------
\* What SpaceReserved needs to know of a turn that fits
TurnFits == MaxPrompt + MaxGenLen <= RecentSize

\* The shape alone is not inductive: the counts of the turn say how many
\* tokens are appended, and the trimmed cache of the reader, which has no
\* turns, is full.
StreamingInv ==
  /\ seen \in Nat
  /\ Shaped(cache, seen)
  /\ coming \in Nat
  /\ pc \in {"idle", "prompt", "generate", "eval"}
  /\ pc = "prompt" => coming - MaxGenLen \in 1 .. MaxPrompt
  /\ pc \in {"idle", "eval"} => coming = 0
  /\ TurnFits => Len(cache) + coming <= CacheSize
  /\ EvalKeepsAll

\* No token has been read yet.
LEMMA InitStreamingInv == Init => StreamingInv
  BY StreamingAssumption
     DEF Init, StreamingInv, Shaped, Token, CacheSize, EvalKeepsAll

\* Each step of the two loops keeps the invariant.
LEMMA NextStreamingInv == StreamingInv /\ [Next]_vars => StreamingInv'
<1> SUFFICES ASSUME StreamingInv, [Next]_vars PROVE StreamingInv'
  OBVIOUS
<1> USE StreamingAssumption
<1>1. Len(cache) \in Nat /\ CacheSize \in Nat
  BY DEF StreamingInv, Shaped, CacheSize
<1>2. CASE \E n \in 1 .. MaxPrompt : StartTurn(n)
  <2>1. PICK n \in 1 .. MaxPrompt : StartTurn(n)
    BY <1>2
  <2>2. n + MaxGenLen \in Nat \ {0} /\ (TurnFits => n + MaxGenLen <= RecentSize)
    BY DEF TurnFits
  <2>3. /\ Shaped(cache', seen)
        /\ TurnFits => Len(cache') + (n + MaxGenLen) <= CacheSize
    BY <2>1, <2>2, EvictForSpaceKeepsShape DEF StreamingInv, StartTurn
  <2> QED BY <2>1, <2>2, <2>3
     DEF StreamingInv, StartTurn, EvalKeepsAll, TurnFits, CacheSize
<1>3. CASE ReadPrompt
  <2> DEFINE n == coming - MaxGenLen
  <2>1. n \in Nat /\ seen' = seen + n /\ coming' = MaxGenLen - 1
    BY <1>3 DEF ReadPrompt, StreamingInv
  <2>2. Shaped(cache', seen') /\ Len(cache') = Len(cache) + n
    BY <1>3, <2>1, ForwardKeepsShape DEF StreamingInv, ReadPrompt
  <2>3. TurnFits => Len(cache') + coming' <= CacheSize
    BY <1>1, <2>1, <2>2 DEF StreamingInv
  <2> QED BY <1>3, <2>1, <2>2, <2>3
     DEF StreamingInv, ReadPrompt, EvalKeepsAll, TurnFits, CacheSize
<1>4. CASE Generate
  <2>1. Shaped(cache', seen') /\ Len(cache') = Len(cache) + 1
    BY <1>4, ForwardKeepsShape DEF StreamingInv, Generate
  <2>2. TurnFits => Len(cache') + coming' <= CacheSize
    BY <1>1, <1>4, <2>1 DEF StreamingInv, Generate
  <2> QED BY <1>4, <2>1, <2>2
     DEF StreamingInv, Generate, EvalKeepsAll, TurnFits, CacheSize
<1>5. CASE EndTurn
  BY <1>1, <1>5 DEF StreamingInv, EndTurn, EvalKeepsAll, TurnFits, CacheSize
<1>6. CASE EvalToken
  <2>1. /\ Shaped(Forward(cache, 1), seen + 1)
        /\ Len(Forward(cache, 1)) = Len(cache) + 1
    BY ForwardKeepsShape DEF StreamingInv
  <2>2. /\ Shaped(cache', seen')
        /\ Len(cache') = IF Len(cache) + 1 <= CacheSize THEN Len(cache) + 1
                         ELSE CacheSize
    BY <1>6, <2>1, CallKeepsShape DEF StreamingInv, EvalToken
  <2>3. seen' = seen + 1 /\ pc = "eval" /\ pc' = pc /\ coming' = coming
    BY <1>6 DEF EvalToken
  <2>4. EvalKeepsAll'
    BY <1>1, <2>2, <2>3 DEF StreamingInv, EvalKeepsAll, CacheSize
  <2>5. Len(cache') + coming' <= CacheSize
    BY <1>1, <2>2, <2>3 DEF StreamingInv
  <2> QED BY <2>2, <2>3, <2>4, <2>5 DEF StreamingInv, TurnFits, CacheSize
<1>7. CASE UNCHANGED vars
  BY <1>7 DEF vars, StreamingInv, EvalKeepsAll, TurnFits, CacheSize
<1> QED BY <1>2, <1>3, <1>4, <1>5, <1>6, <1>7 DEF Next

\* The invariant holds throughout both loops.
LEMMA StreamingInvAlways == Spec => []StreamingInv
  BY InitStreamingInv, NextStreamingInv, PTL DEF Spec

\* For all sizes and turns of any lengths, the cache is the attention sinks
\* and an unbroken run of the most recent tokens.
THEOREM SinksAndRecentAlways == Spec => []SinksAndRecent
<1>1. StreamingInv => SinksAndRecent
  <2> SUFFICES ASSUME StreamingInv PROVE SinksAndRecent
    OBVIOUS
  <2>1. cache = [i \in 1 .. Len(cache) |-> cache[i]]
    BY DEF StreamingInv, Shaped
  <2>2. cache = Window(Len(cache))
    BY <2>1 DEF StreamingInv, Shaped, Window
  <2> QED BY <2>2 DEF StreamingInv, Shaped, SinksAndRecent
<1> QED BY <1>1, StreamingInvAlways, PTL

\* If a prompt and its answer always fit into the recent part, evict_for_space
\* has reserved enough: the cache never outgrows its size.
THEOREM SpaceReservedAlways ==
  ASSUME MaxPrompt + MaxGenLen <= RecentSize
  PROVE  Spec => []SpaceReserved
<1>1. StreamingInv => SpaceReserved
  BY DEF StreamingInv, TurnFits, SpaceReserved
<1> QED BY <1>1, StreamingInvAlways, PTL

\* A cache trimmed after each token is full as soon as the text is as long as
\* the cache, never less.
THEOREM EvalKeepsAllAlways == Spec => []EvalKeepsAll
<1>1. StreamingInv => EvalKeepsAll
  BY DEF StreamingInv
<1> QED BY <1>1, StreamingInvAlways, PTL

\* The port evicts what the original package evicts, for every cache that can
\* come up and any number of coming tokens.
THEOREM PortAgreesAlways == Spec => []PortAgrees
<1>1. StreamingInv => PortAgrees
  <2> SUFFICES ASSUME StreamingInv, NEW n \in 1 .. MaxPrompt + MaxGenLen
               PROVE  EvictForSpace(cache, n) = OriginalEvictForSpace(cache, n)
    BY DEF PortAgrees
  <2> DEFINE lc == Len(cache)
  <2>1. lc \in Nat /\ n \in Int /\ StartSize \in Nat /\ RecentSize \in Nat
    BY StreamingAssumption DEF StreamingInv, Shaped
  <2> HIDE DEF lc
  <2>2. StartSize + (lc + n - CacheSize) = lc - RecentSize + n
    BY <2>1 DEF CacheSize
  <2> QED BY <2>2 DEF EvictForSpace, OriginalEvictForSpace, lc
<1> QED BY <1>1, StreamingInvAlways, PTL

-----------------------------------------------------------------------------
\* A turn is only started if the text has room for it, so what it may still
\* add is bounded like the text.
TextBounded ==
  /\ seen + coming <= MaxSeen
  /\ coming <= MaxPrompt + MaxGenLen

\* For all sizes, the variables keep their types and the text its bound.
THEOREM TypeOKAlways == Spec => []TypeOK
<1> USE StreamingAssumption
<1>1. Init => TextBounded
  BY DEF Init, TextBounded
<1>2. StreamingInv /\ TextBounded /\ [Next]_vars => TextBounded'
  <2> SUFFICES ASSUME StreamingInv, TextBounded, [Next]_vars PROVE TextBounded'
    OBVIOUS
  <2>1. seen \in Nat /\ coming \in Nat
    BY DEF StreamingInv
  <2>2. CASE \E n \in 1 .. MaxPrompt : StartTurn(n)
    BY <2>1, <2>2 DEF StartTurn, TextBounded
  <2>3. CASE ReadPrompt
    BY <2>1, <2>3 DEF ReadPrompt, TextBounded
  <2>4. CASE Generate
    BY <2>1, <2>4 DEF Generate, TextBounded
  <2>5. CASE EndTurn
    BY <2>1, <2>5 DEF EndTurn, TextBounded
  <2>6. CASE EvalToken
    BY <2>1, <2>6 DEF EvalToken, StreamingInv, TextBounded
  <2>7. CASE UNCHANGED vars
    BY <2>7 DEF vars, TextBounded
  <2> QED BY <2>2, <2>3, <2>4, <2>5, <2>6, <2>7 DEF Next
<1>3. StreamingInv /\ TextBounded => TypeOK
  <2> SUFFICES ASSUME StreamingInv, TextBounded PROVE TypeOK
    OBVIOUS
  <2>1. /\ cache \in Seq(Token) /\ Len(cache) \in Nat /\ Len(cache) <= seen
        /\ \A i \in 1 .. Len(cache) :
              cache[i] = IF i <= StartSize THEN i ELSE seen - Len(cache) + i
    BY DEF StreamingInv, Shaped
  <2>2. seen \in Nat /\ coming \in Nat
    BY DEF StreamingInv
  <2>3. \A i \in 1 .. Len(cache) : cache[i] \in 1 .. seen
    BY <2>1, <2>2
  <2>4. cache \in Seq(1 .. seen)
    <3>1. cache = [i \in 1 .. Len(cache) |-> cache[i]]
      BY <2>1
    <3>2. cache \in [1 .. Len(cache) -> 1 .. seen]
      BY <2>3, <3>1, Zenon
    <3>3. \E n \in Nat : cache \in [1 .. n -> 1 .. seen]
      BY <2>1, <3>2, Zenon
    <3>4. Seq(1 .. seen) = UNION {[1 .. n -> 1 .. seen] : n \in Nat}
      BY SeqDef
    <3> QED BY <3>3, <3>4, Zenon
  <2> QED BY <2>2, <2>4 DEF StreamingInv, TextBounded, TypeOK
<1> QED BY <1>1, <1>2, <1>3, StreamingInvAlways, PTL DEF Spec

\* If a prompt and its answer always fit into the recent part, a turn evicts
\* exactly what it needs room for (evict_for_space), and reading token by
\* token never makes the cache shorter (__call__).
THEOREM EvictsOnlyForSpaceAlways ==
  ASSUME MaxPrompt + MaxGenLen <= RecentSize
  PROVE  Spec => EvictsOnlyForSpace
<1> DEFINE Exact == Len(cache') < Len(cache) => Len(cache') + coming' = CacheSize
<1> USE StreamingAssumption
<1>1. StreamingInv /\ [Next]_vars => [Exact]_vars
  <2> SUFFICES ASSUME StreamingInv, Next PROVE Exact
    OBVIOUS
  <2>1. /\ Shaped(cache, seen) /\ seen \in Nat /\ coming \in Nat
        /\ Len(cache) \in Nat /\ CacheSize \in Nat
    BY DEF StreamingInv, Shaped, CacheSize
  <2>2. CASE \E n \in 1 .. MaxPrompt : StartTurn(n)
    <3>1. PICK n \in 1 .. MaxPrompt : StartTurn(n)
      BY <2>2
    <3>2. n + MaxGenLen \in Nat \ {0} /\ n + MaxGenLen <= RecentSize
      OBVIOUS
    <3>3. Len(cache) + (n + MaxGenLen) > CacheSize
            => Len(cache') + (n + MaxGenLen) = CacheSize
      BY <2>1, <3>1, <3>2, EvictForSpaceKeepsShape DEF StartTurn
    <3>4. Len(cache) + (n + MaxGenLen) <= CacheSize => cache' = cache
      BY <3>1 DEF StartTurn, EvictForSpace
    <3>5. coming' = n + MaxGenLen
      BY <3>1 DEF StartTurn
    <3>6. Len(cache) + (n + MaxGenLen) > CacheSize
            \/ Len(cache) + (n + MaxGenLen) <= CacheSize
      BY <2>1, <3>2
    <3> QED BY <2>1, <3>3, <3>4, <3>5, <3>6
  <2>3. CASE ReadPrompt
    <3>1. coming - MaxGenLen \in Nat
      BY <2>3 DEF ReadPrompt, StreamingInv
    <3>2. Len(cache') = Len(cache) + (coming - MaxGenLen)
      BY <2>1, <2>3, <3>1, ForwardKeepsShape DEF ReadPrompt
    <3> QED BY <2>1, <3>1, <3>2
  <2>4. CASE Generate
    BY <2>1, <2>4, ForwardKeepsShape DEF Generate
  <2>5. CASE EndTurn
    BY <2>1, <2>5 DEF EndTurn
  <2>6. CASE EvalToken
    <3>1. /\ Shaped(Forward(cache, 1), seen + 1)
          /\ Len(Forward(cache, 1)) = Len(cache) + 1
      BY <2>1, ForwardKeepsShape
    <3>2. Len(cache') = IF Len(cache) + 1 <= CacheSize THEN Len(cache) + 1
                        ELSE CacheSize
      BY <2>1, <2>6, <3>1, CallKeepsShape DEF EvalToken
    <3>3. Len(cache) <= CacheSize
      BY <2>1, <2>6 DEF StreamingInv, EvalKeepsAll, EvalToken
    <3> QED BY <2>1, <3>2, <3>3
  <2> QED BY <2>2, <2>3, <2>4, <2>5, <2>6 DEF Next
<1> QED BY <1>1, StreamingInvAlways, PTL DEF Spec, EvictsOnlyForSpace

\* If a prompt and its answer always fit into the recent part, the clamp of
\* the query positions never bites: in each pass of a chat every token's query
\* is rotated to the place of its own key, within the size of the cache.
THEOREM QueriesAtTheirKeysAlways ==
  ASSUME MaxPrompt + MaxGenLen <= RecentSize
  PROVE  Spec => []QueriesAtTheirKeys
<1>1. ASSUME NEW n \in Nat, Len(cache) \in Nat, CacheSize \in Nat,
             Len(cache) + n <= CacheSize, NEW i \in 1 .. n
      PROVE  /\ QueryPositions(n)[i] = KeyPositions(n)[Len(cache) + i]
             /\ QueryPositions(n)[i] < CacheSize
  <2>1. ~(CacheSize < Len(cache) + n) /\ Len(cache) + i <= Len(cache) + n
    BY <1>1
  <2>2. QueryPositions(n)[i] = Len(cache) + i - 1
    BY <1>1, <2>1 DEF QueryPositions
  <2>3. KeyPositions(n)[Len(cache) + i] = Len(cache) + i - 1
    BY <1>1 DEF KeyPositions
  <2> QED
    BY <1>1, <2>2, <2>3
<1>2. StreamingInv => QueriesAtTheirKeys
  <2> SUFFICES ASSUME StreamingInv, pc \in {"prompt", "generate"} PROVE QueriesAtTheirKeys
    BY DEF QueriesAtTheirKeys
  <2> DEFINE n == IF pc = "prompt" THEN coming - MaxGenLen ELSE IF coming > 0 THEN 1 ELSE 0
  <2>1. Len(cache) \in Nat /\ CacheSize \in Nat /\ coming \in Nat /\ MaxGenLen \in Nat
    BY StreamingAssumption DEF StreamingInv, Shaped, CacheSize
  <2>2. Len(cache) + coming <= CacheSize
    BY DEF StreamingInv, TurnFits
  <2>3. n \in Nat /\ n <= coming
    BY <2>1, StreamingAssumption DEF StreamingInv
  <2> HIDE DEF n
  <2>4. Len(cache) + n <= CacheSize
    BY <2>1, <2>2, <2>3
  <2>5. \A i \in 1 .. n : /\ QueryPositions(n)[i] = KeyPositions(n)[Len(cache) + i]
                          /\ QueryPositions(n)[i] < CacheSize
    BY <1>1, <2>1, <2>3, <2>4
  <2> QED
    BY <2>5 DEF QueriesAtTheirKeys, n
<1> QED
  BY <1>2, StreamingInvAlways, PTL
=============================================================================
