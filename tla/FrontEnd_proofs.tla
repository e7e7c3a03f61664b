--------------------------- MODULE FrontEnd_proofs ---------------------------
(***************************************************************************)
(* Theorems about FrontEnd: for any requests, any numbers of completions   *)
(* and output kinds, and any lengths, a caller gets exactly the tokens     *)
(* that were made for it, a stream that ends is complete, and the engine   *)
(* works for nobody who is gone.                                           *)
(***************************************************************************)
EXTENDS FrontEnd, SequenceTheorems, FiniteSetTheorems, TLAPS

-----------------------------------------------------------------------------
(* The invariant *)

\* The children of p that the output processor knows
Kids(p) == {c \in states : c[1] = p}

\* generate() has come past this child, or has failed at it.
Old(c) == c[2] < gen[c[1]].next \/ gen[c[1]].pc = "failed"

Typed ==
  /\ param \in Params
  /\ gen \in [Reqs -> [pc : {"new", "adding", "loop", "wait", "yield", "ended", "closed",
                             "cancelled", "failed"}, next : Nat]]
  /\ output \in [Reqs -> RequestOutputs \cup {None, Dead}] /\ ready \in [Reqs -> BOOLEAN]
  /\ seen \in [Reqs -> ByIndex] /\ aggregator \in [Reqs -> ByIndex]
  /\ states \subseteq Children /\ \A c \in states : c[2] \in Indices(c[1])
  /\ parents \subseteq Reqs /\ childRequests \in [Reqs -> SUBSET Children]
  /\ tokens \in [Children -> Nat] /\ engineDead \in BOOLEAN
  /\ handler \in [pc : {"get", "slice", "abort", "dead"}, todo : EngineCoreOutputs,
                  abort : SUBSET Children]
  /\ handler.pc \in {"slice", "abort"} => handler.todo # << >>
  /\ handler.pc # "abort" => handler.abort = {}
  /\ toEngine \in Seq([kind : {"add", "abort"}, reqs : SUBSET Children])
  /\ outputs \in Seq((EngineCoreOutputs \ {<< >>}) \cup {Dead})
  /\ live \subseteq Children /\ IsFiniteSet(live)

\* Where generate() is with its children
Started ==
  \A p \in Reqs :
    /\ gen[p].next <= N(p)
    /\ gen[p].pc = "new" => gen[p].next = 0
    /\ gen[p].pc = "adding" => gen[p].next < N(p)
    /\ gen[p].pc \in {"loop", "wait", "yield", "ended", "closed"} => gen[p].next = N(p)

\* A parent has the children that are in request_states, and is known as long
\* as there are any.
Lists ==
  \A p \in Reqs :
    IF N(p) = 1 THEN p \notin parents /\ childRequests[p] = {}
    ELSE IF p \in parents THEN childRequests[p] = Kids(p) /\ Kids(p) # {}
    ELSE /\ Kids(p) = {}
         /\ gen[p].pc \in {"new", "adding"} => childRequests[p] = {}

\* Only a dead engine makes generate() fail.
OnlyDeathFails ==
  /\ handler.pc = "dead" => engineDead
  /\ \A p \in Reqs : output[p] = Dead \/ gen[p].pc = "failed" => engineDead

\* The completion x and then y
Joined(kind, x, y) ==
  IF kind = "DELTA" THEN [toks |-> x.toks \o y.toks, finished |-> y.finished] ELSE y

\* The completions a, and then b on top of them
After(kind, a, b) ==
  [i \in DOMAIN a \cup DOMAIN b |-> IF i \notin DOMAIN b THEN a[i]
                                    ELSE IF i \notin DOMAIN a THEN b[i]
                                    ELSE Joined(kind, a[i], b[i])]

\* What the caller has, with what lies in the slot for it
Has(p) == IF output[p] \in {None, Dead} THEN seen[p]
          ELSE After(Kind(p), seen[p], output[p].comps)

\* A child that was not added has left no trace.
Fresh ==
  \A c \in Children : ~Old(c) =>
    /\ c \notin states /\ tokens[c] = 0
    /\ c[2] \notin DOMAIN Has(c[1]) /\ c[2] \notin DOMAIN aggregator[c[1]]

\* StreamFaithful, in terms of Has; only finished completions come with
\* FINAL_ONLY.
FaithfulTo(p, i) ==
  /\ i \in DOMAIN Has(p) => /\ Has(p)[i].toks = Numbers(1, tokens[<<p, i>>])
                            /\ Kind(p) = "FINAL_ONLY" => <<p, i>> \notin states
  /\ i \notin DOMAIN Has(p) => Kind(p) = "FINAL_ONLY" \/ tokens[<<p, i>>] = 0

Faithful == \A p \in Reqs : output[p] # Dead /\ gen[p].pc # "failed" =>
              \A i \in Indices(p) : FaithfulTo(p, i)

\* The aggregator has the finished completions, to their ends.
Aggregated ==
  \A p \in Reqs : \A i \in DOMAIN aggregator[p] :
    /\ aggregator[p][i] = [toks |-> Numbers(1, tokens[<<p, i>>]), finished |-> TRUE]
    /\ <<p, i>> \notin states

\* The outputs on the way and those being processed
Coming == Range(handler.todo) \cup UNION {Range(os) : os \in Range(outputs) \ {Dead}}

Sent(kind) == UNION {toEngine[j].reqs : j \in {k \in DOMAIN toEngine : toEngine[k].kind = kind}}

\* A child is sent to the engine once, and nothing is sent about it before.
Mail ==
  /\ \A j \in DOMAIN toEngine :
       /\ \A c \in toEngine[j].reqs : Old(c)
       /\ toEngine[j].kind = "add" =>
            /\ \E c \in Children : toEngine[j].reqs = {c}
            /\ toEngine[j].reqs \cap live = {}
            /\ \A i \in 1 .. j - 1 : toEngine[i].reqs \cap toEngine[j].reqs = {}
  /\ \A c \in live \cup handler.abort : Old(c)
  /\ \A o \in Coming : /\ Old(o.req)
                       /\ o.finished => o.req \notin live \cup Sent("add")

\* The second part of NoOrphans
WorkIsWanted ==
  \/ engineDead \/ Dead \in Range(outputs)
  \/ live \cup Sent("add") \subseteq states \cup handler.abort \cup Sent("abort")

\* A child that has gone by itself has left its last completion.
LeavesItsLast ==
  \A p \in Reqs : output[p] # Dead /\ gen[p].pc \notin {"failed", "cancelled"} =>
    \A i \in Indices(p) : Old(<<p, i>>) /\ <<p, i>> \notin states =>
      IF Kind(p) = "FINAL_ONLY" /\ N(p) > 1 THEN i \in DOMAIN aggregator[p]
      ELSE i \in DOMAIN Has(p) /\ Has(p)[i].finished

\* What depends on the tasks and the output processor alone
ViewInv == Started /\ Lists /\ Fresh /\ Faithful /\ Aggregated /\ LeavesItsLast

FrontInv == Typed /\ ViewInv /\ OnlyDeathFails /\ Mail /\ WorkIsWanted

\* What a caller with a finished stream has
Whole(p) == \A i \in Indices(p) : i \in DOMAIN Has(p) /\ Has(p)[i].finished

\* The last output of a stream
Ending ==
  \A p \in Reqs :
    /\ output[p] \notin {None, Dead} /\ output[p].finished =>
         /\ Kids(p) = {} /\ gen[p].pc \notin {"new", "adding"}
         /\ gen[p].pc \notin {"failed", "cancelled"} => Whole(p)
    /\ gen[p].pc = "ended" => Kids(p) = {} /\ output[p] = None /\ Whole(p)
    /\ gen[p].pc = "cancelled" => Kids(p) = {}

-----------------------------------------------------------------------------
(* Completions by index *)

\* What it is to be one of ByIndex.
LEMMA ByIndexIs ==
  /\ \A f \in ByIndex : /\ f = [i \in DOMAIN f |-> f[i]] /\ DOMAIN f \subseteq AllIndices
                        /\ \A i \in DOMAIN f : f[i] \in Completions
  /\ \A I \in SUBSET AllIndices : \A f \in [I -> Completions] : f \in ByIndex
BY DEF ByIndex

\* None, errors and outputs are told apart.
LEMMA SlotKinds ==
  /\ None # Dead
  /\ \A out \in RequestOutputs : out # None /\ out # Dead
  /\ \A os \in EngineCoreOutputs : os # Dead
BY FrontEndAssumption

\* One completion
LEMMA SingleByIndex ==
  ASSUME NEW i \in AllIndices, NEW comp \in Completions
  PROVE  [j \in {i} |-> comp] \in ByIndex
<1>1. [j \in {i} |-> comp] \in [{i} -> Completions] /\ {i} \in SUBSET AllIndices
  OBVIOUS
<1> QED BY <1>1, ByIndexIs

\* Texts may be joined in any order.
LEMMA JoinedTexts ==
  ASSUME NEW x \in Seq(Nat), NEW y \in Seq(Nat), NEW z \in Seq(Nat)
  PROVE  (x \o y) \o z = x \o (y \o z)
BY ConcatAssociative, SMTT(40)

\* A joined completion is one, and completions may be joined in any order.
LEMMA JoinedFacts ==
  ASSUME NEW kind, NEW x \in Completions, NEW y \in Completions, NEW z \in Completions
  PROVE  /\ Joined(kind, x, y) \in Completions
         /\ Joined(kind, Joined(kind, x, y), z) = Joined(kind, x, Joined(kind, y, z))
<1>1. /\ x.toks \in Seq(Nat) /\ y.toks \in Seq(Nat) /\ z.toks \in Seq(Nat)
      /\ y.finished \in BOOLEAN
  BY DEF Completions
<1>2. x.toks \o y.toks \in Seq(Nat)
  BY <1>1, ConcatProperties
<1>3. (x.toks \o y.toks) \o z.toks = x.toks \o (y.toks \o z.toks)
  BY <1>1, JoinedTexts
<1>4. CASE kind = "DELTA"
  <2> DEFINE xy == [toks |-> x.toks \o y.toks, finished |-> y.finished]
             yz == [toks |-> y.toks \o z.toks, finished |-> z.finished]
  <2>1. xy.toks = x.toks \o y.toks /\ xy.finished = y.finished /\ xy \in Completions
    BY <1>1, <1>2 DEF Completions
  <2>2. yz.toks = y.toks \o z.toks /\ yz.finished = z.finished
    OBVIOUS
  <2>3. Joined(kind, x, y) = xy /\ Joined(kind, y, z) = yz
    BY <1>4 DEF Joined
  <2> HIDE DEF xy, yz
  <2>4. /\ Joined(kind, xy, z) = [toks |-> xy.toks \o z.toks, finished |-> z.finished]
        /\ Joined(kind, x, yz) = [toks |-> x.toks \o yz.toks, finished |-> yz.finished]
    BY <1>4 DEF Joined
  <2> QED BY <1>3, <2>1, <2>2, <2>3, <2>4
<1>5. CASE kind # "DELTA"
  BY <1>5 DEF Joined
<1> QED BY <1>4, <1>5

\* Completions after others are completions by index.
LEMMA AfterType ==
  ASSUME NEW kind, NEW a \in ByIndex, NEW b \in ByIndex
  PROVE  After(kind, a, b) \in ByIndex
<1> DEFINE I == DOMAIN a \cup DOMAIN b
<1>1. I \in SUBSET AllIndices
  BY ByIndexIs
<1>2. ASSUME NEW i \in I PROVE After(kind, a, b)[i] \in Completions
  <2>1. /\ i \in DOMAIN a => a[i] \in Completions
        /\ i \in DOMAIN b => b[i] \in Completions
    BY ByIndexIs
  <2>2. i \in DOMAIN a /\ i \in DOMAIN b => Joined(kind, a[i], b[i]) \in Completions
    BY <2>1, JoinedFacts
  <2> QED BY <2>1, <2>2 DEF After
<1>3. After(kind, a, b) \in [I -> Completions]
  BY <1>2 DEF After
<1> QED BY <1>1, <1>3, ByIndexIs

\* To join an output to the slot and then take it is to take both, one after
\* the other.
LEMMA AfterAfter ==
  ASSUME NEW kind, NEW a \in ByIndex, NEW b \in ByIndex, NEW c \in ByIndex
  PROVE  After(kind, After(kind, a, b), c) = After(kind, a, After(kind, b, c))
<1> DEFINE ab == After(kind, a, b)
           bc == After(kind, b, c)
           I == DOMAIN a \cup DOMAIN b \cup DOMAIN c
<1>1. DOMAIN ab = DOMAIN a \cup DOMAIN b /\ DOMAIN bc = DOMAIN b \cup DOMAIN c
  BY DEF After
<1>2. /\ \A i \in DOMAIN ab : ab[i] = IF i \notin DOMAIN b THEN a[i]
                                      ELSE IF i \notin DOMAIN a THEN b[i]
                                      ELSE Joined(kind, a[i], b[i])
      /\ \A i \in DOMAIN bc : bc[i] = IF i \notin DOMAIN c THEN b[i]
                                      ELSE IF i \notin DOMAIN b THEN c[i]
                                      ELSE Joined(kind, b[i], c[i])
  BY DEF After
<1>3. /\ After(kind, ab, c) = [i \in I |-> IF i \notin DOMAIN c THEN ab[i]
                                           ELSE IF i \notin DOMAIN ab THEN c[i]
                                           ELSE Joined(kind, ab[i], c[i])]
      /\ After(kind, a, bc) = [i \in I |-> IF i \notin DOMAIN bc THEN a[i]
                                           ELSE IF i \notin DOMAIN a THEN bc[i]
                                           ELSE Joined(kind, a[i], bc[i])]
  <2>1. DOMAIN ab \cup DOMAIN c = I /\ DOMAIN a \cup DOMAIN bc = I
    BY <1>1
  <2> HIDE DEF ab, bc, I
  <2> QED BY <2>1 DEF After
<1> HIDE DEF ab, bc
<1>4. ASSUME NEW i \in I PROVE After(kind, ab, c)[i] = After(kind, a, bc)[i]
  <2>1. i \in DOMAIN a /\ i \in DOMAIN b /\ i \in DOMAIN c =>
          Joined(kind, Joined(kind, a[i], b[i]), c[i]) = Joined(kind, a[i], Joined(kind, b[i], c[i]))
    <3>1. /\ i \in DOMAIN a => a[i] \in Completions
          /\ i \in DOMAIN b => b[i] \in Completions
          /\ i \in DOMAIN c => c[i] \in Completions
      BY ByIndexIs
    <3> QED BY <3>1, JoinedFacts
  <2> QED BY <1>1, <1>2, <1>3, <2>1
<1>5. /\ After(kind, ab, c) = [i \in I |-> After(kind, ab, c)[i]]
      /\ After(kind, a, bc) = [i \in I |-> After(kind, a, bc)[i]]
  BY <1>3
<1> QED BY <1>4, <1>5 DEF ab, bc

\* The numbers of a text
LEMMA NumbersAre ==
  ASSUME NEW k \in Nat
  PROVE  /\ Numbers(1, k) \in Seq(Nat) /\ Len(Numbers(1, k)) = k
         /\ \A i \in 1 .. k : Numbers(1, k)[i] = i
<1>1. Numbers(1, k) = [i \in 1 .. k |-> i]
  BY DEF Numbers
<1> QED BY <1>1

\* One more number
LEMMA NumbersGrow ==
  ASSUME NEW k \in Nat
  PROVE  Numbers(1, k) \o <<k + 1>> = Numbers(1, k + 1)
<1> DEFINE s == Numbers(1, k) \o <<k + 1>>
<1>1. /\ s \in Seq(Nat) /\ Len(s) = k + 1
      /\ \A i \in 1 .. k + 1 : s[i] = IF i <= k THEN Numbers(1, k)[i] ELSE <<k + 1>>[i - k]
  <2>1. <<k + 1>> \in Seq(Nat) /\ Len(<<k + 1>>) = 1
    OBVIOUS
  <2>2. PICK a \in Seq(Nat) : a = Numbers(1, k) /\ Len(a) = k
    BY NumbersAre
  <2>3. PICK b \in Seq(Nat) : b = <<k + 1>> /\ Len(b) = 1
    BY <2>1
  <2>4. /\ a \o b \in Seq(Nat) /\ Len(a \o b) = Len(a) + Len(b)
        /\ \A i \in 1 .. Len(a) + Len(b) : (a \o b)[i] = IF i <= Len(a) THEN a[i] ELSE b[i - Len(a)]
    BY ONLY a \in Seq(Nat), b \in Seq(Nat), ConcatProperties
  <2> QED BY <2>2, <2>3, <2>4
<1> HIDE DEF s
<1>2. ASSUME NEW i \in 1 .. k + 1 PROVE s[i] = Numbers(1, k + 1)[i]
  <2>1. Numbers(1, k + 1)[i] = i
    BY NumbersAre
  <2>2. CASE i <= k
    <3>1. i \in 1 .. k
      BY <2>2
    <3>2. Numbers(1, k)[i] = i
      BY <3>1, NumbersAre
    <3> QED BY <1>1, <2>1, <2>2, <3>2
  <2>3. CASE i = k + 1
    BY <1>1, <2>1, <2>3
  <2> QED BY <2>2, <2>3
<1>3. Numbers(1, k + 1) \in Seq(Nat) /\ Len(Numbers(1, k + 1)) = k + 1
  BY NumbersAre
<1>4. s = Numbers(1, k + 1)
  BY <1>1, <1>2, <1>3, SeqEqual
<1> QED BY <1>4 DEF s

\* The first number
LEMMA FirstNumber == Numbers(1, 1) = <<1>>
<1>1. Numbers(1, 1) = [i \in 1 .. 1 |-> i]
  BY DEF Numbers
<1> QED BY <1>1

\* Added joins the completions.
LEMMA AddedIs ==
  ASSUME NEW p \in Reqs, NEW old \in RequestOutputs, NEW new \in RequestOutputs
  PROVE  /\ Added(p, old, new) \in RequestOutputs
         /\ Added(p, old, new).finished = (old.finished \/ new.finished)
         /\ Added(p, old, new).comps = After(Kind(p), old.comps, new.comps)
<1>1. Added(p, old, new) = [finished |-> old.finished \/ new.finished,
                            comps |-> After(Kind(p), old.comps, new.comps)]
  BY DEF Added, Merged, After, Joined
<1>2. /\ old.comps \in ByIndex /\ new.comps \in ByIndex
      /\ old.finished \in BOOLEAN /\ new.finished \in BOOLEAN
  BY DEF RequestOutputs
<1>3. After(Kind(p), old.comps, new.comps) \in ByIndex
  BY <1>2, AfterType
<1> QED BY <1>1, <1>2, <1>3 DEF RequestOutputs

-----------------------------------------------------------------------------
(* What the invariant rests on *)

\* The parameters of a request
LEMMA ParamsTyped ==
  ASSUME Typed, NEW p \in Reqs
  PROVE  /\ N(p) \in Nat \ {0} /\ Kind(p) \in Kinds
         /\ Indices(p) = 0 .. N(p) - 1 /\ Indices(p) \subseteq AllIndices
         /\ \A i \in Indices(p) : <<p, i>> \in Children
<1>1. param \in [Reqs -> [n : Nat \ {0}, kind : Kinds]] /\ param \in Params
  BY FrontEndAssumption DEF Typed
<1>2. Indices(p) \subseteq AllIndices
  <2>1. Indices(p) \in {0 .. f[q].n - 1 : f \in Params, q \in Reqs}
    BY <1>1 DEF Indices, N
  <2> QED BY <2>1 DEF AllIndices
<1> QED BY <1>1, <1>2 DEF N, Kind, Indices, Children

\* A child has a request and an index.
LEMMA ChildIs ==
  /\ \A c \in Children : c = <<c[1], c[2]>> /\ c[1] \in Reqs /\ c[2] \in AllIndices /\ c[2] \in Nat
  /\ \A p \in Reqs, i \in AllIndices : /\ <<p, i>> \in Children
                                       /\ <<p, i>>[1] = p /\ <<p, i>>[2] = i
<1>1. ASSUME NEW i \in AllIndices PROVE i \in Nat
  <2> DEFINE Ranges == {0 .. f[p].n - 1 : f \in Params, p \in Reqs}
  <2>0. i \in UNION Ranges
    BY DEF AllIndices
  <2>1. PICK I \in Ranges : i \in I
    <3> HIDE DEF Ranges
    <3> QED BY <2>0
  <2>2. PICK f \in Params, p \in Reqs : I = 0 .. f[p].n - 1
    <3>1. Ranges = {0 .. f[p].n - 1 : f \in Params, p \in Reqs}
      OBVIOUS
    <3> HIDE DEF Ranges
    <3> QED BY <3>1
  <2> QED BY <2>1, <2>2
<1> QED BY <1>1 DEF Children

\* What a caller has are completions.
LEMMA HasTyped ==
  ASSUME Typed, NEW p \in Reqs
  PROVE  /\ Has(p) \in ByIndex
         /\ output[p] \notin {None, Dead} => output[p] \in RequestOutputs /\ output[p].comps \in ByIndex
         /\ output[p] \notin {None, Dead} => DOMAIN Has(p) = DOMAIN seen[p] \cup DOMAIN output[p].comps
<1>1. seen[p] \in ByIndex /\ output[p] \in RequestOutputs \cup {None, Dead}
  BY DEF Typed
<1>2. output[p] \notin {None, Dead} => output[p] \in RequestOutputs /\ output[p].comps \in ByIndex
  BY <1>1 DEF RequestOutputs
<1>3. CASE output[p] \in {None, Dead}
  BY <1>1, <1>3 DEF Has
<1>4. CASE output[p] \notin {None, Dead}
  BY <1>1, <1>2, <1>4, AfterType DEF Has, After
<1> QED BY <1>2, <1>3, <1>4

\* Nothing has happened yet.
LEMMA InitFrontInv == Init => FrontInv /\ Ending
<1> SUFFICES ASSUME Init PROVE FrontInv /\ Ending
  OBVIOUS
<1>1. NoCompletions \in ByIndex /\ DOMAIN NoCompletions = {}
  <2>1. NoCompletions \in [{} -> Completions] /\ {} \in SUBSET AllIndices
    BY DEF NoCompletions
  <2> QED BY <2>1, ByIndexIs DEF NoCompletions
<1>2. Typed
  <2>1. IsFiniteSet({})
    BY FS_EmptySet
  <2>2. << >> \in EngineCoreOutputs
    BY DEF EngineCoreOutputs
  <2>3. /\ param \in Params /\ states = {} /\ parents = {} /\ live = {}
        /\ outputs = << >> /\ toEngine = << >> /\ engineDead = FALSE
        /\ handler = [pc |-> "get", todo |-> << >>, abort |-> {}]
    BY DEF Init
  <2>4. /\ output \in [Reqs -> RequestOutputs \cup {None, Dead}] /\ ready \in [Reqs -> BOOLEAN]
        /\ seen \in [Reqs -> ByIndex] /\ aggregator \in [Reqs -> ByIndex]
        /\ childRequests \in [Reqs -> SUBSET Children] /\ tokens \in [Children -> Nat]
    BY <1>1 DEF Init
  <2>5. gen \in [Reqs -> [pc : {"new", "adding", "loop", "wait", "yield", "ended", "closed",
                                "cancelled", "failed"}, next : Nat]]
    BY DEF Init
  <2>6. outputs \in Seq((EngineCoreOutputs \ {<< >>}) \cup {Dead})
        /\ toEngine \in Seq([kind : {"add", "abort"}, reqs : SUBSET Children])
    BY <2>3
  <2> QED BY <2>1, <2>2, <2>3, <2>4, <2>5, <2>6 DEF Typed
<1>3. \A p \in Reqs : /\ output[p] = None /\ seen[p] = NoCompletions
                      /\ Has(p) = NoCompletions /\ aggregator[p] = NoCompletions
                      /\ gen[p].pc = "new" /\ gen[p].next = 0 /\ Kids(p) = {}
  BY DEF Init, Has, Kids
<1>4. Started /\ Lists
  BY <1>2, <1>3, ParamsTyped DEF Started, Lists, Init
<1>5. OnlyDeathFails
  BY <1>3, SlotKinds DEF OnlyDeathFails, Init
<1>6. ASSUME NEW c \in Children PROVE ~Old(c) /\ tokens[c] = 0
  BY <1>3, ChildIs DEF Old, Init
<1>7. Fresh
  BY <1>1, <1>3, <1>6, ChildIs DEF Fresh, Init
<1>8. Faithful
  BY <1>1, <1>2, <1>3, <1>6, ParamsTyped DEF Faithful, FaithfulTo
<1>9. Aggregated
  BY <1>1, <1>3 DEF Aggregated
<1>10. Coming = {} /\ Sent("add") = {} /\ Sent("abort") = {}
  BY DEF Coming, Sent, Init, Range
<1>11. Mail /\ WorkIsWanted
  BY <1>10 DEF Mail, WorkIsWanted, Init
<1>12. LeavesItsLast
  BY <1>2, <1>6, ParamsTyped DEF LeavesItsLast
<1>13. Ending
  BY <1>3 DEF Ending
<1> QED BY <1>2, <1>4, <1>5, <1>7, <1>8, <1>9, <1>11, <1>12, <1>13
     DEF FrontInv, ViewInv

\* What a sequence is with one more element, and without its first.
LEMMA QueueFacts ==
  ASSUME NEW S, NEW s \in Seq(S)
  PROVE  /\ Range(s) = {s[i] : i \in 1 .. Len(s)}
         /\ \A e \in S : /\ Append(s, e) \in Seq(S) /\ Len(Append(s, e)) = Len(s) + 1
                         /\ \A i \in 1 .. Len(s) : Append(s, e)[i] = s[i]
                         /\ Append(s, e)[Len(s) + 1] = e
                         /\ Range(Append(s, e)) = Range(s) \cup {e}
         /\ s # << >> => /\ Head(s) = s[1] /\ Head(s) \in S /\ 1 \in 1 .. Len(s)
                         /\ Tail(s) \in Seq(S) /\ Len(Tail(s)) = Len(s) - 1
                         /\ \A i \in 1 .. Len(Tail(s)) : Tail(s)[i] = s[i + 1]
                         /\ Range(s) = {Head(s)} \cup Range(Tail(s))
<1>1. Range(s) = {s[i] : i \in 1 .. Len(s)} /\ Len(s) \in Nat
  BY DEF Range
<1>2. ASSUME NEW e \in S
      PROVE  /\ Append(s, e) \in Seq(S) /\ Len(Append(s, e)) = Len(s) + 1
             /\ \A i \in 1 .. Len(s) : Append(s, e)[i] = s[i]
             /\ Append(s, e)[Len(s) + 1] = e
             /\ Range(Append(s, e)) = Range(s) \cup {e}
  <2> DEFINE t == Append(s, e)
  <2>1. /\ t \in Seq(S) /\ Len(t) = Len(s) + 1
        /\ \A i \in 1 .. Len(s) : t[i] = s[i]
        /\ t[Len(s) + 1] = e
    BY AppendProperties
  <2> HIDE DEF t
  <2>2. Range(t) = {t[i] : i \in 1 .. Len(t)}
    BY <2>1 DEF Range
  <2>3. \A i \in 1 .. Len(t) : i \in 1 .. Len(s) \/ i = Len(s) + 1
    BY <1>1, <2>1
  <2>4. Range(t) = Range(s) \cup {e}
    BY <1>1, <2>1, <2>2, <2>3
  <2> QED BY <2>1, <2>4 DEF t
<1>3. ASSUME s # << >>
      PROVE  /\ Head(s) = s[1] /\ Head(s) \in S /\ 1 \in 1 .. Len(s)
             /\ Tail(s) \in Seq(S) /\ Len(Tail(s)) = Len(s) - 1
             /\ \A i \in 1 .. Len(Tail(s)) : Tail(s)[i] = s[i + 1]
             /\ Range(s) = {Head(s)} \cup Range(Tail(s))
  <2> DEFINE t == Tail(s)
  <2>1. /\ t \in Seq(S) /\ Len(t) = Len(s) - 1 /\ Len(s) > 0 /\ Head(s) = s[1] /\ Head(s) \in S
        /\ \A i \in 1 .. Len(t) : t[i] = s[i + 1]
    BY <1>1, <1>3, HeadTailProperties, EmptySeq
  <2> HIDE DEF t
  <2>2. Range(t) = {t[i] : i \in 1 .. Len(t)}
    BY <2>1 DEF Range
  <2>3. \A i \in 1 .. Len(s) : i = 1 \/ (i - 1 \in 1 .. Len(t) /\ s[i] = t[i - 1])
    BY <1>1, <2>1
  <2>4. \A i \in 1 .. Len(t) : i + 1 \in 1 .. Len(s)
    BY <1>1, <2>1
  <2>5. Range(s) = {Head(s)} \cup Range(t)
    BY <1>1, <2>1, <2>2, <2>3, <2>4
  <2> QED BY <1>1, <2>1, <2>5 DEF t
<1> QED BY <1>1, <1>2, <1>3

\* A finite set is put in some order.
LEMMA SetToSeqFacts ==
  ASSUME NEW S, IsFiniteSet(S)
  PROVE  SetToSeq(S) \in Seq(S) /\ Range(SetToSeq(S)) = S
<1> DEFINE n == Cardinality(S)
           Orders == {f \in [1 .. n -> S] : IsInjective(f)}
<1>1. n \in Nat /\ ExistsBijection(1 .. n, S)
  BY FS_CardinalityType
<1>2. PICK f : f \in Bijection(1 .. n, S)
  BY <1>1 DEF ExistsBijection
<1>3. f \in Injection(1 .. n, S)
  BY <1>2 DEF Bijection
<1>4. f \in [1 .. n -> S] /\ IsInjective(f)
  BY <1>3 DEF Injection
<1>5. SetToSeq(S) \in [1 .. n -> S] /\ IsInjective(SetToSeq(S))
  BY <1>4 DEF SetToSeq
<1> DEFINE s == SetToSeq(S)
<1> HIDE DEF s
<1>6. s \in Injection(1 .. n, S)
  BY <1>5 DEF Injection, s
<1>7. IsFiniteSet(1 .. n) /\ Cardinality(1 .. n) = n
  BY <1>1, FS_Interval
<1>8. s \in Surjection(1 .. n, S)
  BY <1>6, <1>7, FS_Injection
<1>9. DOMAIN s = 1 .. n /\ \A x \in S : \E i \in 1 .. n : s[i] = x
  BY <1>8 DEF Surjection
<1>10. s \in Seq(S)
  BY <1>1, <1>5 DEF s
<1>11. Range(s) = S
  BY <1>5, <1>9 DEF Range, s
<1> QED BY <1>10, <1>11 DEF s

-----------------------------------------------------------------------------
(* The engine core, and the handler's messages *)

view == <<param, gen, seen, output, states, parents, childRequests, aggregator, tokens>>

\* What is not touched stays as it is.
LEMMA ViewSame ==
  ASSUME ViewInv, UNCHANGED view
  PROVE  /\ ViewInv' /\ Ending' = Ending
         /\ \A c \in Children : Old(c)' = Old(c)
<1>1. /\ \A p : N(p)' = N(p) /\ Kind(p)' = Kind(p) /\ Indices(p)' = Indices(p) /\ Kids(p)' = Kids(p)
      /\ \A p : Has(p)' = Has(p)
      /\ \A c : Old(c)' = Old(c)
  BY DEF view, N, Kind, Indices, Kids, Has, Old
<1>2. /\ Started' = Started /\ Lists' = Lists
  BY <1>1 DEF Started, Lists, view
<1>3. Fresh' = Fresh /\ Aggregated' = Aggregated
  BY <1>1 DEF Fresh, Aggregated, view
<1>4. Faithful' = Faithful /\ LeavesItsLast' = LeavesItsLast
  BY <1>1 DEF Faithful, FaithfulTo, LeavesItsLast, view
<1>5. Ending' = Ending
  BY <1>1 DEF Ending, Whole, view
<1> QED BY <1>1, <1>2, <1>3, <1>4, <1>5 DEF ViewInv

\* The engine core takes a message.
LEMMA ReceiveKeeps ==
  ASSUME FrontInv, EngineReceive
  PROVE  FrontInv' /\ Ending' = Ending
<1> DEFINE msg == Head(toEngine)
           M == [kind : {"add", "abort"}, reqs : SUBSET Children]
<1>1. /\ toEngine \in Seq(M) /\ toEngine # << >> /\ toEngine' = Tail(toEngine)
      /\ live' = IF msg.kind = "add" THEN live \cup msg.reqs ELSE live \ msg.reqs
      /\ live \subseteq Children /\ IsFiniteSet(live)
  BY DEF FrontInv, Typed, EngineReceive
<1>2. /\ UNCHANGED view
      /\ UNCHANGED <<output, ready, states, handler, engineDead, outputs>>
  BY DEF EngineReceive, view, tasks, processor
<1>3. ViewInv' /\ Ending' = Ending /\ \A c \in Children : Old(c)' = Old(c)
  BY <1>2, ViewSame DEF FrontInv
<1>4. /\ toEngine' \in Seq(M) /\ Len(toEngine') = Len(toEngine) - 1 /\ Len(toEngine) \in Nat
      /\ msg = toEngine[1] /\ msg \in M /\ 1 \in DOMAIN toEngine
      /\ DOMAIN toEngine' = 1 .. Len(toEngine) - 1
      /\ \A j \in DOMAIN toEngine' : toEngine'[j] = toEngine[j + 1] /\ j + 1 \in DOMAIN toEngine
      /\ \A j \in DOMAIN toEngine : j = 1 \/ (j - 1 \in DOMAIN toEngine' /\ toEngine[j] = toEngine'[j - 1])
  <2> HIDE DEF M
  <2>1. /\ msg = toEngine[1] /\ msg \in M /\ 1 \in 1 .. Len(toEngine)
        /\ toEngine' \in Seq(M) /\ Len(toEngine') = Len(toEngine) - 1
        /\ \A i \in 1 .. Len(toEngine') : toEngine'[i] = toEngine[i + 1]
    BY <1>1, QueueFacts
  <2>2. /\ DOMAIN toEngine = 1 .. Len(toEngine) /\ Len(toEngine) \in Nat
        /\ DOMAIN toEngine' = 1 .. Len(toEngine')
    BY <1>1, <2>1
  <2>3. \A j \in DOMAIN toEngine' : j + 1 \in DOMAIN toEngine
    BY <2>1, <2>2
  <2>4. ASSUME NEW j \in DOMAIN toEngine, j # 1
        PROVE  j - 1 \in DOMAIN toEngine' /\ toEngine[j] = toEngine'[j - 1]
    BY <2>1, <2>2, <2>4
  <2> QED BY <2>1, <2>2, <2>3, <2>4
<1>5. msg.kind = "add" => \E c \in Children : msg.reqs = {c}
  BY <1>4 DEF FrontInv, Mail
<1>6. live' \subseteq Children /\ IsFiniteSet(live')
  <2>1. CASE msg.kind = "add"
    BY <1>1, <1>5, <2>1, FS_AddElement
  <2>2. CASE msg.kind # "add"
    BY <1>1, <2>2, FS_Difference
  <2> QED BY <2>1, <2>2
<1>7. Typed'
  BY <1>1, <1>2, <1>4, <1>6 DEF FrontInv, Typed, EngineReceive, tasks, processor, Indices, N
<1>8. OnlyDeathFails'
  BY <1>2 DEF FrontInv, OnlyDeathFails, view
<1>9. /\ Coming' = Coming
      /\ \A k : Sent(k) = (IF msg.kind = k THEN msg.reqs ELSE {}) \cup Sent(k)'
  <2>1. Coming' = Coming
    BY <1>2 DEF Coming
  <2> DEFINE At(k) == {j \in DOMAIN toEngine : toEngine[j].kind = k}
             Then(k) == {j \in DOMAIN toEngine' : toEngine'[j].kind = k}
  <2>2. ASSUME NEW k PROVE Sent(k) = (IF msg.kind = k THEN msg.reqs ELSE {}) \cup Sent(k)'
    <3>1. /\ \A c : c \in Sent(k) <=> \E j \in DOMAIN toEngine : toEngine[j].kind = k /\ c \in toEngine[j].reqs
          /\ \A c : c \in Sent(k)' <=> \E j \in DOMAIN toEngine' : toEngine'[j].kind = k /\ c \in toEngine'[j].reqs
      BY DEF Sent
    <3> QED BY <1>4, <3>1
  <2> QED BY <2>1, <2>2
<1>10. \A j \in DOMAIN toEngine' :
         /\ \A c \in toEngine'[j].reqs : Old(c)'
         /\ toEngine'[j].kind = "add" =>
              /\ \E c \in Children : toEngine'[j].reqs = {c}
              /\ toEngine'[j].reqs \cap live' = {}
              /\ \A i \in 1 .. j - 1 : toEngine'[i].reqs \cap toEngine'[j].reqs = {}
  <2> SUFFICES ASSUME NEW j \in DOMAIN toEngine'
               PROVE  /\ \A c \in toEngine'[j].reqs : Old(c)'
                      /\ toEngine'[j].kind = "add" =>
                           /\ \E c \in Children : toEngine'[j].reqs = {c}
                           /\ toEngine'[j].reqs \cap live' = {}
                           /\ \A i \in 1 .. j - 1 : toEngine'[i].reqs \cap toEngine'[j].reqs = {}
    OBVIOUS
  <2>1. toEngine'[j] = toEngine[j + 1] /\ j + 1 \in DOMAIN toEngine
        /\ j \in Nat /\ 1 \in 1 .. (j + 1) - 1
    <3>1. j \in 1 .. Len(toEngine) - 1
      BY <1>4
    <3>2. j \in Nat /\ 1 \in 1 .. (j + 1) - 1
      BY <1>4, <3>1
    <3> QED BY <1>4, <3>2
  <2>2. toEngine[j + 1].reqs \subseteq Children
    <3>1. toEngine'[j] \in M
      <4>1. toEngine' \in Seq(M) /\ j \in 1 .. Len(toEngine')
        BY <1>4
      <4> HIDE DEF M
      <4> QED BY <4>1, ElementOfSeq
    <3> QED BY <2>1, <3>1
  <2>3. \A c \in toEngine[j + 1].reqs : Old(c)
    BY <2>1 DEF FrontInv, Mail
  <2>4. toEngine[j + 1].kind = "add" =>
          /\ \E c \in Children : toEngine[j + 1].reqs = {c}
          /\ toEngine[j + 1].reqs \cap live = {}
          /\ \A i \in 1 .. (j + 1) - 1 : toEngine[i].reqs \cap toEngine[j + 1].reqs = {}
    BY <2>1 DEF FrontInv, Mail
  <2>5. ASSUME NEW i \in 1 .. j - 1
        PROVE  toEngine'[i] = toEngine[i + 1] /\ i + 1 \in 1 .. (j + 1) - 1
    <3>1. i \in DOMAIN toEngine'
      BY <1>4
    <3> QED BY <1>4, <2>1, <3>1
  <2>6. toEngine'[j].kind = "add" => toEngine'[j].reqs \cap live' = {}
    BY <1>1, <1>4, <2>1, <2>4
  <2> QED BY <1>3, <2>1, <2>2, <2>3, <2>4, <2>5, <2>6
<1>11. Mail'
  <2>1. \A c \in live' : Old(c)'
    BY <1>1, <1>3, <1>4, <1>6 DEF FrontInv, Mail
  <2>2. \A c \in handler'.abort : Old(c)'
    BY <1>2, <1>3 DEF FrontInv, Mail, Typed
  <2>3. ASSUME NEW o \in Coming'
        PROVE  Old(o.req)' /\ (o.finished => o.req \notin live' \cup Sent("add")')
    <3>1. Old(o.req) /\ (o.finished => o.req \notin live \cup Sent("add"))
      BY <1>9 DEF FrontInv, Mail
    <3>2. Old(o.req)'
      BY <1>2, <3>1 DEF Old, view
    <3>3. live' \cup Sent("add")' \subseteq live \cup Sent("add")
      BY <1>1, <1>9
    <3> QED BY <3>1, <3>2, <3>3
  <2> QED BY <1>10, <2>1, <2>2, <2>3 DEF Mail
<1>12. WorkIsWanted'
  <2>1. CASE engineDead \/ Dead \in Range(outputs)
    BY <1>2, <2>1 DEF WorkIsWanted
  <2>2. CASE live \cup Sent("add") \subseteq states \cup handler.abort \cup Sent("abort")
    <3>1. CASE msg.kind = "add"
      <4>1. Sent("abort")' = Sent("abort") /\ live' \cup Sent("add")' = live \cup Sent("add")
        BY <1>1, <1>9, <3>1
      <4> QED BY <1>2, <2>2, <4>1 DEF WorkIsWanted
    <3>2. CASE msg.kind = "abort"
      <4>1. \A c \in Sent("add")' : c \notin msg.reqs
        <5>1. \A c \in Sent("add")' : \E j \in DOMAIN toEngine' :
                toEngine'[j].kind = "add" /\ c \in toEngine'[j].reqs
          BY DEF Sent
        <5>2. \A j \in DOMAIN toEngine' : toEngine'[j].kind = "add" =>
                toEngine[1].reqs \cap toEngine'[j].reqs = {}
          <6>1. \A j \in DOMAIN toEngine : toEngine[j].kind = "add" =>
                  \A i \in 1 .. j - 1 : toEngine[i].reqs \cap toEngine[j].reqs = {}
            BY DEF FrontInv, Mail
          <6>2. \A j \in DOMAIN toEngine' : 1 \in 1 .. (j + 1) - 1
            BY <1>4
          <6> QED BY <1>4, <6>1, <6>2
        <5> QED BY <1>4, <5>1, <5>2
      <4>2. /\ Sent("add")' = Sent("add") /\ Sent("abort") = msg.reqs \cup Sent("abort")'
            /\ live' = live \ msg.reqs
        BY <1>1, <1>9, <3>2
      <4> QED BY <1>2, <2>2, <4>1, <4>2 DEF WorkIsWanted
    <3> QED BY <1>4, <3>1, <3>2
  <2> QED BY <2>1, <2>2 DEF FrontInv, WorkIsWanted
<1> QED BY <1>3, <1>7, <1>8, <1>11, <1>12 DEF FrontInv

\* The outputs on the way, one batch after the other
LEMMA ComingIs ==
  ASSUME Typed
  PROVE  \A o : o \in Coming <=> \/ o \in Range(handler.todo)
                                 \/ \E os \in Range(outputs) : os # Dead /\ o \in Range(os)
BY DEF Coming

\* They are outputs of children.
LEMMA ComingTyped ==
  ASSUME Typed
  PROVE  \A o \in Coming : o.req \in Children /\ o.finished \in BOOLEAN
<1> DEFINE O == [req : Children, finished : BOOLEAN]
<1>1. handler.todo \in Seq(O) /\ outputs \in Seq((Seq(O) \ {<< >>}) \cup {Dead})
  BY DEF Typed, EngineCoreOutputs
<1>2. \A os \in Range(outputs) : os # Dead => os \in Seq(O)
  <2> HIDE DEF O
  <2> QED BY <1>1 DEF Range
<1>3. \A os \in Seq(O) : Range(os) \subseteq O
  <2> HIDE DEF O
  <2> QED BY ElementOfSeq DEF Range
<1> HIDE DEF O
<1>4. \A o \in Coming : o \in O
  BY <1>1, <1>2, <1>3, ComingIs
<1> QED BY <1>4 DEF O

\* Messages to the engine are about children.
LEMMA MessagesTyped ==
  ASSUME Typed
  PROVE  \A j \in DOMAIN toEngine : toEngine[j] \in [kind : {"add", "abort"}, reqs : SUBSET Children]
<1> DEFINE M == [kind : {"add", "abort"}, reqs : SUBSET Children]
<1>1. toEngine \in Seq(M)
  BY DEF Typed
<1> HIDE DEF M
<1>2. \A j \in DOMAIN toEngine : toEngine[j] \in M
  BY <1>1, ElementOfSeq
<1> QED BY <1>2 DEF M

\* What the mail is about stays old news.
LEMMA MailSame ==
  ASSUME Mail, Typed, toEngine' = toEngine, live' \subseteq live,
         \A c \in Children : Old(c) => Old(c)',
         \A c \in handler'.abort : Old(c)',
         \A o \in Coming' : Old(o.req)' /\ (o.finished => o.req \notin live' \cup Sent("add"))
  PROVE  Mail'
<1>1. Sent("add")' = Sent("add")
  BY DEF Sent
<1>2. \A j \in DOMAIN toEngine : toEngine[j].reqs \subseteq Children
  BY MessagesTyped
<1>3. \A j \in DOMAIN toEngine' :
        /\ \A c \in toEngine'[j].reqs : Old(c)'
        /\ toEngine'[j].kind = "add" =>
             /\ \E c \in Children : toEngine'[j].reqs = {c}
             /\ toEngine'[j].reqs \cap live' = {}
             /\ \A i \in 1 .. j - 1 : toEngine'[i].reqs \cap toEngine'[j].reqs = {}
  BY <1>2 DEF Mail
<1>4. \A c \in live' : Old(c)'
  BY DEF Mail, Typed
<1> QED BY <1>1, <1>3, <1>4 DEF Mail

\* A step of the engine
LEMMA EngineStepKeeps ==
  ASSUME FrontInv, EngineStep
  PROVE  FrontInv' /\ Ending' = Ending
<1>1. PICK batch \in (SUBSET live) \ {{}} : \E fin \in SUBSET batch :
        /\ live' = live \ fin
        /\ outputs' = Append(outputs, SetToSeq({[req |-> c, finished |-> c \in fin] : c \in batch}))
  BY DEF EngineStep
<1>0. PICK fin \in SUBSET batch :
        /\ live' = live \ fin
        /\ outputs' = Append(outputs, SetToSeq({[req |-> c, finished |-> c \in fin] : c \in batch}))
  BY <1>1
<1> DEFINE O == {[req |-> c, finished |-> c \in fin] : c \in batch}
           os == SetToSeq(O)
<1>2. /\ UNCHANGED view
      /\ UNCHANGED <<output, ready, states, handler, engineDead, toEngine, parents, childRequests>>
  BY DEF EngineStep, view, tasks, processor
<1>3. ViewInv' /\ Ending' = Ending /\ \A c \in Children : Old(c)' = Old(c)
  BY <1>2, ViewSame DEF FrontInv
<1>4. live \subseteq Children /\ IsFiniteSet(live) /\ batch \subseteq Children /\ batch # {}
  <2>1. live \subseteq Children /\ IsFiniteSet(live)
    BY DEF FrontInv, Typed
  <2> QED BY <2>1
<1>5. IsFiniteSet(O) /\ O # {} /\ O \subseteq [req : Children, finished : BOOLEAN]
  <2> DEFINE f == [c \in batch |-> [req |-> c, finished |-> c \in fin]]
  <2>1. f \in Surjection(batch, O)
    BY DEF Surjection
  <2>2. IsFiniteSet(batch)
    BY <1>4, FS_Subset
  <2> HIDE DEF f, O
  <2>3. IsFiniteSet(O)
    BY <2>1, <2>2, FS_Surjection
  <2>4. \A c \in batch : [req |-> c, finished |-> c \in fin] \in [req : Children, finished : BOOLEAN]
    BY <1>4
  <2>5. O \subseteq [req : Children, finished : BOOLEAN]
    BY <2>4 DEF O
  <2>6. O # {}
    BY <1>4 DEF O
  <2> QED BY <2>3, <2>5, <2>6
<1>6. os \in Seq(O) /\ Range(os) = O
  BY <1>5, SetToSeqFacts
<1>7. os \in EngineCoreOutputs \ {<< >>} /\ os # Dead
  <2> HIDE DEF os, O
  <2>1. os \in EngineCoreOutputs
    <3> DEFINE R == [req : Children, finished : BOOLEAN]
    <3>1. os \in Seq(O) /\ O \subseteq R
      BY <1>5, <1>6
    <3> HIDE DEF R
    <3>2. os \in Seq(R)
      BY <3>1
    <3> QED BY <3>2 DEF EngineCoreOutputs, R
  <2>2. os # << >>
    BY <1>5, <1>6 DEF Range
  <2> QED BY <2>1, <2>2, SlotKinds
<1>8. /\ outputs' \in Seq((EngineCoreOutputs \ {<< >>}) \cup {Dead})
      /\ Range(outputs') = Range(outputs) \cup {os}
  <2>1. outputs \in Seq((EngineCoreOutputs \ {<< >>}) \cup {Dead}) /\ outputs' = Append(outputs, os)
    BY <1>0 DEF FrontInv, Typed
  <2> HIDE DEF os
  <2> QED BY <1>7, <2>1, QueueFacts
<1>9. live' \subseteq Children /\ IsFiniteSet(live')
  BY <1>0, <1>4, FS_Subset
<1>10. Typed'
  BY <1>2, <1>8, <1>9 DEF FrontInv, Typed, view, Indices, N
<1>11. OnlyDeathFails'
  BY <1>2 DEF FrontInv, OnlyDeathFails, view
<1>12. Mail'
  <2>1. ASSUME NEW o \in Coming'
        PROVE  Old(o.req)' /\ (o.finished => o.req \notin live' \cup Sent("add"))
    <3>1. o \in Coming \/ o \in O
      BY <1>2, <1>6, <1>8, <1>10, ComingIs DEF FrontInv, Coming
    <3>2. CASE o \in Coming
      <4>1. Old(o.req) /\ (o.finished => o.req \notin live \cup Sent("add"))
        BY <3>2 DEF FrontInv, Mail
      <4>2. Old(o.req)'
        BY <1>2, <4>1 DEF Old, view
      <4> QED BY <1>0, <4>1, <4>2
    <3>3. CASE o \in O
      <4>1. /\ o.req \in live /\ o.req \in Children /\ (o.finished => o.req \in fin)
        <5>1. PICK c \in batch : o = [req |-> c, finished |-> c \in fin]
          BY <3>3
        <5> QED BY <1>4, <5>1
      <4>2. o.req \notin Sent("add")
        <5>1. \A j \in DOMAIN toEngine : toEngine[j].kind = "add" => toEngine[j].reqs \cap live = {}
          BY DEF FrontInv, Mail
        <5> QED BY <4>1, <5>1 DEF Sent
      <4>3. Old(o.req)'
        BY <1>3, <4>1 DEF FrontInv, Mail
      <4> QED BY <1>0, <4>1, <4>2, <4>3
    <3> QED BY <3>1, <3>2, <3>3
  <2>2. \A c \in handler'.abort : Old(c)'
    BY <1>2, <1>3 DEF FrontInv, Mail, Typed
  <2> QED BY <1>0, <1>2, <1>3, <2>1, <2>2, MailSame DEF FrontInv
<1>13. WorkIsWanted'
  <2>1. Sent("add")' = Sent("add") /\ Sent("abort")' = Sent("abort")
    BY <1>2 DEF Sent
  <2> QED BY <1>0, <1>2, <1>8, <2>1 DEF FrontInv, WorkIsWanted
<1> QED BY <1>3, <1>10, <1>11, <1>12, <1>13 DEF FrontInv

\* The engine dies, and the socket's task sees it.
LEMMA DeathKeeps ==
  ASSUME FrontInv, EngineDies \/ SocketSeesDead
  PROVE  FrontInv' /\ Ending' = Ending
<1>1. /\ UNCHANGED view
      /\ UNCHANGED <<output, ready, states, handler, toEngine, parents, childRequests>>
  BY DEF EngineDies, SocketSeesDead, view, tasks, processor
<1>2. ViewInv' /\ Ending' = Ending /\ \A c \in Children : Old(c)' = Old(c)
  BY <1>1, ViewSame DEF FrontInv
<1>3. /\ outputs \in Seq((EngineCoreOutputs \ {<< >>}) \cup {Dead})
      /\ live \subseteq Children /\ IsFiniteSet(live)
  BY DEF FrontInv, Typed
<1>4. /\ outputs' \in Seq((EngineCoreOutputs \ {<< >>}) \cup {Dead})
      /\ Range(outputs') \ {Dead} = Range(outputs) \ {Dead} /\ Dead \in Range(outputs')
      /\ (engineDead => engineDead') /\ engineDead' \in BOOLEAN
  <2>1. CASE EngineDies
    <3>1. outputs' = Append(outputs, Dead) /\ engineDead' = engineDead
      BY <2>1 DEF EngineDies
    <3>2. outputs' \in Seq((EngineCoreOutputs \ {<< >>}) \cup {Dead})
      BY <1>3, <3>1, QueueFacts
    <3>3. Range(outputs') = Range(outputs) \cup {Dead}
      BY <1>3, <3>1, QueueFacts
    <3> QED BY <3>1, <3>2, <3>3 DEF FrontInv, Typed
  <2>2. CASE SocketSeesDead
    BY <1>3, <2>2 DEF SocketSeesDead
  <2> QED BY <2>1, <2>2
<1>5. live' \subseteq live /\ IsFiniteSet(live')
  BY <1>3, FS_EmptySet DEF EngineDies, SocketSeesDead, engine
<1>6. Typed'
  BY <1>1, <1>3, <1>4, <1>5 DEF FrontInv, Typed, view, Indices, N
<1>7. OnlyDeathFails'
  BY <1>1, <1>4 DEF FrontInv, OnlyDeathFails, view
<1>8. Mail'
  <2>1. Coming' = Coming
    BY <1>1, <1>4 DEF Coming
  <2>2. ASSUME NEW o \in Coming
        PROVE  Old(o.req)' /\ (o.finished => o.req \notin live' \cup Sent("add"))
    <3>1. Old(o.req) /\ (o.finished => o.req \notin live \cup Sent("add"))
      BY <2>2 DEF FrontInv, Mail
    <3>2. Old(o.req)'
      BY <1>1, <3>1 DEF Old, view
    <3> QED BY <1>5, <3>1, <3>2
  <2>3. \A c \in handler'.abort : Old(c)'
    BY <1>1, <1>2 DEF FrontInv, Mail, Typed
  <2> QED BY <1>1, <1>2, <1>5, <2>1, <2>2, <2>3, MailSame DEF FrontInv
<1>9. WorkIsWanted'
  BY <1>4 DEF WorkIsWanted
<1> QED BY <1>2, <1>6, <1>7, <1>8, <1>9 DEF FrontInv

\* An abort is sent, if there is something to abort and someone to hear it.
LEMMA AbortFacts ==
  ASSUME Typed, NEW reqs \in SUBSET Children, SendAbort(reqs)
  PROVE  /\ toEngine' \in Seq([kind : {"add", "abort"}, reqs : SUBSET Children])
         /\ Sent("add")' = Sent("add") /\ Sent("abort") \subseteq Sent("abort")'
         /\ engineDead \/ reqs \subseteq Sent("abort")'
         /\ \A j \in DOMAIN toEngine' : \/ j \in DOMAIN toEngine /\ toEngine'[j] = toEngine[j]
                                        \/ toEngine'[j].kind = "abort" /\ toEngine'[j].reqs = reqs
         /\ \A j \in DOMAIN toEngine : \A i \in 1 .. j - 1 : toEngine'[i] = toEngine[i]
<1> DEFINE M == [kind : {"add", "abort"}, reqs : SUBSET Children]
           msg == [kind |-> "abort", reqs |-> reqs]
<1>1. toEngine \in Seq(M) /\ msg \in M
  BY DEF Typed
<1>2. CASE reqs = {} \/ engineDead
  <2>1. toEngine' = toEngine
    BY <1>2 DEF SendAbort
  <2> QED BY <1>1, <1>2, <2>1 DEF Sent
<1>3. CASE ~(reqs = {} \/ engineDead)
  <2>1. toEngine' = Append(toEngine, msg)
    BY <1>3 DEF SendAbort
  <2>2. /\ toEngine' \in Seq(M) /\ Len(toEngine') = Len(toEngine) + 1
        /\ \A i \in 1 .. Len(toEngine) : toEngine'[i] = toEngine[i]
        /\ toEngine'[Len(toEngine) + 1] = msg
    <3> HIDE DEF M, msg
    <3> QED BY <1>1, <2>1, QueueFacts
  <2>3. /\ DOMAIN toEngine = 1 .. Len(toEngine) /\ Len(toEngine) \in Nat
        /\ DOMAIN toEngine' = 1 .. Len(toEngine) + 1
    BY <1>1, <2>2
  <2>4. \A j \in DOMAIN toEngine' : \/ j \in DOMAIN toEngine /\ toEngine'[j] = toEngine[j]
                                    \/ j = Len(toEngine) + 1 /\ toEngine'[j] = msg
    BY <2>2, <2>3
  <2>5. \A j \in DOMAIN toEngine : j \in DOMAIN toEngine' /\ toEngine'[j] = toEngine[j]
    BY <2>2, <2>3
  <2>6. Len(toEngine) + 1 \in DOMAIN toEngine'
    BY <2>3
  <2>7. \A j \in DOMAIN toEngine : \A i \in 1 .. j - 1 : toEngine'[i] = toEngine[i]
    BY <2>2, <2>3
  <2>8. /\ \A k, c : c \in Sent(k) <=> \E j \in DOMAIN toEngine : toEngine[j].kind = k /\ c \in toEngine[j].reqs
        /\ \A k, c : c \in Sent(k)' <=> \E j \in DOMAIN toEngine' : toEngine'[j].kind = k /\ c \in toEngine'[j].reqs
    BY DEF Sent
  <2>9. msg.kind = "abort" /\ msg.reqs = reqs
    OBVIOUS
  <2> HIDE DEF msg, M
  <2>10. Sent("add")' = Sent("add")
    <3>1. \A c \in Sent("add") : c \in Sent("add")'
      BY <2>5, <2>8
    <3>2. \A c \in Sent("add")' : c \in Sent("add")
      BY <2>4, <2>8, <2>9
    <3> QED BY <3>1, <3>2
  <2>11. Sent("abort") \subseteq Sent("abort")' /\ reqs \subseteq Sent("abort")'
    BY <2>2, <2>5, <2>6, <2>8, <2>9
  <2> QED BY <2>2, <2>4, <2>7, <2>9, <2>10, <2>11 DEF M
<1> QED BY <1>2, <1>3

\* Mail with one more abort, or none
LEMMA MailAborts ==
  ASSUME Mail, Typed, NEW reqs \in SUBSET Children, SendAbort(reqs), \A c \in reqs : Old(c)',
         live' \subseteq live,
         \A c \in Children : Old(c) => Old(c)',
         \A c \in handler'.abort : Old(c)',
         \A o \in Coming' : Old(o.req)' /\ (o.finished => o.req \notin live' \cup Sent("add"))
  PROVE  Mail'
<1>1. /\ Sent("add")' = Sent("add")
      /\ \A j \in DOMAIN toEngine' : \/ j \in DOMAIN toEngine /\ toEngine'[j] = toEngine[j]
                                     \/ toEngine'[j].kind = "abort" /\ toEngine'[j].reqs = reqs
      /\ \A j \in DOMAIN toEngine : \A i \in 1 .. j - 1 : toEngine'[i] = toEngine[i]
  BY AbortFacts
<1>2. \A j \in DOMAIN toEngine : toEngine[j].reqs \subseteq Children
  BY MessagesTyped
<1>3. ASSUME NEW j \in DOMAIN toEngine'
      PROVE  /\ \A c \in toEngine'[j].reqs : Old(c)'
             /\ toEngine'[j].kind = "add" =>
                  /\ \E c \in Children : toEngine'[j].reqs = {c}
                  /\ toEngine'[j].reqs \cap live' = {}
                  /\ \A i \in 1 .. j - 1 : toEngine'[i].reqs \cap toEngine'[j].reqs = {}
  <2>1. CASE j \in DOMAIN toEngine /\ toEngine'[j] = toEngine[j]
    BY <1>1, <1>2, <2>1 DEF Mail
  <2>2. CASE toEngine'[j].kind = "abort" /\ toEngine'[j].reqs = reqs
    BY <2>2
  <2> QED BY <1>1, <2>1, <2>2
<1>4. \A c \in live' : Old(c)'
  BY DEF Mail, Typed
<1> QED BY <1>1, <1>3, <1>4 DEF Mail

\* The handler gets a batch.
LEMMA GetsKeeps ==
  ASSUME FrontInv, HandlerGets
  PROVE  FrontInv' /\ Ending' = Ending
<1> DEFINE B == (EngineCoreOutputs \ {<< >>}) \cup {Dead}
<1>1. /\ outputs \in Seq(B) /\ outputs # << >> /\ Head(outputs) # Dead /\ outputs' = Tail(outputs)
      /\ handler' = [handler EXCEPT !.pc = "slice", !.todo = Head(outputs)]
      /\ handler \in [pc : {"get", "slice", "abort", "dead"}, todo : EngineCoreOutputs,
                      abort : SUBSET Children]
  BY DEF FrontInv, Typed, HandlerGets
<1>2. /\ UNCHANGED view
      /\ UNCHANGED <<output, ready, states, toEngine, live, engineDead, parents, childRequests>>
  BY DEF HandlerGets, view, tasks, processor, engine
<1>3. ViewInv' /\ Ending' = Ending /\ \A c \in Children : Old(c)' = Old(c)
  BY <1>2, ViewSame DEF FrontInv
<1>4. /\ Head(outputs) \in B /\ outputs' \in Seq(B)
      /\ Range(outputs) = {Head(outputs)} \cup Range(outputs')
  <2> HIDE DEF B
  <2> QED BY <1>1, QueueFacts
<1>5. Head(outputs) \in EngineCoreOutputs /\ Head(outputs) # << >>
  BY <1>1, <1>4
<1>6. /\ handler'.pc = "slice" /\ handler'.todo = Head(outputs) /\ handler'.abort = handler.abort
      /\ handler' \in [pc : {"get", "slice", "abort", "dead"}, todo : EngineCoreOutputs,
                       abort : SUBSET Children]
  BY <1>1, <1>5
<1>a. handler'.abort = {}
  BY <1>1, <1>6 DEF FrontInv, Typed, HandlerGets
<1>7. Typed'
  BY <1>a, <1>2, <1>4, <1>5, <1>6 DEF FrontInv, Typed, view, Indices, N
<1>8. OnlyDeathFails'
  BY <1>2, <1>6 DEF FrontInv, OnlyDeathFails, view
<1>9. Coming' \subseteq Coming
  <2>1. \A o : o \in Coming' => \/ o \in Range(handler'.todo)
                                \/ \E os \in Range(outputs') : os # Dead /\ o \in Range(os)
    BY DEF Coming
  <2>2. \A o : o \in Coming <=> \/ o \in Range(handler.todo)
                                \/ \E os \in Range(outputs) : os # Dead /\ o \in Range(os)
    BY ComingIs DEF FrontInv
  <2> QED BY <1>1, <1>4, <1>6, <2>1, <2>2
<1>10. Mail'
  <2>1. ASSUME NEW o \in Coming'
        PROVE  Old(o.req)' /\ (o.finished => o.req \notin live' \cup Sent("add"))
    <3>1. Old(o.req) /\ (o.finished => o.req \notin live \cup Sent("add"))
      BY <1>9 DEF FrontInv, Mail
    <3>2. Old(o.req)'
      BY <1>2, <3>1 DEF Old, view
    <3> QED BY <1>2, <3>1, <3>2
  <2>2. \A c \in handler'.abort : Old(c)'
    BY <1>3, <1>6 DEF FrontInv, Mail, Typed
  <2> QED BY <1>2, <1>3, <2>1, <2>2, MailSame DEF FrontInv
<1>11. WorkIsWanted'
  <2>1. Sent("add")' = Sent("add") /\ Sent("abort")' = Sent("abort")
    BY <1>2 DEF Sent
  <2> QED BY <1>1, <1>2, <1>4, <1>6, <2>1 DEF FrontInv, WorkIsWanted
<1> QED BY <1>3, <1>7, <1>8, <1>10, <1>11 DEF FrontInv

\* The handler sends the abort of a slice.
LEMMA AbortsKeeps ==
  ASSUME FrontInv, HandlerAborts
  PROVE  FrontInv' /\ Ending' = Ending
<1>1. /\ handler \in [pc : {"get", "slice", "abort", "dead"}, todo : EngineCoreOutputs,
                      abort : SUBSET Children]
      /\ handler.pc = "abort" /\ handler.todo # << >>
  BY DEF FrontInv, Typed, HandlerAborts
<1>2. /\ UNCHANGED view /\ SendAbort(handler.abort)
      /\ UNCHANGED <<output, ready, states, outputs, live, engineDead, parents, childRequests>>
      /\ handler' = [handler EXCEPT !.pc = "slice", !.abort = {}]
  BY DEF HandlerAborts, view, tasks, processor, engine
<1>3. ViewInv' /\ Ending' = Ending /\ \A c \in Children : Old(c)' = Old(c)
  BY <1>2, ViewSame DEF FrontInv
<1>4. /\ handler'.pc = "slice" /\ handler'.todo = handler.todo /\ handler'.abort = {}
      /\ handler' \in [pc : {"get", "slice", "abort", "dead"}, todo : EngineCoreOutputs,
                       abort : SUBSET Children]
  BY <1>1, <1>2
<1>5. /\ toEngine' \in Seq([kind : {"add", "abort"}, reqs : SUBSET Children])
      /\ Sent("add")' = Sent("add") /\ Sent("abort") \subseteq Sent("abort")'
      /\ engineDead \/ handler.abort \subseteq Sent("abort")'
  BY <1>1, <1>2, AbortFacts DEF FrontInv
<1>6. Typed'
  BY <1>1, <1>2, <1>4, <1>5 DEF FrontInv, Typed, view, Indices, N
<1>7. OnlyDeathFails'
  BY <1>2, <1>4 DEF FrontInv, OnlyDeathFails, view
<1>8. Coming' = Coming
  BY <1>2, <1>4 DEF Coming
<1>9. Mail'
  <2>1. ASSUME NEW o \in Coming'
        PROVE  Old(o.req)' /\ (o.finished => o.req \notin live' \cup Sent("add"))
    <3>1. Old(o.req) /\ (o.finished => o.req \notin live \cup Sent("add"))
      BY <1>8 DEF FrontInv, Mail
    <3>2. Old(o.req)'
      BY <1>2, <3>1 DEF Old, view
    <3> QED BY <1>2, <3>1, <3>2
  <2>2. \A c \in handler.abort : Old(c)'
    BY <1>1, <1>3 DEF FrontInv, Mail
  <2> QED BY <1>1, <1>2, <1>3, <1>4, <2>1, <2>2, MailAborts DEF FrontInv
<1>10. WorkIsWanted'
  BY <1>2, <1>4, <1>5 DEF FrontInv, WorkIsWanted
<1> QED BY <1>3, <1>6, <1>7, <1>9, <1>10 DEF FrontInv

\* The engine's death reaches those that are known.
LEMMA FailsKeeps ==
  ASSUME FrontInv, HandlerFails
  PROVE  FrontInv' /\ (Ending => Ending')
<1> DEFINE B == (EngineCoreOutputs \ {<< >>}) \cup {Dead}
<1>1. /\ outputs \in Seq(B) /\ outputs # << >> /\ outputs' = Tail(outputs) /\ engineDead
      /\ handler \in [pc : {"get", "slice", "abort", "dead"}, todo : EngineCoreOutputs,
                      abort : SUBSET Children]
      /\ output' = [p \in Reqs |-> IF p \in Told THEN Dead ELSE output[p]]
      /\ ready' = [p \in Reqs |-> p \in Told \/ ready[p]]
      /\ handler' = [handler EXCEPT !.pc = "dead"]
  BY DEF FrontInv, Typed, HandlerFails
<1>2. UNCHANGED <<param, gen, seen, states, parents, childRequests, aggregator, tokens,
                  toEngine, live, engineDead>>
  BY DEF HandlerFails, tasks, processor, engine
<1>3. /\ Head(outputs) \in B /\ outputs' \in Seq(B)
      /\ Range(outputs) = {Head(outputs)} \cup Range(outputs')
  <2> HIDE DEF B
  <2> QED BY <1>1, QueueFacts
<1>4. /\ handler'.pc = "dead" /\ handler'.todo = handler.todo /\ handler'.abort = handler.abort
      /\ handler' \in [pc : {"get", "slice", "abort", "dead"}, todo : EngineCoreOutputs,
                       abort : SUBSET Children]
  BY <1>1
<1>5. /\ output' \in [Reqs -> RequestOutputs \cup {None, Dead}] /\ ready' \in [Reqs -> BOOLEAN]
  BY <1>1 DEF FrontInv, Typed
<1>a. handler'.abort = {}
  BY <1>1, <1>4 DEF FrontInv, Typed, HandlerFails
<1>6. Typed'
  BY <1>a, <1>2, <1>3, <1>4, <1>5 DEF FrontInv, Typed, Indices, N
<1>7. OnlyDeathFails'
  BY <1>1, <1>2 DEF OnlyDeathFails
<1>8. /\ \A p : N(p)' = N(p) /\ Kind(p)' = Kind(p) /\ Indices(p)' = Indices(p) /\ Kids(p)' = Kids(p)
      /\ \A c : Old(c)' = Old(c)
  BY <1>2 DEF N, Kind, Indices, Kids, Old
<1>9. ASSUME NEW p \in Reqs
      PROVE  /\ \/ output'[p] = Dead /\ Kids(p) # {}
                \/ output'[p] = output[p] /\ Has(p)' = Has(p)
             /\ DOMAIN Has(p)' \subseteq DOMAIN Has(p)
  <2>1. CASE p \in Told
    <3>1. output'[p] = Dead /\ Kids(p) # {}
      BY <1>1, <2>1 DEF Told, Kids
    <3>2. Has(p)' = seen[p]
      BY <1>2, <3>1 DEF Has
    <3>3. DOMAIN seen[p] \subseteq DOMAIN Has(p)
      BY HasTyped DEF FrontInv, Has
    <3> QED BY <3>1, <3>2, <3>3
  <2>2. CASE p \notin Told
    <3>1. output'[p] = output[p]
      BY <1>1, <2>2
    <3> QED BY <1>2, <1>8, <3>1 DEF Has
  <2> QED BY <2>1, <2>2
<1>10. ViewInv'
  <2>1. Started' /\ Lists' /\ Aggregated'
    BY <1>2, <1>8 DEF FrontInv, ViewInv, Started, Lists, Aggregated
  <2>2. Fresh'
    BY <1>2, <1>8, <1>9, ChildIs DEF FrontInv, ViewInv, Fresh
  <2>3. Faithful'
    BY <1>2, <1>8, <1>9 DEF FrontInv, ViewInv, Faithful, FaithfulTo
  <2>4. LeavesItsLast'
    BY <1>2, <1>8, <1>9 DEF FrontInv, ViewInv, LeavesItsLast
  <2> QED BY <2>1, <2>2, <2>3, <2>4 DEF ViewInv
<1>11. Ending => Ending'
  <2> SUFFICES ASSUME Ending, NEW p \in Reqs
               PROVE  /\ output'[p] \notin {None, Dead} /\ output'[p].finished =>
                           /\ Kids(p) = {} /\ gen[p].pc \notin {"new", "adding"}
                           /\ gen[p].pc \notin {"failed", "cancelled"} => Whole(p)'
                      /\ gen[p].pc = "ended" => Kids(p) = {} /\ output'[p] = None /\ Whole(p)'
                      /\ gen[p].pc = "cancelled" => Kids(p) = {}
    BY <1>2, <1>8 DEF Ending
  <2>1. CASE output'[p] = output[p] /\ Has(p)' = Has(p)
    BY <1>8, <2>1 DEF Ending, Whole
  <2>2. CASE output'[p] = Dead /\ Kids(p) # {}
    BY <2>2 DEF Ending
  <2> QED BY <1>9, <2>1, <2>2
<1>12. Mail'
  <2>1. Coming' \subseteq Coming
    <3>1. \A o : o \in Coming' => \/ o \in Range(handler'.todo)
                                  \/ \E os \in Range(outputs') : os # Dead /\ o \in Range(os)
      BY DEF Coming
    <3>2. \A o : o \in Coming <=> \/ o \in Range(handler.todo)
                                  \/ \E os \in Range(outputs) : os # Dead /\ o \in Range(os)
      BY ComingIs DEF FrontInv
    <3> QED BY <1>3, <1>4, <3>1, <3>2
  <2>2. ASSUME NEW o \in Coming'
        PROVE  Old(o.req)' /\ (o.finished => o.req \notin live' \cup Sent("add"))
    <3>1. Old(o.req) /\ (o.finished => o.req \notin live \cup Sent("add"))
      BY <2>1 DEF FrontInv, Mail
    <3> QED BY <1>2, <1>8, <3>1
  <2>3. \A c \in handler'.abort : Old(c)'
    BY <1>4, <1>8 DEF FrontInv, Mail, Typed
  <2>4. live' \subseteq live
    BY <1>2
  <2>5. \A c \in Children : Old(c) => Old(c)'
    BY <1>8
  <2> QED BY <1>2, <2>2, <2>3, <2>4, <2>5, MailSame DEF FrontInv
<1>13. WorkIsWanted'
  BY <1>1, <1>2 DEF WorkIsWanted
<1> QED BY <1>6, <1>7, <1>10, <1>11, <1>12, <1>13 DEF FrontInv

-----------------------------------------------------------------------------
(* generate() *)

\* The steps of a generate() that leave its children alone
Moves == {<<"new", "adding">>, <<"new", "failed">>,
          <<"loop", "wait">>, <<"loop", "yield">>, <<"loop", "ended">>, <<"loop", "failed">>,
          <<"wait", "wait">>, <<"wait", "yield">>, <<"wait", "ended">>, <<"wait", "failed">>,
          <<"yield", "loop">>, <<"yield", "closed">>}

\* Such a step may take what lies in the slot; the caller has the same before and
\* after.
LEMMA MoveKeeps ==
  ASSUME FrontInv, NEW p \in Reqs, NEW pc, Turns(p, pc), <<gen[p].pc, pc>> \in Moves,
         pc = "failed" => engineDead,
         output' \in [Reqs -> RequestOutputs \cup {None, Dead}], ready' \in [Reqs -> BOOLEAN],
         seen' \in [Reqs -> ByIndex],
         \A q \in Reqs : Has(q)' = Has(q) /\ (q # p => output'[q] = output[q]),
         output'[p] = output[p] \/ (output'[p] = None /\ (output[p] = Dead => pc = "failed")),
         UNCHANGED <<param, processor, handler, engineDead, toEngine, outputs, engine>>
  PROVE  /\ FrontInv'
         /\ Ending /\ (pc = "ended" => /\ output[p] \notin {None, Dead} /\ output[p].finished
                                       /\ output'[p] = None)
              => Ending'
<1> DEFINE PCs == {"new", "adding", "loop", "wait", "yield", "ended", "closed", "cancelled", "failed"}
<1>1. /\ gen \in [Reqs -> [pc : PCs, next : Nat]] /\ gen' = [gen EXCEPT ![p].pc = pc]
      /\ pc \in PCs
  BY DEF FrontInv, Typed, Turns, Moves
<1>2. /\ gen' \in [Reqs -> [pc : PCs, next : Nat]]
      /\ gen'[p].pc = pc /\ \A q \in Reqs : gen'[q].next = gen[q].next
      /\ \A q \in Reqs : q # p => gen'[q] = gen[q]
  BY <1>1
<1>3. UNCHANGED <<param, states, parents, childRequests, aggregator, tokens, handler,
                  engineDead, toEngine, outputs, live>>
  BY DEF processor, engine
<1>4. Typed'
  BY <1>2, <1>3 DEF FrontInv, Typed, Indices, N
<1>5. gen[p].pc \in {"new", "loop", "wait", "yield"} /\ (pc = "adding" <=> gen[p].pc = "new" /\ pc # "failed")
  BY DEF Moves
<1>6. /\ \A q : N(q)' = N(q) /\ Kind(q)' = Kind(q) /\ Indices(q)' = Indices(q) /\ Kids(q)' = Kids(q)
      /\ \A c \in Children : Old(c) => Old(c)'
      /\ \A c \in Children : gen'[c[1]].pc # "failed" => Old(c)' = Old(c)
  <2>1. \A q : N(q)' = N(q) /\ Kind(q)' = Kind(q) /\ Indices(q)' = Indices(q) /\ Kids(q)' = Kids(q)
    BY <1>3 DEF N, Kind, Indices, Kids
  <2>2. ASSUME NEW c \in Children
        PROVE  (Old(c) => Old(c)') /\ (gen'[c[1]].pc # "failed" => Old(c)' = Old(c))
    <3>1. c[1] \in Reqs
      BY ChildIs
    <3>2. CASE c[1] = p
      BY <1>2, <1>5, <3>1, <3>2 DEF Old
    <3>3. CASE c[1] # p
      BY <1>2, <3>1, <3>3 DEF Old
    <3> QED BY <3>2, <3>3
  <2> QED BY <2>1, <2>2
<1>7. Started'
  <2> SUFFICES ASSUME NEW q \in Reqs
               PROVE  /\ gen'[q].next <= N(q)
                      /\ gen'[q].pc = "new" => gen'[q].next = 0
                      /\ gen'[q].pc = "adding" => gen'[q].next < N(q)
                      /\ gen'[q].pc \in {"loop", "wait", "yield", "ended", "closed"} =>
                           gen'[q].next = N(q)
    BY <1>6 DEF Started
  <2>1. CASE q # p
    BY <1>2, <2>1 DEF FrontInv, ViewInv, Started
  <2>2. CASE q = p
    <3>1. N(p) \in Nat \ {0}
      BY ParamsTyped DEF FrontInv
    <3>2. gen[p].pc = "new" \/ gen[p].next = N(p)
      BY <1>5 DEF FrontInv, ViewInv, Started
    <3>3. gen[p].pc = "new" => gen[p].next = 0 /\ pc \in {"adding", "failed"}
      BY DEF FrontInv, ViewInv, Started, Moves
    <3>4. pc # "new" /\ (pc = "adding" => gen[p].pc = "new")
      BY DEF Moves
    <3> QED BY <1>2, <2>2, <3>1, <3>2, <3>3, <3>4
  <2> QED BY <2>1, <2>2
<1>8. Lists'
  <2>1. ASSUME NEW q \in Reqs, gen'[q].pc \in {"new", "adding"}
        PROVE  gen[q].pc \in {"new", "adding"}
    BY <1>2, <1>5, <2>1 DEF Moves
  <2> QED BY <1>3, <1>6, <2>1 DEF FrontInv, ViewInv, Lists
<1>9. Fresh' /\ Aggregated'
  BY <1>3, <1>6, ChildIs DEF FrontInv, ViewInv, Fresh, Aggregated
<1>10. \A q \in Reqs : output'[q] # Dead /\ gen'[q].pc # "failed" =>
          output[q] # Dead /\ gen[q].pc # "failed" /\ (gen'[q].pc # "cancelled" => gen[q].pc # "cancelled")
  BY <1>2, <1>5
<1>11. Faithful'
  BY <1>3, <1>6, <1>10 DEF FrontInv, ViewInv, Faithful, FaithfulTo
<1>12. LeavesItsLast'
  <2> SUFFICES ASSUME NEW q \in Reqs, output'[q] # Dead, gen'[q].pc \notin {"failed", "cancelled"},
                      NEW i \in Indices(q), Old(<<q, i>>)', <<q, i>> \notin states
               PROVE  IF Kind(q) = "FINAL_ONLY" /\ N(q) > 1 THEN i \in DOMAIN aggregator[q]
                      ELSE i \in DOMAIN Has(q)' /\ Has(q)'[i].finished
    BY <1>3, <1>6 DEF LeavesItsLast
  <2>1. <<q, i>> \in Children /\ <<q, i>>[1] = q
    BY ParamsTyped DEF FrontInv
  <2>2. Old(<<q, i>>) /\ output[q] # Dead /\ gen[q].pc \notin {"failed", "cancelled"}
    BY <1>6, <1>10, <2>1
  <2> QED BY <2>2 DEF FrontInv, ViewInv, LeavesItsLast
<1>13. OnlyDeathFails'
  <2>1. ASSUME NEW q \in Reqs, output'[q] = Dead \/ gen'[q].pc = "failed"
        PROVE  engineDead
    BY <1>2, <2>1, SlotKinds DEF FrontInv, OnlyDeathFails
  <2> QED BY <1>3, <2>1 DEF FrontInv, OnlyDeathFails
<1>14. Coming' = Coming
  BY <1>3 DEF Coming
<1>15. Mail'
  <2>1. ASSUME NEW o \in Coming'
        PROVE  Old(o.req)' /\ (o.finished => o.req \notin live' \cup Sent("add"))
    <3>1. Old(o.req) /\ (o.finished => o.req \notin live \cup Sent("add"))
      BY <1>14 DEF FrontInv, Mail
    <3>2. o.req \in Children
      BY <1>14, ComingTyped DEF FrontInv
    <3> QED BY <1>3, <1>6, <3>1, <3>2
  <2>2. \A c \in handler'.abort : Old(c)'
    BY <1>3, <1>6 DEF FrontInv, Mail, Typed
  <2> QED BY <1>3, <1>6, <2>1, <2>2, MailSame DEF FrontInv
<1>16. WorkIsWanted'
  <2>1. Sent("add")' = Sent("add") /\ Sent("abort")' = Sent("abort")
    BY <1>3 DEF Sent
  <2> QED BY <1>3, <2>1 DEF FrontInv, WorkIsWanted
<1>17. ASSUME Ending, pc = "ended" => /\ output[p] \notin {None, Dead} /\ output[p].finished
                                      /\ output'[p] = None
       PROVE  Ending'
  <2> SUFFICES ASSUME NEW q \in Reqs
               PROVE  /\ output'[q] \notin {None, Dead} /\ output'[q].finished =>
                           /\ Kids(q) = {} /\ gen'[q].pc \notin {"new", "adding"}
                           /\ gen'[q].pc \notin {"failed", "cancelled"} => Whole(q)'
                      /\ gen'[q].pc = "ended" => Kids(q) = {} /\ output'[q] = None /\ Whole(q)'
                      /\ gen'[q].pc = "cancelled" => Kids(q) = {}
    BY <1>6 DEF Ending
  <2>1. Whole(q)' = Whole(q)
    BY <1>6 DEF Whole
  <2>2. CASE q # p
    BY <1>2, <1>17, <2>1, <2>2 DEF Ending
  <2>3. CASE q = p
    <3>1. output'[p] \notin {None, Dead} => output'[p] = output[p]
      OBVIOUS
    <3>2. output[p] \notin {None, Dead} /\ output[p].finished =>
            /\ Kids(p) = {} /\ gen[p].pc \notin {"new", "adding"} /\ Whole(p)
      BY <1>5, <1>17 DEF Ending
    <3>3. pc # "cancelled" /\ pc # "new" /\ (pc = "adding" => gen[p].pc = "new")
      BY DEF Moves
    <3> QED BY <1>2, <1>17, <2>1, <2>3, <3>1, <3>2, <3>3
  <2> QED BY <2>2, <2>3
<1> QED BY <1>4, <1>7, <1>8, <1>9, <1>11, <1>12, <1>13, <1>15, <1>16, <1>17 DEF FrontInv, ViewInv

\* What the caller gets is what lay in the slot.
LEMMA TakeKeeps ==
  ASSUME FrontInv, NEW p \in Reqs, Take(p), output[p] # None, gen[p].pc \in {"loop", "wait"},
         UNCHANGED <<param, processor, handler, engineDead, toEngine, outputs, engine>>
  PROVE  FrontInv' /\ (Ending => Ending')
<1>1. /\ output' = [output EXCEPT ![p] = None] /\ ready' = [ready EXCEPT ![p] = FALSE]
      /\ output \in [Reqs -> RequestOutputs \cup {None, Dead}] /\ ready \in [Reqs -> BOOLEAN]
      /\ seen \in [Reqs -> ByIndex]
  BY DEF Take, FrontInv, Typed
<1>2. /\ output' \in [Reqs -> RequestOutputs \cup {None, Dead}] /\ ready' \in [Reqs -> BOOLEAN]
      /\ output'[p] = None /\ \A q \in Reqs : q # p => output'[q] = output[q]
  BY <1>1
<1>3. \A q : Kind(q)' = Kind(q)
  BY DEF Kind
<1>4. CASE output[p] = Dead
  <2>1. Turns(p, "failed") /\ seen' = seen
    BY <1>4 DEF Take
  <2>2. \A q \in Reqs : Has(q)' = Has(q)
    <3> SUFFICES ASSUME NEW q \in Reqs PROVE Has(q)' = Has(q)
      OBVIOUS
    <3>1. CASE q = p
      BY <1>2, <1>4, <2>1, <3>1 DEF Has
    <3>2. CASE q # p
      BY <1>2, <1>3, <2>1, <3>2 DEF Has
    <3> QED BY <3>1, <3>2
  <2>3. engineDead
    BY <1>4 DEF FrontInv, OnlyDeathFails
  <2>4. <<gen[p].pc, "failed">> \in Moves
    BY DEF Moves
  <2>5. seen' \in [Reqs -> ByIndex]
    BY <1>1, <2>1
  <2> QED BY <1>2, <2>1, <2>2, <2>3, <2>4, <2>5, MoveKeeps
<1>5. CASE output[p] # Dead
  <2> DEFINE pc == IF output[p].finished THEN "ended" ELSE "yield"
  <2>1. Turns(p, pc) /\ seen' = [seen EXCEPT ![p] = SeenAfter(p, output[p])]
    BY <1>5 DEF Take
  <2>2. SeenAfter(p, output[p]) = Has(p)
    BY <1>5 DEF SeenAfter, Has, After, Joined
  <2>3. Has(p) \in ByIndex
    BY HasTyped DEF FrontInv
  <2>4. /\ seen' \in [Reqs -> ByIndex] /\ seen'[p] = Has(p)
        /\ \A q \in Reqs : q # p => seen'[q] = seen[q]
    BY <1>1, <2>1, <2>2, <2>3
  <2>5. \A q \in Reqs : Has(q)' = Has(q)
    <3> SUFFICES ASSUME NEW q \in Reqs PROVE Has(q)' = Has(q)
      OBVIOUS
    <3>1. CASE q = p
      <4>1. Has(p)' = seen'[p]
        BY <1>2 DEF Has
      <4> QED BY <2>4, <3>1, <4>1
    <3>2. CASE q # p
      BY <1>2, <1>3, <2>4, <3>2 DEF Has
    <3> QED BY <3>1, <3>2
  <2>6. <<gen[p].pc, pc>> \in Moves /\ pc # "failed" /\ (pc = "ended" => output[p].finished)
    BY DEF Moves
  <2> HIDE DEF pc
  <2> QED BY <1>2, <1>5, <2>1, <2>4, <2>5, <2>6, MoveKeeps
<1> QED BY <1>4, <1>5

\* A step of generate() that leaves the slot alone
LEMMA TurnsKeeps ==
  ASSUME FrontInv, NEW p \in Reqs, NEW pc, Turns(p, pc), <<gen[p].pc, pc>> \in Moves,
         pc # "ended", pc = "failed" => engineDead,
         UNCHANGED <<param, seen, output, ready, processor, handler, engineDead, toEngine,
                     outputs, engine>>
  PROVE  FrontInv' /\ (Ending => Ending')
<1>1. /\ output' \in [Reqs -> RequestOutputs \cup {None, Dead}] /\ ready' \in [Reqs -> BOOLEAN]
      /\ seen' \in [Reqs -> ByIndex] /\ output' = output
      /\ UNCHANGED <<param, processor, handler, engineDead, toEngine, outputs, engine>>
  BY DEF FrontInv, Typed
<1>2. \A q \in Reqs : Has(q)' = Has(q)
  BY DEF Has, Kind
<1> QED BY <1>1, <1>2, MoveKeeps

\* The steps of a generate() between outputs, and at them
LEMMA GenerateKeeps ==
  ASSUME FrontInv, NEW p \in Reqs,
         Generate(p) \/ GenerateGets(p) \/ GenerateWakes(p) \/ CallerResumes(p) \/ Close(p)
  PROVE  FrontInv' /\ (Ending => Ending')
<1>1. CASE Generate(p)
  <2> DEFINE pc == IF Errored THEN "failed" ELSE "adding"
  <2>1. /\ Turns(p, pc) /\ gen[p].pc = "new"
        /\ UNCHANGED <<param, seen, output, ready, processor, handler, engineDead, toEngine,
                       outputs, engine>>
    BY <1>1 DEF Generate
  <2>2. <<gen[p].pc, pc>> \in Moves /\ pc # "ended"
    BY <2>1 DEF Moves
  <2>3. pc = "failed" => engineDead
    BY DEF FrontInv, OnlyDeathFails, Errored
  <2> HIDE DEF pc
  <2> QED BY <2>1, <2>2, <2>3, TurnsKeeps
<1>2. CASE GenerateGets(p) \/ GenerateWakes(p)
  <2>1. /\ gen[p].pc \in {"loop", "wait"}
        /\ UNCHANGED <<param, processor, handler, engineDead, toEngine, outputs, engine>>
    BY <1>2 DEF GenerateGets, GenerateWakes
  <2>2. CASE output[p] # None
    BY <1>2, <2>1, <2>2, TakeKeeps DEF GenerateGets, GenerateWakes
  <2>3. CASE output[p] = None
    <3>1. Turns(p, "wait") /\ UNCHANGED <<seen, output, ready>>
      BY <1>2, <2>3 DEF GenerateGets, GenerateWakes
    <3>2. <<gen[p].pc, "wait">> \in Moves
      BY <2>1 DEF Moves
    <3> QED BY <2>1, <3>1, <3>2, TurnsKeeps
  <2> QED BY <2>2, <2>3
<1>3. CASE CallerResumes(p)
  <2>1. /\ Turns(p, "loop") /\ <<gen[p].pc, "loop">> \in Moves
        /\ UNCHANGED <<param, seen, output, ready, processor, handler, engineDead, toEngine,
                       outputs, engine>>
    BY <1>3 DEF CallerResumes, Moves
  <2> QED BY <2>1, TurnsKeeps
<1>4. CASE Close(p)
  <2>1. /\ Turns(p, "closed") /\ <<gen[p].pc, "closed">> \in Moves
        /\ UNCHANGED <<param, seen, output, ready, processor, handler, engineDead, toEngine,
                       outputs, engine>>
    BY <1>4 DEF Close, Moves
  <2> QED BY <2>1, TurnsKeeps
<1> QED BY <1>1, <1>2, <1>3, <1>4

\* An abort finds all children of a request.
LEMMA AbortedIsKids ==
  ASSUME FrontInv, NEW p \in Reqs
  PROVE  Aborted(p) = Kids(p)
<1>1. CASE N(p) = 1
  <2>1. \A c \in states : c = <<c[1], c[2]>> /\ c[2] \in Indices(c[1])
    BY ChildIs DEF FrontInv, Typed
  <2>2. Indices(p) = {0}
    BY <1>1 DEF Indices
  <2>3. <<p, 0>>[1] = p
    OBVIOUS
  <2>4. Kids(p) = states \cap {<<p, 0>>}
    BY <2>1, <2>2, <2>3 DEF Kids
  <2> QED BY <1>1, <2>4 DEF Aborted
<1>2. CASE N(p) # 1
  BY <1>2 DEF Aborted, FrontInv, ViewInv, Lists
<1> QED BY <1>1, <1>2

\* A cancelled generate() takes its children along.
LEMMA CancelKeeps ==
  ASSUME FrontInv, NEW p \in Reqs, Cancel(p)
  PROVE  FrontInv' /\ (Ending => Ending')
<1> DEFINE PCs == {"new", "adding", "loop", "wait", "yield", "ended", "closed", "cancelled", "failed"}
<1>1. /\ gen \in [Reqs -> [pc : PCs, next : Nat]] /\ gen' = [gen EXCEPT ![p].pc = "cancelled"]
      /\ gen[p].pc \in {"adding", "wait"}
      /\ parents' = parents \ {p} /\ states' = states \ Kids(p) /\ SendAbort(Kids(p))
  BY AbortedIsKids DEF FrontInv, Typed, Cancel, Turns, Abort
<1>2. /\ gen' \in [Reqs -> [pc : PCs, next : Nat]]
      /\ gen'[p].pc = "cancelled" /\ \A q \in Reqs : gen'[q].next = gen[q].next
      /\ \A q \in Reqs : q # p => gen'[q] = gen[q]
  BY <1>1
<1>3. UNCHANGED <<param, seen, output, ready, childRequests, aggregator, tokens, handler,
                  engineDead, outputs, live>>
  BY DEF Cancel, Abort, engine
<1>4. /\ Kids(p) \subseteq Children /\ \A c \in states : c \in Children /\ c[1] \in Reqs
      /\ \A c \in Kids(p) : c[1] = p
  BY ChildIs DEF FrontInv, Typed, Kids
<1>5. /\ \A q : N(q)' = N(q) /\ Kind(q)' = Kind(q) /\ Indices(q)' = Indices(q) /\ Has(q)' = Has(q)
      /\ Kids(p)' = {} /\ \A q \in Reqs : q # p => Kids(q)' = Kids(q)
      /\ \A c \in Children : Old(c)' = Old(c)
  <2>1. \A q : N(q)' = N(q) /\ Kind(q)' = Kind(q) /\ Indices(q)' = Indices(q) /\ Has(q)' = Has(q)
    BY <1>3 DEF N, Kind, Indices, Has
  <2>2. Kids(p)' = {} /\ \A q \in Reqs : q # p => Kids(q)' = Kids(q)
    BY <1>1, <1>4 DEF Kids
  <2>3. ASSUME NEW c \in Children PROVE Old(c)' = Old(c)
    BY <1>1, <1>2, ChildIs DEF Old
  <2> QED BY <2>1, <2>2, <2>3
<1>6. /\ toEngine' \in Seq([kind : {"add", "abort"}, reqs : SUBSET Children])
      /\ Sent("add")' = Sent("add") /\ Sent("abort") \subseteq Sent("abort")'
      /\ engineDead \/ Kids(p) \subseteq Sent("abort")'
  BY <1>1, <1>4, AbortFacts DEF FrontInv
<1>7. Typed'
  BY <1>1, <1>2, <1>3, <1>5, <1>6 DEF FrontInv, Typed
<1>8. Started'
  BY <1>2, <1>5 DEF FrontInv, ViewInv, Started
<1>9. Lists'
  <2> SUFFICES ASSUME NEW q \in Reqs
               PROVE  IF N(q) = 1 THEN q \notin parents' /\ childRequests[q] = {}
                      ELSE IF q \in parents' THEN childRequests[q] = Kids(q)' /\ Kids(q)' # {}
                      ELSE /\ Kids(q)' = {}
                           /\ gen'[q].pc \in {"new", "adding"} => childRequests[q] = {}
    BY <1>3, <1>5 DEF Lists
  <2>1. CASE q = p
    BY <1>1, <1>2, <1>5, <2>1 DEF FrontInv, ViewInv, Lists
  <2>2. CASE q # p
    BY <1>1, <1>2, <1>5, <2>2 DEF FrontInv, ViewInv, Lists
  <2> QED BY <2>1, <2>2
<1>10. Fresh' /\ Aggregated'
  BY <1>1, <1>3, <1>5, ChildIs DEF FrontInv, ViewInv, Fresh, Aggregated
<1>11. Faithful'
  <2>1. \A q \in Reqs : output'[q] # Dead /\ gen'[q].pc # "failed" =>
          output[q] # Dead /\ gen[q].pc # "failed"
    BY <1>1, <1>2, <1>3
  <2> QED BY <1>1, <1>3, <1>5, <2>1 DEF FrontInv, ViewInv, Faithful, FaithfulTo
<1>12. LeavesItsLast'
  <2> SUFFICES ASSUME NEW q \in Reqs, output[q] # Dead, gen'[q].pc \notin {"failed", "cancelled"},
                      NEW i \in Indices(q), Old(<<q, i>>)', <<q, i>> \notin states'
               PROVE  IF Kind(q) = "FINAL_ONLY" /\ N(q) > 1 THEN i \in DOMAIN aggregator[q]
                      ELSE i \in DOMAIN Has(q) /\ Has(q)[i].finished
    BY <1>3, <1>5 DEF LeavesItsLast
  <2>1. <<q, i>> \in Children /\ <<q, i>>[1] = q /\ q # p /\ gen'[q] = gen[q]
    BY <1>2, ParamsTyped DEF FrontInv
  <2>2. Old(<<q, i>>) /\ <<q, i>> \notin states
    BY <1>1, <1>4, <1>5, <2>1
  <2> QED BY <2>1, <2>2 DEF FrontInv, ViewInv, LeavesItsLast
<1>13. OnlyDeathFails'
  BY <1>2, <1>3 DEF FrontInv, OnlyDeathFails
<1>14. Coming' = Coming
  BY <1>3 DEF Coming
<1>15. Mail'
  <2>1. ASSUME NEW o \in Coming'
        PROVE  Old(o.req)' /\ (o.finished => o.req \notin live' \cup Sent("add"))
    <3>1. Old(o.req) /\ (o.finished => o.req \notin live \cup Sent("add"))
      BY <1>14 DEF FrontInv, Mail
    <3>2. o.req \in Children
      BY <1>14, ComingTyped DEF FrontInv
    <3> QED BY <1>3, <1>5, <3>1, <3>2
  <2>2. \A c \in handler'.abort : Old(c)'
    BY <1>3, <1>5 DEF FrontInv, Mail, Typed
  <2>3. \A c \in Kids(p) : Old(c)'
    BY <1>4, <1>5 DEF FrontInv, ViewInv, Fresh, Kids
  <2>4. Kids(p) \in SUBSET Children /\ SendAbort(Kids(p)) /\ live' \subseteq live /\ Mail /\ Typed
    BY <1>1, <1>3, <1>4 DEF FrontInv
  <2>5. \A c \in Children : Old(c) => Old(c)'
    BY <1>5
  <2> QED BY <2>1, <2>2, <2>3, <2>4, <2>5, MailAborts
<1>16. WorkIsWanted'
  BY <1>1, <1>3, <1>6 DEF FrontInv, WorkIsWanted
<1>17. ASSUME Ending PROVE Ending'
  <2> SUFFICES ASSUME NEW q \in Reqs
               PROVE  /\ output[q] \notin {None, Dead} /\ output[q].finished =>
                           /\ Kids(q)' = {} /\ gen'[q].pc \notin {"new", "adding"}
                           /\ gen'[q].pc \notin {"failed", "cancelled"} => Whole(q)
                      /\ gen'[q].pc = "ended" => Kids(q)' = {} /\ output[q] = None /\ Whole(q)
                      /\ gen'[q].pc = "cancelled" => Kids(q)' = {}
    <3>1. \A q : Whole(q)' = Whole(q)
      BY <1>5 DEF Whole
    <3> QED BY <1>3, <1>5, <3>1 DEF Ending
  <2>1. CASE q = p
    BY <1>2, <1>5, <2>1
  <2>2. CASE q # p
    BY <1>2, <1>5, <1>17, <2>2 DEF Ending
  <2> QED BY <2>1, <2>2
<1> QED BY <1>7, <1>8, <1>9, <1>10, <1>11, <1>12, <1>13, <1>15, <1>16, <1>17 DEF FrontInv, ViewInv

\* A child is added.
LEMMA AddChildKeeps ==
  ASSUME FrontInv, NEW p \in Reqs, AddChild(p)
  PROVE  FrontInv' /\ (Ending => Ending')
<1> DEFINE PCs == {"new", "adding", "loop", "wait", "yield", "ended", "closed", "cancelled", "failed"}
           M == [kind : {"add", "abort"}, reqs : SUBSET Children]
           last == gen[p].next = N(p) - 1
<1>0. /\ N(p) \in Nat \ {0} /\ gen[p].next \in Indices(p) /\ gen[p].next \in Nat
      /\ gen[p].next < N(p) /\ gen[p].pc = "adding"
  <2>1. N(p) \in Nat \ {0} /\ gen[p].next \in Nat /\ gen[p].next < N(p) /\ gen[p].pc = "adding"
    BY ParamsTyped DEF FrontInv, Typed, ViewInv, Started, AddChild
  <2> QED BY <2>1 DEF Indices
<1> PICK c \in Children : c = <<p, gen[p].next>>
  BY <1>0, ParamsTyped DEF FrontInv
<1> DEFINE msg == [kind |-> "add", reqs |-> {c}]
<1>1. /\ gen \in [Reqs -> [pc : PCs, next : Nat]] /\ gen[p].pc = "adding"
      /\ states' = states \cup {c}
      /\ IF N(p) = 1 THEN UNCHANGED <<parents, childRequests>>
         ELSE /\ parents' = parents \cup {p}
              /\ childRequests' = [childRequests EXCEPT ![p] = @ \cup {c}]
      /\ IF engineDead
         THEN toEngine' = toEngine /\ gen' = [gen EXCEPT ![p].pc = "failed"]
         ELSE /\ toEngine' = Append(toEngine, msg)
              /\ gen' = [gen EXCEPT ![p] = [pc |-> IF last THEN "loop" ELSE "adding",
                                            next |-> @.next + 1]]
  BY DEF FrontInv, Typed, AddChild, Turns
<1>2. UNCHANGED <<param, seen, output, ready, aggregator, tokens, handler, engineDead, outputs, live>>
  BY DEF AddChild, engine
<1>3. c[1] = p /\ c[2] = gen[p].next /\ ~Old(c)
  BY <1>0 DEF Old
<1>4. /\ c \notin states /\ tokens[c] = 0
      /\ gen[p].next \notin DOMAIN Has(p) /\ gen[p].next \notin DOMAIN aggregator[p]
  BY <1>0, <1>3 DEF FrontInv, ViewInv, Fresh
<1>5. /\ gen' \in [Reqs -> [pc : PCs, next : Nat]]
      /\ \A q \in Reqs : q # p => gen'[q] = gen[q]
      /\ \/ engineDead /\ gen'[p].pc = "failed" /\ gen'[p].next = gen[p].next
         \/ /\ ~engineDead /\ gen'[p].next = gen[p].next + 1
            /\ gen'[p].pc = IF last THEN "loop" ELSE "adding"
  <2> DEFINE e == [pc |-> IF last THEN "loop" ELSE "adding", next |-> gen[p].next + 1]
  <2>1. /\ gen[p].next \in Nat /\ gen[p].pc \in PCs /\ e \in [pc : PCs, next : Nat]
        /\ e.pc = (IF last THEN "loop" ELSE "adding") /\ e.next = gen[p].next + 1
    BY <1>1
  <2>2. CASE engineDead
    BY <2>1, <2>2, <1>1
  <2>3. CASE ~engineDead
    <3>1. gen' = [gen EXCEPT ![p] = e]
      BY <2>3, <1>1
    <3> HIDE DEF e
    <3> QED BY <2>1, <2>3, <3>1, <1>1
  <2> QED BY <2>2, <2>3
<1>6. /\ \A q : N(q)' = N(q) /\ Kind(q)' = Kind(q) /\ Indices(q)' = Indices(q) /\ Has(q)' = Has(q)
      /\ Kids(p)' = Kids(p) \cup {c} /\ \A q \in Reqs : q # p => Kids(q)' = Kids(q)
  <2>1. \A q : N(q)' = N(q) /\ Kind(q)' = Kind(q) /\ Indices(q)' = Indices(q) /\ Has(q)' = Has(q)
    BY <1>2 DEF N, Kind, Indices, Has
  <2>2. Kids(p)' = Kids(p) \cup {c} /\ \A q \in Reqs : q # p => Kids(q)' = Kids(q)
    <3> QED BY <1>0, <1>1, <1>3 DEF Kids
  <2> QED BY <2>1, <2>2
<1>7. /\ Old(c)' /\ \A d \in Children : Old(d) => Old(d)'
      /\ \A d \in Children : Old(d)' /\ gen'[d[1]].pc # "failed" => Old(d) \/ d = c
  <2>1. Old(c)'
    BY <1>0, <1>3, <1>5 DEF Old
  <2>2. ASSUME NEW d \in Children
        PROVE  (Old(d) => Old(d)') /\ (Old(d)' /\ gen'[d[1]].pc # "failed" => Old(d) \/ d = c)
    <3>1. d[1] \in Reqs /\ d = <<d[1], d[2]>> /\ d[2] \in Nat
      BY ChildIs
    <3>2. CASE d[1] = p
      <4>1. Old(d) <=> d[2] < gen[p].next
        BY <1>1, <3>2 DEF Old
      <4>2. Old(d)' <=> d[2] < gen'[p].next \/ gen'[p].pc = "failed"
        BY <3>2 DEF Old
      <4>3. d[2] = gen[p].next => d = c
        BY <3>1, <3>2
      <4> QED BY <1>0, <1>3, <1>5, <3>1, <3>2, <4>1, <4>2, <4>3
    <3>3. CASE d[1] # p
      BY <1>5, <3>1, <3>3 DEF Old
    <3> QED BY <3>2, <3>3
  <2> QED BY <2>1, <2>2
<1>8. /\ toEngine' \in Seq(M) /\ Sent("abort")' = Sent("abort")
      /\ Sent("add") \subseteq Sent("add")' /\ Sent("add")' \subseteq Sent("add") \cup {c}
      /\ \A j \in DOMAIN toEngine' :
           \/ /\ j \in DOMAIN toEngine /\ toEngine'[j] = toEngine[j]
              /\ \A i \in 1 .. j - 1 : toEngine'[i] = toEngine[i]
           \/ /\ toEngine'[j] = msg
              /\ \A i \in 1 .. j - 1 : i \in DOMAIN toEngine /\ toEngine'[i] = toEngine[i]
  <2>1. toEngine \in Seq(M) /\ msg \in M
    BY <1>0, <1>3 DEF FrontInv, Typed
  <2>2. CASE engineDead
    BY <1>1, <2>1, <2>2 DEF Sent
  <2>3. CASE ~engineDead
    <3>1. toEngine' = Append(toEngine, msg)
      BY <1>1, <2>3
    <3>2. msg.kind = "add" /\ msg.reqs = {c}
      OBVIOUS
    <3> HIDE DEF M, msg
    <3>3. /\ toEngine' \in Seq(M) /\ Len(toEngine') = Len(toEngine) + 1
          /\ \A i \in 1 .. Len(toEngine) : toEngine'[i] = toEngine[i]
          /\ toEngine'[Len(toEngine) + 1] = msg
      BY <2>1, <3>1, QueueFacts
    <3>4. /\ DOMAIN toEngine = 1 .. Len(toEngine) /\ Len(toEngine) \in Nat
          /\ DOMAIN toEngine' = 1 .. Len(toEngine) + 1
      BY <2>1, <3>3
    <3>5. ASSUME NEW j \in DOMAIN toEngine'
          PROVE  \/ /\ j \in DOMAIN toEngine /\ toEngine'[j] = toEngine[j]
                    /\ \A i \in 1 .. j - 1 : toEngine'[i] = toEngine[i]
                 \/ /\ toEngine'[j] = msg
                    /\ \A i \in 1 .. j - 1 : i \in DOMAIN toEngine /\ toEngine'[i] = toEngine[i]
      <4>1. \A i \in 1 .. j - 1 : i \in DOMAIN toEngine /\ toEngine'[i] = toEngine[i]
        BY <3>3, <3>4
      <4>2. (j \in DOMAIN toEngine /\ toEngine'[j] = toEngine[j]) \/ toEngine'[j] = msg
        BY <3>3, <3>4
      <4> QED BY <4>1, <4>2
    <3>6. /\ \A k, d : d \in Sent(k) <=> \E j \in DOMAIN toEngine : toEngine[j].kind = k /\ d \in toEngine[j].reqs
          /\ \A k, d : d \in Sent(k)' <=> \E j \in DOMAIN toEngine' : toEngine'[j].kind = k /\ d \in toEngine'[j].reqs
      BY DEF Sent
    <3>7. \A j \in DOMAIN toEngine : j \in DOMAIN toEngine' /\ toEngine'[j] = toEngine[j]
      BY <3>3, <3>4
    <3>8. Sent("add") \subseteq Sent("add")' /\ Sent("abort") \subseteq Sent("abort")'
      BY <3>6, <3>7
    <3>9. Sent("add")' \subseteq Sent("add") \cup {c} /\ Sent("abort")' \subseteq Sent("abort")
      BY <3>2, <3>5, <3>6
    <3> QED BY <3>3, <3>5, <3>8, <3>9
  <2> QED BY <2>2, <2>3
<1>9. /\ states' \subseteq Children /\ \A d \in states' : d[2] \in Indices(d[1])
      /\ parents' \subseteq Reqs /\ childRequests' \in [Reqs -> SUBSET Children]
  <2>1. /\ states \subseteq Children /\ \A d \in states : d[2] \in Indices(d[1])
        /\ parents \subseteq Reqs /\ childRequests \in [Reqs -> SUBSET Children]
    BY DEF FrontInv, Typed
  <2>2. states' = states \cup {c} /\ c \in Children /\ c[2] \in Indices(c[1])
    BY <1>0, <1>1, <1>3
  <2>3. parents' \subseteq Reqs /\ childRequests' \in [Reqs -> SUBSET Children]
    <3>1. childRequests[p] \cup {c} \in SUBSET Children
      BY <2>1
    <3>2. CASE N(p) = 1
      BY <1>1, <2>1, <3>2
    <3>3. CASE N(p) # 1
      <4>1. parents' = parents \cup {p} /\ childRequests' = [childRequests EXCEPT ![p] = @ \cup {c}]
        BY <1>1, <3>3
      <4> QED BY <2>1, <3>1, <4>1
    <3> QED BY <3>2, <3>3
  <2> QED BY <2>1, <2>2, <2>3
<1>10. Typed'
  BY <1>2, <1>5, <1>6, <1>8, <1>9 DEF FrontInv, Typed
<1>11. Started'
  <2> SUFFICES ASSUME NEW q \in Reqs
               PROVE  /\ gen'[q].next <= N(q)
                      /\ gen'[q].pc = "new" => gen'[q].next = 0
                      /\ gen'[q].pc = "adding" => gen'[q].next < N(q)
                      /\ gen'[q].pc \in {"loop", "wait", "yield", "ended", "closed"} =>
                           gen'[q].next = N(q)
    BY <1>6 DEF Started
  <2>1. CASE q # p
    BY <1>5, <2>1 DEF FrontInv, ViewInv, Started
  <2>2. CASE q = p
    BY <1>0, <1>3, <1>5, <2>2
  <2> QED BY <2>1, <2>2
<1>12. Lists'
  <2> SUFFICES ASSUME NEW q \in Reqs
               PROVE  IF N(q) = 1 THEN q \notin parents' /\ childRequests'[q] = {}
                      ELSE IF q \in parents' THEN childRequests'[q] = Kids(q)' /\ Kids(q)' # {}
                      ELSE /\ Kids(q)' = {}
                           /\ gen'[q].pc \in {"new", "adding"} => childRequests'[q] = {}
    BY <1>6 DEF Lists
  <2>0. childRequests \in [Reqs -> SUBSET Children]
    BY DEF FrontInv, Typed
  <2>1. CASE q # p
    <3>1. childRequests'[q] = childRequests[q] /\ (q \in parents' <=> q \in parents)
      BY <1>1, <2>0, <2>1
    <3> QED BY <1>5, <1>6, <2>1, <3>1 DEF FrontInv, ViewInv, Lists
  <2>2. CASE q = p /\ N(p) = 1
    BY <1>1, <2>2 DEF FrontInv, ViewInv, Lists
  <2>3. CASE q = p /\ N(p) # 1
    <3>1. childRequests[p] = Kids(p)
      BY <1>1, <2>3 DEF FrontInv, ViewInv, Lists
    <3>2. childRequests'[p] = Kids(p) \cup {c} /\ p \in parents'
      BY <1>1, <2>0, <2>3, <3>1
    <3> QED BY <1>6, <2>3, <3>2
  <2> QED BY <2>1, <2>2, <2>3
<1>13. Fresh'
  <2> SUFFICES ASSUME NEW d \in Children, ~Old(d)'
               PROVE  /\ d \notin states' /\ tokens[d] = 0
                      /\ d[2] \notin DOMAIN Has(d[1]) /\ d[2] \notin DOMAIN aggregator[d[1]]
    BY <1>2, <1>6, ChildIs DEF Fresh
  <2>1. ~Old(d) /\ d # c
    BY <1>7
  <2> QED BY <1>1, <2>1 DEF FrontInv, ViewInv, Fresh
<1>14. Aggregated'
  <2> SUFFICES ASSUME NEW q \in Reqs, NEW i \in DOMAIN aggregator[q]
               PROVE  /\ aggregator[q][i] = [toks |-> Numbers(1, tokens[<<q, i>>]), finished |-> TRUE]
                      /\ <<q, i>> \notin states'
    BY <1>2 DEF Aggregated
  <2>1. <<q, i>> # c
    BY <1>4
  <2> QED BY <1>1, <2>1 DEF FrontInv, ViewInv, Aggregated
<1>15. Faithful'
  <2> SUFFICES ASSUME NEW q \in Reqs, output[q] # Dead, gen'[q].pc # "failed", NEW i \in Indices(q)
               PROVE  FaithfulTo(q, i)'
    BY <1>2, <1>6 DEF Faithful
  <2>1. gen[q].pc # "failed"
    BY <1>1, <1>5
  <2>2. FaithfulTo(q, i)
    BY <2>1 DEF FrontInv, ViewInv, Faithful
  <2>3. i \in DOMAIN Has(q) => <<q, i>> # c
    BY <1>4
  <2> QED BY <1>1, <1>2, <1>6, <2>2, <2>3 DEF FaithfulTo
<1>16. LeavesItsLast'
  <2> SUFFICES ASSUME NEW q \in Reqs, output[q] # Dead, gen'[q].pc \notin {"failed", "cancelled"},
                      NEW i \in Indices(q), Old(<<q, i>>)', <<q, i>> \notin states'
               PROVE  IF Kind(q) = "FINAL_ONLY" /\ N(q) > 1 THEN i \in DOMAIN aggregator[q]
                      ELSE i \in DOMAIN Has(q) /\ Has(q)[i].finished
    BY <1>2, <1>6 DEF LeavesItsLast
  <2>1. <<q, i>> \in Children /\ <<q, i>>[1] = q
    BY ParamsTyped DEF FrontInv
  <2>2. Old(<<q, i>>) /\ <<q, i>> \notin states /\ gen[q].pc \notin {"failed", "cancelled"}
    BY <1>1, <1>5, <1>7, <2>1
  <2> QED BY <2>2 DEF FrontInv, ViewInv, LeavesItsLast
<1>17. OnlyDeathFails'
  BY <1>2, <1>5 DEF FrontInv, OnlyDeathFails
<1>18. Coming' = Coming
  BY <1>2 DEF Coming
<1>19. Mail'
  <2>1. ASSUME NEW j \in DOMAIN toEngine'
        PROVE  /\ \A d \in toEngine'[j].reqs : Old(d)'
               /\ toEngine'[j].kind = "add" =>
                    /\ \E d \in Children : toEngine'[j].reqs = {d}
                    /\ toEngine'[j].reqs \cap live' = {}
                    /\ \A i \in 1 .. j - 1 : toEngine'[i].reqs \cap toEngine'[j].reqs = {}
    <3>1. CASE /\ j \in DOMAIN toEngine /\ toEngine'[j] = toEngine[j]
               /\ \A i \in 1 .. j - 1 : toEngine'[i] = toEngine[i]
      <4>1. toEngine[j].reqs \subseteq Children
        BY <3>1, MessagesTyped DEF FrontInv
      <4> QED BY <1>2, <1>7, <3>1, <4>1 DEF FrontInv, Mail
    <3>2. CASE /\ toEngine'[j] = msg
               /\ \A i \in 1 .. j - 1 : i \in DOMAIN toEngine /\ toEngine'[i] = toEngine[i]
      <4>1. toEngine'[j].reqs = {c}
        BY <3>2
      <4>2. c \notin live
        BY <1>0, <1>3 DEF FrontInv, Mail
      <4>3. \A i \in DOMAIN toEngine : c \notin toEngine[i].reqs
        BY <1>0, <1>3 DEF FrontInv, Mail
      <4> QED BY <1>2, <1>0, <1>3, <1>7, <3>2, <4>1, <4>2, <4>3
    <3> QED BY <1>8, <3>1, <3>2
  <2>2. ASSUME NEW o \in Coming'
        PROVE  Old(o.req)' /\ (o.finished => o.req \notin live' \cup Sent("add")')
    <3>1. Old(o.req) /\ (o.finished => o.req \notin live \cup Sent("add"))
      BY <1>18 DEF FrontInv, Mail
    <3>2. o.req \in Children
      BY <1>18, ComingTyped DEF FrontInv
    <3> QED BY <1>2, <1>0, <1>3, <1>7, <1>8, <3>1, <3>2
  <2>3. \A d \in live' \cup handler'.abort : Old(d)'
    BY <1>2, <1>7 DEF FrontInv, Mail, Typed
  <2> QED BY <2>1, <2>2, <2>3 DEF Mail
<1>20. WorkIsWanted'
  BY <1>1, <1>2, <1>8 DEF FrontInv, WorkIsWanted
<1>21. ASSUME Ending PROVE Ending'
  <2> SUFFICES ASSUME NEW q \in Reqs
               PROVE  /\ output[q] \notin {None, Dead} /\ output[q].finished =>
                           /\ Kids(q)' = {} /\ gen'[q].pc \notin {"new", "adding"}
                           /\ gen'[q].pc \notin {"failed", "cancelled"} => Whole(q)
                      /\ gen'[q].pc = "ended" => Kids(q)' = {} /\ output[q] = None /\ Whole(q)
                      /\ gen'[q].pc = "cancelled" => Kids(q)' = {}
    <3>1. \A q : Whole(q)' = Whole(q)
      BY <1>6 DEF Whole
    <3> QED BY <1>2, <3>1 DEF Ending
  <2>1. CASE q = p
    BY <1>1, <1>5, <1>21, <2>1 DEF Ending
  <2>2. CASE q # p
    BY <1>5, <1>6, <1>21, <2>2 DEF Ending
  <2> QED BY <2>1, <2>2
<1> QED BY <1>10, <1>11, <1>12, <1>13, <1>14, <1>15, <1>16, <1>17, <1>19, <1>20, <1>21
     DEF FrontInv, ViewInv

-----------------------------------------------------------------------------
(* The output handler *)

\* comps reach p: they join what lies in the slot, unless that is an error.
Gets(p, comps, finished) ==
  /\ output[p] = Dead => output'[p] = Dead /\ Has(p)' = Has(p)
  /\ output[p] # Dead =>
       /\ output'[p] \notin {None, Dead}
       /\ output'[p].finished => finished \/ (output[p] # None /\ output[p].finished)
       /\ Has(p)' = After(Kind(p), Has(p), comps)

Stays(p) == output'[p] = output[p] /\ Has(p)' = Has(p)

\* What a collector does with an output
LEMMA PutFacts ==
  ASSUME Typed, NEW p \in Reqs, NEW out \in RequestOutputs, Put(p, out), UNCHANGED <<param, seen>>
  PROVE  /\ output' \in [Reqs -> RequestOutputs \cup {None, Dead}] /\ ready' \in [Reqs -> BOOLEAN]
         /\ \A q \in Reqs : q # p => Stays(q)
         /\ Gets(p, out.comps, out.finished)
<1>1. /\ output \in [Reqs -> RequestOutputs \cup {None, Dead}] /\ ready \in [Reqs -> BOOLEAN]
      /\ seen \in [Reqs -> ByIndex]
  BY DEF Typed
<1>2. out # Dead /\ out # None /\ out.comps \in ByIndex /\ out.finished \in BOOLEAN
  BY SlotKinds DEF RequestOutputs
<1>3. /\ \A q : Kind(q)' = Kind(q)
      /\ \A q : output'[q] = output[q] => Stays(q)
  BY DEF Kind, Has, Stays
<1>4. CASE output[p] = None
  <2>1. output' = [output EXCEPT ![p] = out] /\ ready' = [ready EXCEPT ![p] = TRUE]
    BY <1>4 DEF Put
  <2>2. output'[p] = out /\ \A q \in Reqs : q # p => output'[q] = output[q]
    BY <1>1, <2>1
  <2>3. Has(p) = seen[p] /\ Has(p)' = After(Kind(p), seen[p], out.comps)
    BY <1>2, <1>3, <1>4, <2>2 DEF Has
  <2>4. None # Dead
    BY SlotKinds
  <2> QED BY <1>1, <1>2, <1>3, <1>4, <2>1, <2>2, <2>3, <2>4 DEF Gets
<1>5. CASE output[p] = Dead
  <2>1. output' = output /\ ready' = ready
    BY <1>2, <1>5, SlotKinds DEF Put
  <2> QED BY <1>1, <1>3, <1>5, <2>1 DEF Gets, Stays
<1>6. CASE output[p] \notin {None, Dead}
  <2> DEFINE sum == Added(p, output[p], out)
  <2>1. output' = [output EXCEPT ![p] = sum] /\ ready' = ready
    BY <1>2, <1>6 DEF Put
  <2>2. output[p] \in RequestOutputs /\ output[p].comps \in ByIndex /\ output[p].finished \in BOOLEAN
    BY <1>1, <1>6 DEF RequestOutputs
  <2>3. /\ sum \in RequestOutputs /\ sum # None /\ sum # Dead
        /\ sum.finished = (output[p].finished \/ out.finished)
        /\ sum.comps = After(Kind(p), output[p].comps, out.comps)
    BY <2>2, AddedIs, SlotKinds
  <2> HIDE DEF sum
  <2>4. output'[p] = sum /\ \A q \in Reqs : q # p => output'[q] = output[q]
    BY <1>1, <2>1
  <2>5. /\ Has(p) = After(Kind(p), seen[p], output[p].comps)
        /\ Has(p)' = After(Kind(p), seen[p], sum.comps)
    BY <1>3, <1>6, <2>3, <2>4 DEF Has
  <2>6. Has(p)' = After(Kind(p), Has(p), out.comps)
    BY <1>1, <1>2, <2>2, <2>3, <2>5, AfterAfter
  <2> QED BY <1>1, <1>3, <1>6, <2>1, <2>2, <2>3, <2>4, <2>6 DEF Gets
<1> QED BY <1>4, <1>5, <1>6

\* The completion of a token
LEMMA CompletionFacts ==
  ASSUME NEW p \in Reqs, NEW k \in Nat, NEW fin \in BOOLEAN
  PROVE  /\ Completion(p, k, fin) \in Completions /\ Completion(p, k, fin).finished = fin
         /\ Completion(p, k, fin).toks = IF Kind(p) = "DELTA" THEN <<k>> ELSE Numbers(1, k)
<1>1. <<k>> \in Seq(Nat) /\ Numbers(1, k) \in Seq(Nat)
  BY NumbersAre
<1> QED BY <1>1 DEF Completion, Completions

\* The names of ProcessOne
ForOne(o, stop, c, p, i, k, fin, comp, left, all) ==
  /\ c = o.req /\ p = c[1] /\ i = c[2] /\ k = tokens[c] + 1 /\ fin = (o.finished \/ stop)
  /\ comp = Completion(p, k, fin)
  /\ left = (IF fin THEN childRequests[p] \ {c} ELSE childRequests[p])
  /\ all = [j \in DOMAIN aggregator[p] \cup {i} |-> IF j = i THEN comp ELSE aggregator[p][j]]

\* A token more; the child leaves, with its last; the parent leaves with its
\* last child.
Recorded(c, p, k, fin, left) ==
  /\ output' \in [Reqs -> RequestOutputs \cup {None, Dead}] /\ ready' \in [Reqs -> BOOLEAN]
  /\ aggregator' \in [Reqs -> ByIndex] /\ tokens' \in [Children -> Nat]
  /\ parents' \subseteq Reqs /\ childRequests' \in [Reqs -> SUBSET Children]
  /\ states' = IF fin THEN states \ {c} ELSE states
  /\ tokens'[c] = k /\ \A d \in Children : d # c => tokens'[d] = tokens[d]
  /\ childRequests'[p] = left
  /\ parents' = IF fin /\ left = {} THEN parents \ {p} ELSE parents
  /\ \A q \in Reqs : q # p => /\ Stays(q) /\ aggregator'[q] = aggregator[q]
                              /\ childRequests'[q] = childRequests[q]

\* The completion goes to the caller, or is kept until its last, or until the
\* last of all.
Single(p, i, comp, fin, left) ==
  /\ Kind(p) # "FINAL_ONLY" \/ (fin /\ N(p) = 1)
  /\ aggregator'[p] = aggregator[p]
  /\ Gets(p, [j \in {i} |-> comp], IF N(p) = 1 THEN fin ELSE left = {})

Silent(p, fin) == Kind(p) = "FINAL_ONLY" /\ ~fin /\ Stays(p) /\ aggregator'[p] = aggregator[p]

Kept(p, fin, left, all) ==
  /\ Kind(p) = "FINAL_ONLY" /\ fin /\ N(p) # 1
  /\ aggregator'[p] = all
  /\ IF left = {} THEN Gets(p, all, TRUE) ELSE Stays(p)

\* What one output does
LEMMA ProcessFacts ==
  ASSUME FrontInv, NEW o, NEW stop \in BOOLEAN, ProcessOne(o, stop), UNCHANGED tasks,
         o.req \in states, o.finished \in BOOLEAN,
         NEW c, NEW p, NEW i, NEW k, NEW fin, NEW comp, NEW left, NEW all,
         ForOne(o, stop, c, p, i, k, fin, comp, left, all)
  PROVE  /\ Recorded(c, p, k, fin, left)
         /\ Single(p, i, comp, fin, left) \/ Silent(p, fin) \/ Kept(p, fin, left, all)
<1> USE DEF ForOne, Recorded
<1> DEFINE single == [j \in {i} |-> comp]
           finished == IF N(p) = 1 THEN fin ELSE left = {}
<1>1. /\ c \in Children /\ p \in Reqs /\ i \in AllIndices /\ fin \in BOOLEAN
      /\ tokens \in [Children -> Nat] /\ aggregator \in [Reqs -> ByIndex]
      /\ parents \subseteq Reqs /\ childRequests \in [Reqs -> SUBSET Children]
      /\ output \in [Reqs -> RequestOutputs \cup {None, Dead}] /\ ready \in [Reqs -> BOOLEAN]
      /\ Typed
  BY ChildIs DEF FrontInv, Typed
<1>2. k \in Nat /\ comp \in Completions
  <2>1. tokens[c] \in Nat
    BY <1>1
  <2>2. k \in Nat
    BY <2>1
  <2> QED BY <1>1, <2>2, CompletionFacts
<1>3. single \in ByIndex
  BY <1>1, <1>2, SingleByIndex
<1>4. all \in ByIndex
  <2> DEFINE I == DOMAIN aggregator[p] \cup {i}
  <2>1. I \in SUBSET AllIndices /\ \A j \in DOMAIN aggregator[p] : aggregator[p][j] \in Completions
    BY <1>1, ByIndexIs
  <2>2. all \in [I -> Completions]
    BY <1>2, <2>1
  <2> QED BY <2>1, <2>2, ByIndexIs
<1>5. finished \in BOOLEAN
  BY <1>1
<1> HIDE DEF single, finished
<1>6. /\ tokens' = [tokens EXCEPT ![c] = k]
      /\ states' = IF fin THEN states \ {c} ELSE states
      /\ childRequests' = [childRequests EXCEPT ![p] = left]
      /\ parents' = IF fin /\ left = {} THEN parents \ {p} ELSE parents
      /\ IF Kind(p) # "FINAL_ONLY"
         THEN Put(p, [finished |-> finished, comps |-> single]) /\ UNCHANGED aggregator
         ELSE IF ~fin THEN UNCHANGED <<output, ready, aggregator>>
         ELSE IF N(p) = 1
         THEN Put(p, [finished |-> TRUE, comps |-> single]) /\ UNCHANGED aggregator
         ELSE /\ aggregator' = [aggregator EXCEPT ![p] = all]
              /\ IF left = {} THEN Put(p, [finished |-> finished, comps |-> all])
                 ELSE UNCHANGED <<output, ready>>
  BY DEF ProcessOne, ParentFinished, single, finished
<1>7. /\ tokens' \in [Children -> Nat] /\ tokens'[c] = k
      /\ \A d \in Children : d # c => tokens'[d] = tokens[d]
  BY <1>1, <1>2, <1>6
<1>8. /\ parents' \subseteq Reqs /\ childRequests' \in [Reqs -> SUBSET Children]
      /\ childRequests'[p] = left
      /\ \A q \in Reqs : q # p => childRequests'[q] = childRequests[q]
  <2>1. left \in SUBSET Children
    BY <1>1
  <2> QED BY <1>1, <1>6, <2>1
<1>9. UNCHANGED <<param, seen>> /\ \A q : output'[q] = output[q] => Stays(q)
  BY DEF tasks, Stays, Has, Kind
<1>10. CASE Kind(p) # "FINAL_ONLY" \/ (fin /\ N(p) = 1)
  <2> DEFINE out == [finished |-> finished, comps |-> single]
  <2>1. Put(p, out) /\ UNCHANGED aggregator
    BY <1>6, <1>10 DEF finished
  <2>2. out \in RequestOutputs /\ out.finished = finished /\ out.comps = single
    BY <1>3, <1>5 DEF RequestOutputs
  <2> HIDE DEF out
  <2>3. /\ output' \in [Reqs -> RequestOutputs \cup {None, Dead}] /\ ready' \in [Reqs -> BOOLEAN]
        /\ \A q \in Reqs : q # p => Stays(q)
        /\ Gets(p, single, finished)
    BY <1>1, <1>9, <2>1, <2>2, PutFacts
  <2> QED BY <1>1, <1>6, <1>7, <1>8, <1>10, <2>1, <2>3 DEF single, finished, Single
<1>11. CASE Kind(p) = "FINAL_ONLY" /\ ~fin
  <2>1. UNCHANGED <<output, ready, aggregator>>
    BY <1>6, <1>11
  <2> QED BY <1>1, <1>6, <1>7, <1>8, <1>9, <1>11, <2>1 DEF Silent
<1>12. CASE Kind(p) = "FINAL_ONLY" /\ fin /\ N(p) # 1
  <2>1. aggregator' = [aggregator EXCEPT ![p] = all]
    BY <1>6, <1>12
  <2>2. /\ aggregator' \in [Reqs -> ByIndex] /\ aggregator'[p] = all
        /\ \A q \in Reqs : q # p => aggregator'[q] = aggregator[q]
    BY <1>1, <1>4, <2>1
  <2>3. CASE left # {}
    <3>1. UNCHANGED <<output, ready>>
      BY <1>6, <1>12, <2>3
    <3> QED BY <1>1, <1>6, <1>7, <1>8, <1>9, <1>12, <2>2, <2>3, <3>1 DEF Kept
  <2>4. CASE left = {}
    <3> DEFINE out == [finished |-> finished, comps |-> all]
    <3>1. Put(p, out)
      BY <1>6, <1>12, <2>4
    <3>2. out \in RequestOutputs /\ out.finished = TRUE /\ out.comps = all
      BY <1>4, <1>12, <2>4 DEF RequestOutputs, finished
    <3> HIDE DEF out
    <3>3. /\ output' \in [Reqs -> RequestOutputs \cup {None, Dead}] /\ ready' \in [Reqs -> BOOLEAN]
          /\ \A q \in Reqs : q # p => Stays(q)
          /\ Gets(p, out.comps, out.finished)
      BY <1>1, <1>9, <3>1, <3>2, PutFacts
    <3>4. /\ Kind(p) = "FINAL_ONLY" /\ fin /\ N(p) # 1 /\ left = {}
          /\ aggregator'[p] = all /\ Gets(p, all, TRUE)
      BY <1>12, <2>2, <2>4, <3>2, <3>3 DEF Gets
    <3> QED BY <1>6, <1>7, <1>8, <2>2, <2>4, <3>3, <3>4 DEF Kept
  <2> QED BY <2>3, <2>4
<1> QED BY <1>10, <1>11, <1>12

\* After an output the caller of p has, or will have, exactly what was processed.
LEMMA ProcessView ==
  ASSUME FrontInv, NEW o, NEW stop \in BOOLEAN, ProcessOne(o, stop), UNCHANGED tasks,
         o.req \in states, o.finished \in BOOLEAN
  PROVE  /\ output' \in [Reqs -> RequestOutputs \cup {None, Dead}] /\ ready' \in [Reqs -> BOOLEAN]
         /\ aggregator' \in [Reqs -> ByIndex] /\ tokens' \in [Children -> Nat]
         /\ parents' \subseteq Reqs /\ childRequests' \in [Reqs -> SUBSET Children]
         /\ states' \subseteq states
         /\ states \ states' \subseteq (IF o.finished \/ stop THEN {o.req} ELSE {})
         /\ ViewInv'
         /\ \A q \in Reqs : output'[q] = Dead => output[q] = Dead
         /\ Ending /\ gen[o.req[1]].pc # "adding" => Ending'
<1>a. PICK c \in states : c = o.req
  OBVIOUS
<1>b. PICK p : p = c[1]
  OBVIOUS
<1>c. PICK i : i = c[2]
  OBVIOUS
<1>d. PICK fin : fin = (o.finished \/ stop)
  OBVIOUS
<1>e. PICK k : k = tokens[c] + 1
  OBVIOUS
<1>f. PICK comp : comp = Completion(p, k, fin)
  OBVIOUS
<1>g. PICK left : left = (IF fin THEN childRequests[p] \ {c} ELSE childRequests[p])
  OBVIOUS
<1>h. PICK all : all = [j \in DOMAIN aggregator[p] \cup {i} |-> IF j = i THEN comp ELSE aggregator[p][j]]
  OBVIOUS
<1>0. ForOne(o, stop, c, p, i, k, fin, comp, left, all)
  BY <1>a, <1>b, <1>c, <1>d, <1>e, <1>f, <1>g, <1>h DEF ForOne
<1> DEFINE single == [j \in {i} |-> comp]
           finished == IF N(p) = 1 THEN fin ELSE left = {}
<1>j. Recorded(c, p, k, fin, left)
  BY <1>0, ProcessFacts
<1>k. Single(p, i, comp, fin, left) \/ Silent(p, fin) \/ Kept(p, fin, left, all)
  BY <1>0, ProcessFacts
<1>1. /\ states' = IF fin THEN states \ {c} ELSE states
      /\ tokens'[c] = k /\ \A d \in Children : d # c => tokens'[d] = tokens[d]
      /\ childRequests'[p] = left
      /\ parents' = IF fin /\ left = {} THEN parents \ {p} ELSE parents
      /\ \A q \in Reqs : q # p => /\ Stays(q) /\ aggregator'[q] = aggregator[q]
                                  /\ childRequests'[q] = childRequests[q]
  BY <1>j DEF Recorded
<1>2. \/ /\ Kind(p) # "FINAL_ONLY" \/ (fin /\ N(p) = 1)
         /\ aggregator'[p] = aggregator[p] /\ Gets(p, single, finished)
      \/ Kind(p) = "FINAL_ONLY" /\ ~fin /\ Stays(p) /\ aggregator'[p] = aggregator[p]
      \/ /\ Kind(p) = "FINAL_ONLY" /\ fin /\ N(p) # 1 /\ aggregator'[p] = all
         /\ IF left = {} THEN Gets(p, all, TRUE) ELSE Stays(p)
  BY <1>k DEF Single, Silent, Kept
<1>3. /\ c \in Children /\ p \in Reqs /\ i \in AllIndices /\ fin \in BOOLEAN /\ i \in Indices(p)
      /\ tokens \in [Children -> Nat] /\ k \in Nat /\ tokens[c] \in Nat /\ c = <<p, i>>
      /\ N(p) \in Nat \ {0} /\ states \subseteq Children
  <2>1. /\ c \in Children /\ tokens \in [Children -> Nat] /\ c[2] \in Indices(c[1])
        /\ states \subseteq Children
    BY <1>a DEF FrontInv, Typed
  <2>2. p \in Reqs /\ i \in AllIndices /\ c = <<p, i>>
    BY <1>b, <1>c, <2>1, ChildIs
  <2>3. i \in Indices(p) /\ fin \in BOOLEAN /\ tokens[c] \in Nat /\ k \in Nat
    BY <1>b, <1>c, <1>d, <1>e, <2>1
  <2> QED BY <2>1, <2>2, <2>3, ParamsTyped DEF FrontInv
<1>4. /\ comp.finished = fin /\ comp.toks = IF Kind(p) = "DELTA" THEN <<k>> ELSE Numbers(1, k)
      /\ DOMAIN single = {i} /\ single[i] = comp
      /\ DOMAIN all = DOMAIN aggregator[p] \cup {i} /\ all[i] = comp
      /\ \A j \in DOMAIN aggregator[p] : j # i => all[j] = aggregator[p][j]
  <2>1. comp.finished = fin /\ comp.toks = IF Kind(p) = "DELTA" THEN <<k>> ELSE Numbers(1, k)
    BY <1>3, <1>f, CompletionFacts
  <2> QED BY <1>h, <2>1
<1> HIDE DEF single, finished
<1>5. /\ UNCHANGED <<param, gen>>
      /\ \A q : N(q)' = N(q) /\ Kind(q)' = Kind(q) /\ Indices(q)' = Indices(q)
      /\ \A d : Old(d)' = Old(d)
  BY DEF tasks, N, Kind, Indices, Old
<1>6. /\ Old(c) /\ \A d \in states : Old(d)
      /\ \A q \in Reqs : \A j : <<q, j>> \in Children /\ <<q, j>> # c => tokens'[<<q, j>>] = tokens[<<q, j>>]
  BY <1>1, <1>3, <1>a DEF FrontInv, ViewInv, Fresh
<1>7. i \notin DOMAIN aggregator[p]
  BY <1>3, <1>a DEF FrontInv, ViewInv, Aggregated
<1>8. Kids(p)' = (IF fin THEN Kids(p) \ {c} ELSE Kids(p)) /\ c \in Kids(p)
      /\ \A q \in Reqs : q # p => Kids(q)' = Kids(q)
  <2>1. c \in states /\ c[1] = p
    BY <1>a, <1>b
  <2> QED BY <1>1, <2>1 DEF Kids
<1>9. Started'
  BY <1>5 DEF FrontInv, ViewInv, Started
<1>10. /\ N(p) = 1 => left = {} /\ p \notin parents
       /\ N(p) # 1 => left = Kids(p)' /\ p \in parents
  BY <1>3, <1>8, <1>g DEF FrontInv, ViewInv, Lists
<1>11. Lists'
  <2> SUFFICES ASSUME NEW q \in Reqs
               PROVE  IF N(q) = 1 THEN q \notin parents' /\ childRequests'[q] = {}
                      ELSE IF q \in parents' THEN childRequests'[q] = Kids(q)' /\ Kids(q)' # {}
                      ELSE /\ Kids(q)' = {}
                           /\ gen[q].pc \in {"new", "adding"} => childRequests'[q] = {}
    BY <1>5 DEF Lists
  <2>1. CASE q = p
    BY <1>1, <1>8, <1>10, <2>1
  <2>2. CASE q # p
    BY <1>1, <1>8, <2>2 DEF FrontInv, ViewInv, Lists
  <2> QED BY <2>1, <2>2
<1>12. /\ output[p] = Dead <=> output'[p] = Dead
       /\ output[p] = Dead => Has(p)' = Has(p)
       /\ \A q \in Reqs : q # p => output'[q] = output[q] /\ Has(q)' = Has(q)
  BY <1>1, <1>2 DEF Gets, Stays
<1>13. /\ DOMAIN Has(p)' \subseteq DOMAIN Has(p) \cup DOMAIN aggregator[p] \cup {i}
       /\ DOMAIN aggregator'[p] \subseteq DOMAIN aggregator[p] \cup {i}
       /\ DOMAIN aggregator[p] \subseteq DOMAIN aggregator'[p]
  BY <1>2, <1>4 DEF Gets, Stays, After
<1>14. Fresh'
  <2> SUFFICES ASSUME NEW d \in Children, ~Old(d)
               PROVE  /\ d \notin states' /\ tokens'[d] = 0
                      /\ d[2] \notin DOMAIN Has(d[1])' /\ d[2] \notin DOMAIN aggregator'[d[1]]
    BY <1>5, ChildIs DEF Fresh
  <2>1. /\ d # c /\ d \notin states /\ tokens[d] = 0
        /\ d[2] \notin DOMAIN Has(d[1]) /\ d[2] \notin DOMAIN aggregator[d[1]]
    BY <1>6 DEF FrontInv, ViewInv, Fresh
  <2>2. d[1] \in Reqs /\ d = <<d[1], d[2]>>
    BY ChildIs
  <2>3. d \notin states' /\ tokens'[d] = 0
    BY <1>1, <2>1
  <2>4. CASE d[1] = p
    <3>1. d[2] # i
      BY <1>3, <2>1, <2>2, <2>4
    <3> QED BY <1>13, <2>1, <2>3, <2>4, <3>1
  <2>5. CASE d[1] # p
    BY <1>1, <1>12, <2>1, <2>2, <2>3, <2>5
  <2> QED BY <2>4, <2>5
<1>15. \A q \in Reqs : \A j \in DOMAIN aggregator[q] : <<q, j>> \in Children
  <2>1. \A q \in Reqs : DOMAIN aggregator[q] \subseteq AllIndices
    BY ByIndexIs DEF FrontInv, Typed
  <2> QED BY <2>1 DEF Children
<1>16. Aggregated'
  <2> SUFFICES ASSUME NEW q \in Reqs, NEW j \in DOMAIN aggregator'[q]
               PROVE  /\ aggregator'[q][j] = [toks |-> Numbers(1, tokens'[<<q, j>>]), finished |-> TRUE]
                      /\ <<q, j>> \notin states'
    BY DEF Aggregated
  <2>1. CASE q # p \/ j # i
    <3>1. j \in DOMAIN aggregator[q] /\ aggregator'[q][j] = aggregator[q][j]
      <4>1. CASE q # p
        BY <1>1, <4>1
      <4>2. CASE q = p /\ j # i
        BY <1>2, <1>4, <4>2
      <4> QED BY <2>1, <4>1, <4>2
    <3>2. <<q, j>> # c /\ <<q, j>> \in Children
      BY <1>3, <1>15, <2>1, <3>1
    <3> QED BY <1>1, <1>6, <3>1, <3>2 DEF FrontInv, ViewInv, Aggregated
  <2>2. CASE q = p /\ j = i
    <3>1. aggregator'[p][i] = comp /\ fin /\ Kind(p) = "FINAL_ONLY"
      BY <1>2, <1>4, <1>7, <2>2
    <3>2. comp = [toks |-> Numbers(1, k), finished |-> TRUE]
      BY <3>1, <1>f DEF Completion
    <3>3. <<p, i>> = c /\ c \notin states'
      BY <1>1, <1>3, <3>1
    <3> QED BY <1>1, <2>2, <3>1, <3>2, <3>3
  <2> QED BY <2>1, <2>2
<1>17. ASSUME output[p] # Dead, NEW j, j # i
       PROVE  \/ /\ j \in DOMAIN Has(p)' <=> j \in DOMAIN Has(p)
                 /\ j \in DOMAIN Has(p) => Has(p)'[j] = Has(p)[j]
              \/ /\ Kind(p) = "FINAL_ONLY" /\ N(p) # 1
                 /\ j \in DOMAIN Has(p)' /\ j \in DOMAIN aggregator[p] /\ Has(p)'[j] = aggregator[p][j]
  <2>1. CASE Has(p)' = After(Kind(p), Has(p), single)
    BY <1>4, <1>17, <2>1 DEF After
  <2>2. CASE Has(p)' = Has(p)
    BY <2>2
  <2>3. CASE Has(p)' = After(Kind(p), Has(p), all) /\ Kind(p) = "FINAL_ONLY" /\ N(p) # 1
    BY <1>4, <1>17, <2>3 DEF After, Joined
  <2> QED BY <1>2, <1>17, <2>1, <2>2, <2>3 DEF Gets, Stays
<1>18. ASSUME output[p] # Dead
       PROVE  \/ Kind(p) = "FINAL_ONLY" /\ (~fin \/ N(p) # 1) /\ Has(p)' = Has(p)
              \/ /\ i \in DOMAIN Has(p)' /\ (Kind(p) = "FINAL_ONLY" => fin)
                 /\ Has(p)'[i] = IF i \in DOMAIN Has(p) THEN Joined(Kind(p), Has(p)[i], comp)
                                 ELSE comp
  <2>1. CASE Has(p)' = After(Kind(p), Has(p), single) /\ (Kind(p) = "FINAL_ONLY" => fin)
    BY <1>4, <2>1 DEF After
  <2>2. CASE Kind(p) = "FINAL_ONLY" /\ (~fin \/ N(p) # 1) /\ Has(p)' = Has(p)
    BY <2>2
  <2>3. CASE Has(p)' = After(Kind(p), Has(p), all) /\ fin
    BY <1>4, <2>3 DEF After
  <2> QED BY <1>2, <1>18, <2>1, <2>2, <2>3 DEF Gets, Stays
<1>19. Faithful'
  <2> SUFFICES ASSUME NEW q \in Reqs, output'[q] # Dead, gen[q].pc # "failed", NEW j \in Indices(q)
               PROVE  FaithfulTo(q, j)'
    BY <1>5 DEF Faithful
  <2>1. output[q] # Dead /\ FaithfulTo(q, j) /\ <<q, j>> \in Children
    <3>1. output[q] # Dead
      BY <1>12
    <3> QED BY <3>1, ParamsTyped DEF FrontInv, ViewInv, Faithful
  <2>2. /\ j \in DOMAIN Has(q) => /\ Has(q)[j].toks = Numbers(1, tokens[<<q, j>>])
                                  /\ Kind(q) = "FINAL_ONLY" => <<q, j>> \notin states
        /\ j \notin DOMAIN Has(q) => Kind(q) = "FINAL_ONLY" \/ tokens[<<q, j>>] = 0
    BY <2>1 DEF FaithfulTo
  <2> SUFFICES /\ j \in DOMAIN Has(q)' => /\ Has(q)'[j].toks = Numbers(1, tokens'[<<q, j>>])
                                          /\ Kind(q) = "FINAL_ONLY" => <<q, j>> \notin states'
               /\ j \notin DOMAIN Has(q)' => Kind(q) = "FINAL_ONLY" \/ tokens'[<<q, j>>] = 0
    BY <1>5 DEF FaithfulTo
  <2>3. CASE q # p
    <3>1. <<q, j>> # c
      BY <1>3, <2>3
    <3> QED BY <1>1, <1>12, <2>1, <2>2, <2>3, <3>1
  <2>4. CASE q = p /\ j # i
    <3>1. <<p, j>> # c
      BY <1>3, <2>4
    <3>2. tokens'[<<p, j>>] = tokens[<<p, j>>] /\ (<<p, j>> \notin states => <<p, j>> \notin states')
      BY <1>1, <2>1, <2>4, <3>1
    <3>3. CASE /\ j \in DOMAIN Has(p)' <=> j \in DOMAIN Has(p)
               /\ j \in DOMAIN Has(p) => Has(p)'[j] = Has(p)[j]
      BY <2>2, <2>4, <3>2, <3>3
    <3>4. CASE j \in DOMAIN Has(p)' /\ j \in DOMAIN aggregator[p] /\ Has(p)'[j] = aggregator[p][j]
      <4>1. /\ aggregator[p][j] = [toks |-> Numbers(1, tokens[<<p, j>>]), finished |-> TRUE]
            /\ <<p, j>> \notin states
        BY <1>3, <3>4 DEF FrontInv, ViewInv, Aggregated
      <4>2. Has(p)'[j].toks = Numbers(1, tokens[<<p, j>>])
        BY <3>4, <4>1
      <4> QED BY <2>4, <3>2, <3>4, <4>1, <4>2
    <3> QED BY <1>17, <2>1, <2>4, <3>3, <3>4
  <2>5. CASE q = p /\ j = i
    <3>1. tokens'[<<p, i>>] = k /\ tokens[<<p, i>>] \in Nat /\ k = tokens[<<p, i>>] + 1
          /\ <<p, i>> \in states
      BY <1>1, <1>3, <1>a, <1>e
    <3>2. CASE Kind(p) = "FINAL_ONLY" /\ Has(p)' = Has(p)
      BY <2>2, <2>5, <3>1, <3>2
    <3>3. CASE /\ i \in DOMAIN Has(p)' /\ (Kind(p) = "FINAL_ONLY" => fin)
               /\ Has(p)'[i] = IF i \in DOMAIN Has(p) THEN Joined(Kind(p), Has(p)[i], comp)
                               ELSE comp
      <4>1. Kind(p) = "FINAL_ONLY" => <<p, i>> \notin states'
        BY <1>1, <1>3, <3>3
      <4>2. CASE Kind(p) # "DELTA"
        BY <1>4, <2>5, <3>1, <3>3, <4>1, <4>2 DEF Joined
      <4>3. CASE Kind(p) = "DELTA" /\ i \notin DOMAIN Has(p)
        <5>1. tokens[<<p, i>>] = 0 /\ k = 1
          BY <2>2, <2>5, <3>1, <4>3
        <5>2. Has(p)'[i].toks = <<1>>
          BY <1>4, <3>3, <4>3, <5>1
        <5> QED BY <2>5, <3>1, <3>3, <4>1, <5>1, <5>2, FirstNumber
      <4>4. CASE Kind(p) = "DELTA" /\ i \in DOMAIN Has(p)
        <5>1. Has(p)'[i].toks = Has(p)[i].toks \o comp.toks
          <6>1. Has(p)'[i] = Joined(Kind(p), Has(p)[i], comp)
            BY <3>3, <4>4
          <6>2. Joined(Kind(p), Has(p)[i], comp).toks = Has(p)[i].toks \o comp.toks
            BY <4>4 DEF Joined
          <6> QED BY <6>1, <6>2
        <5>2. Has(p)'[i].toks = Numbers(1, tokens[<<p, i>>]) \o <<tokens[<<p, i>>] + 1>>
          BY <1>4, <2>2, <2>5, <3>1, <4>4, <5>1
        <5>3. Has(p)'[i].toks = Numbers(1, k)
          BY <3>1, <5>2, NumbersGrow
        <5> QED BY <2>5, <3>1, <3>3, <4>1, <5>3
      <4> QED BY <4>2, <4>3, <4>4
    <3> QED BY <1>18, <2>1, <2>5, <3>2, <3>3
  <2> QED BY <2>3, <2>4, <2>5
<1>20. LeavesItsLast'
  <2> SUFFICES ASSUME NEW q \in Reqs, output'[q] # Dead, gen[q].pc \notin {"failed", "cancelled"},
                      NEW j \in Indices(q), Old(<<q, j>>), <<q, j>> \notin states'
               PROVE  IF Kind(q) = "FINAL_ONLY" /\ N(q) > 1 THEN j \in DOMAIN aggregator'[q]
                      ELSE j \in DOMAIN Has(q)' /\ Has(q)'[j].finished
    BY <1>5 DEF LeavesItsLast
  <2>1. /\ output[q] # Dead
        /\ <<q, j>> \notin states => IF Kind(q) = "FINAL_ONLY" /\ N(q) > 1 THEN j \in DOMAIN aggregator[q]
                                     ELSE j \in DOMAIN Has(q) /\ Has(q)[j].finished
    <3>1. output[q] # Dead
      BY <1>12
    <3> QED BY <3>1 DEF FrontInv, ViewInv, LeavesItsLast
  <2>2. CASE q # p
    <3>1. <<q, j>> # c
      BY <1>3, <2>2
    <3> QED BY <1>1, <1>12, <2>1, <2>2, <3>1
  <2>3. CASE q = p /\ j # i
    <3>1. <<p, j>> # c
      BY <1>3, <2>3
    <3>2. <<p, j>> \notin states
      BY <1>1, <2>3, <3>1
    <3>3. CASE Kind(p) = "FINAL_ONLY" /\ N(p) > 1
      BY <1>13, <2>1, <2>3, <3>2, <3>3
    <3>4. CASE ~(Kind(p) = "FINAL_ONLY" /\ N(p) > 1)
      <4>1. ~(Kind(p) = "FINAL_ONLY" /\ N(p) # 1)
        BY <1>3, <3>4
      <4> QED BY <1>17, <2>1, <2>3, <3>2, <3>4, <4>1
    <3> QED BY <3>3, <3>4
  <2>4. CASE q = p /\ j = i
    <3>1. fin
      <4>1. <<q, j>> = c /\ c \in states /\ c \notin states'
        BY <1>3, <1>a, <2>4
      <4>2. ~fin => states' = states
        BY <1>1
      <4> QED BY <4>1, <4>2
    <3>2. CASE Kind(p) = "FINAL_ONLY" /\ N(p) > 1
      <4>1. N(p) # 1
        BY <3>2
      <4>2. aggregator'[p] = all
        BY <1>2, <3>1, <3>2, <4>1
      <4> QED BY <1>4, <2>4, <3>2, <4>2
    <3>3. CASE ~(Kind(p) = "FINAL_ONLY" /\ N(p) > 1)
      <4>1. N(p) # 1 => N(p) > 1
        BY <1>3
      <4>2. /\ i \in DOMAIN Has(p)'
            /\ Has(p)'[i] = IF i \in DOMAIN Has(p) THEN Joined(Kind(p), Has(p)[i], comp) ELSE comp
        BY <1>18, <2>1, <2>4, <3>1, <3>3, <4>1
      <4>3. Has(p)'[i].finished
        <5>1. Joined(Kind(p), Has(p)[i], comp).finished = comp.finished
          BY DEF Joined
        <5> QED BY <1>4, <3>1, <4>2, <5>1
      <4> QED BY <2>4, <3>3, <4>2, <4>3
    <3> QED BY <3>2, <3>3
  <2> QED BY <2>2, <2>3, <2>4
<1>21. ViewInv'
  BY <1>9, <1>11, <1>14, <1>16, <1>19, <1>20 DEF ViewInv
<1>22. \A q \in Reqs : output'[q] = Dead => output[q] = Dead
  BY <1>12
<1>23. ASSUME Ending, gen[p].pc # "adding" PROVE Ending'
  <2> SUFFICES ASSUME NEW q \in Reqs
               PROVE  /\ output'[q] \notin {None, Dead} /\ output'[q].finished =>
                           /\ Kids(q)' = {} /\ gen[q].pc \notin {"new", "adding"}
                           /\ gen[q].pc \notin {"failed", "cancelled"} => Whole(q)'
                      /\ gen[q].pc = "ended" => Kids(q)' = {} /\ output'[q] = None /\ Whole(q)'
                      /\ gen[q].pc = "cancelled" => Kids(q)' = {}
    BY <1>5 DEF Ending
  <2>1. CASE q # p
    <3>1. output'[q] = output[q] /\ Kids(q)' = Kids(q) /\ Whole(q)' = Whole(q)
      BY <1>5, <1>8, <1>12, <2>1 DEF Whole
    <3> QED BY <1>23, <3>1 DEF Ending
  <2>2. CASE q = p
    <3>1. /\ gen[p].pc \notin {"ended", "cancelled"}
          /\ ~(output[p] \notin {None, Dead} /\ output[p].finished)
      BY <1>3, <1>8, <1>23 DEF Ending
    <3> SUFFICES ASSUME output'[p] \notin {None, Dead}, output'[p].finished
                 PROVE  /\ Kids(p)' = {} /\ gen[p].pc \notin {"new", "adding"}
                        /\ gen[p].pc \notin {"failed", "cancelled"} => Whole(p)'
      BY <2>2, <3>1
    <3>2. output[p] # Dead
      BY <1>12
    <3>3. \/ finished
          \/ /\ Kind(p) = "FINAL_ONLY" /\ fin /\ N(p) # 1 /\ left = {} /\ aggregator'[p] = all
             /\ Has(p)' = After(Kind(p), Has(p), all)
      BY <1>2, <3>1, <3>2 DEF Gets, Stays
    <3>4. (N(p) = 1 => fin) /\ left = {}
      BY <1>10, <3>3 DEF finished
    <3>5. Kids(p)' = {}
      <4>1. CASE N(p) # 1
        BY <1>10, <3>4, <4>1
      <4>2. CASE N(p) = 1
        <5>1. Kids(p) \subseteq {<<p, 0>>}
          BY <1>3, <4>2, AbortedIsKids DEF Aborted
        <5> QED BY <1>8, <3>4, <4>2, <5>1
      <4> QED BY <4>1, <4>2
    <3>6. gen[p].pc # "new"
      <4>1. c[1] = p /\ c[2] \in Nat
        BY <1>3, <1>b, ChildIs
      <4> QED BY <1>3, <1>6, <4>1 DEF Old, FrontInv, ViewInv, Started
    <3>7. ASSUME gen[p].pc \notin {"failed", "cancelled"} PROVE Whole(p)'
      <4>1. gen[p].next = N(p)
        <5>1. gen[p].pc \in {"new", "adding", "loop", "wait", "yield", "ended", "closed",
                             "cancelled", "failed"}
          BY <1>3 DEF FrontInv, Typed
        <5> QED BY <1>3, <1>23, <3>6, <3>7, <5>1 DEF FrontInv, ViewInv, Started
      <4> SUFFICES ASSUME NEW j \in Indices(p)
                   PROVE  j \in DOMAIN Has(p)' /\ Has(p)'[j].finished
        BY <1>5 DEF Whole
      <4>2. <<p, j>> \in Children /\ <<p, j>>[1] = p /\ Old(<<p, j>>)
        BY <1>3, <4>1, ParamsTyped DEF Old, Indices, FrontInv
      <4>3. <<p, j>> \notin states'
        BY <3>5, <4>2 DEF Kids
      <4>4. IF Kind(p) = "FINAL_ONLY" /\ N(p) > 1 THEN j \in DOMAIN aggregator'[p]
            ELSE j \in DOMAIN Has(p)' /\ Has(p)'[j].finished
        BY <1>3, <1>5, <1>20, <3>7, <4>2, <4>3 DEF LeavesItsLast
      <4>5. CASE Kind(p) = "FINAL_ONLY" /\ N(p) > 1
        <5>1. /\ aggregator'[p] = all /\ Has(p)' = After("FINAL_ONLY", Has(p), all)
          BY <1>2, <3>1, <3>2, <4>5 DEF Gets, Stays
        <5>2. j \in DOMAIN all /\ j \in DOMAIN aggregator'[p]
          BY <4>4, <4>5, <5>1
        <5>3. j \in DOMAIN Has(p)' /\ Has(p)'[j] = all[j]
          BY <5>1, <5>2 DEF After, Joined
        <5>4. aggregator'[p][j] = [toks |-> Numbers(1, tokens'[<<p, j>>]), finished |-> TRUE]
          BY <1>3, <1>16, <5>2 DEF Aggregated
        <5> QED BY <5>1, <5>3, <5>4
      <4>6. CASE ~(Kind(p) = "FINAL_ONLY" /\ N(p) > 1)
        BY <4>4, <4>6
      <4> QED BY <4>5, <4>6
    <3> QED BY <1>23, <3>5, <3>6, <3>7
  <2> QED BY <2>1, <2>2
<1>24. /\ output' \in [Reqs -> RequestOutputs \cup {None, Dead}] /\ ready' \in [Reqs -> BOOLEAN]
       /\ aggregator' \in [Reqs -> ByIndex] /\ tokens' \in [Children -> Nat]
       /\ parents' \subseteq Reqs /\ childRequests' \in [Reqs -> SUBSET Children]
  BY <1>j DEF Recorded
<1>25. states' \subseteq states /\ states \ states' \subseteq (IF o.finished \/ stop THEN {o.req} ELSE {})
  BY <1>1, <1>a, <1>d
<1> QED BY <1>21, <1>22, <1>23, <1>24, <1>25, <1>a, <1>b

\* A slice of the outputs
LEMMA ProcessesKeeps ==
  ASSUME FrontInv, HandlerProcesses
  PROVE  FrontInv' /\ (Ending /\ ~Suspends => Ending')
<1> DEFINE O == [req : Children, finished : BOOLEAN]
           last == Len(handler.todo) = 1
<1>0. PICK stop \in BOOLEAN :
        LET o == Head(handler.todo)
            known == o.req \in states
            abort == IF known /\ stop /\ ~o.finished THEN {o.req} ELSE {}
        IN  /\ IF known THEN ProcessOne(o, stop) ELSE UNCHANGED <<output, ready, processor>>
            /\ handler' = [pc |-> IF last THEN "get" ELSE "abort", todo |-> Tail(handler.todo),
                           abort |-> IF last THEN {} ELSE abort]
            /\ IF last THEN SendAbort(abort) ELSE UNCHANGED toEngine
  BY DEF HandlerProcesses
<1>a. PICK o : o = Head(handler.todo)
  OBVIOUS
<1>b. PICK abort : abort = IF o.req \in states /\ stop /\ ~o.finished THEN {o.req} ELSE {}
  OBVIOUS
<1>1. /\ IF o.req \in states THEN ProcessOne(o, stop) ELSE UNCHANGED <<output, ready, processor>>
      /\ handler' = [pc |-> IF last THEN "get" ELSE "abort", todo |-> Tail(handler.todo),
                     abort |-> IF last THEN {} ELSE abort]
      /\ IF last THEN SendAbort(abort) ELSE UNCHANGED toEngine
  BY <1>0, <1>a, <1>b
<1>2. /\ UNCHANGED <<tasks, param, gen, seen, engineDead, outputs, live>>
      /\ handler.pc = "slice" /\ (~Suspends => \A p \in Reqs : gen[p].pc # "adding")
  BY DEF HandlerProcesses, tasks, engine, Yielded
<1>3. /\ handler.todo \in Seq(O) /\ handler.todo # << >> /\ handler.abort = {}
  BY <1>2 DEF FrontInv, Typed, EngineCoreOutputs
<1>4. /\ o \in O /\ Tail(handler.todo) \in Seq(O) /\ Range(handler.todo) = {o} \cup Range(Tail(handler.todo))
      /\ ~last => Tail(handler.todo) # << >>
  <2> HIDE DEF O
  <2>1. /\ Head(handler.todo) \in O /\ Tail(handler.todo) \in Seq(O)
        /\ Len(Tail(handler.todo)) = Len(handler.todo) - 1 /\ Len(handler.todo) \in Nat
        /\ Range(handler.todo) = {Head(handler.todo)} \cup Range(Tail(handler.todo))
    BY <1>3, QueueFacts
  <2>2. ~last => Len(Tail(handler.todo)) # 0
    BY <2>1
  <2>3. ~last => Tail(handler.todo) # << >>
    <3>1. Len(<< >>) = 0
      OBVIOUS
    <3> QED BY <2>2, <3>1
  <2> QED BY <1>a, <2>1, <2>3
<1>5. o.req \in Children /\ o.finished \in BOOLEAN /\ abort \in SUBSET Children
  BY <1>4, <1>b
<1>6. /\ Old(o.req) /\ (o.finished => o.req \notin live \cup Sent("add"))
  BY <1>4 DEF FrontInv, Mail, Coming
<1>7. /\ output' \in [Reqs -> RequestOutputs \cup {None, Dead}] /\ ready' \in [Reqs -> BOOLEAN]
      /\ aggregator' \in [Reqs -> ByIndex] /\ tokens' \in [Children -> Nat]
      /\ parents' \subseteq Reqs /\ childRequests' \in [Reqs -> SUBSET Children]
      /\ states' \subseteq states
      /\ states \ states' \subseteq (IF o.finished \/ abort # {} THEN {o.req} ELSE {})
      /\ ViewInv'
      /\ \A q \in Reqs : output'[q] = Dead => output[q] = Dead
      /\ Ending /\ ~Suspends => Ending'
  <2>1. CASE o.req \in states
    <3>1. ProcessOne(o, stop) /\ tasks' = tasks
      BY <1>1, <1>2, <2>1
    <3>2. o.req[1] \in Reqs
      BY <1>5, ChildIs
    <3>3. stop => o.finished \/ abort # {}
      BY <1>b, <2>1
    <3>4. /\ output' \in [Reqs -> RequestOutputs \cup {None, Dead}] /\ ready' \in [Reqs -> BOOLEAN]
          /\ aggregator' \in [Reqs -> ByIndex] /\ tokens' \in [Children -> Nat]
          /\ parents' \subseteq Reqs /\ childRequests' \in [Reqs -> SUBSET Children]
          /\ states' \subseteq states
          /\ states \ states' \subseteq (IF o.finished \/ stop THEN {o.req} ELSE {})
          /\ ViewInv'
          /\ \A q \in Reqs : output'[q] = Dead => output[q] = Dead
          /\ Ending /\ gen[o.req[1]].pc # "adding" => Ending'
      BY <1>5, <2>1, <3>1, ProcessView
    <3> QED BY <1>2, <3>2, <3>3, <3>4
  <2>2. CASE o.req \notin states
    <3>1. UNCHANGED <<output, ready, states, parents, childRequests, aggregator, tokens>>
      BY <1>1, <2>2 DEF processor
    <3>2. UNCHANGED view
      BY <1>2, <3>1 DEF view
    <3>3. ViewInv' /\ Ending' = Ending
      BY <3>2, ViewSame DEF FrontInv
    <3> QED BY <3>1, <3>3 DEF FrontInv, Typed
  <2> QED BY <2>1, <2>2
<1>c. PICK sent : sent = IF last THEN abort ELSE {}
  OBVIOUS
<1>8. SendAbort(sent) /\ sent \in SUBSET Children /\ sent \subseteq abort
  BY <1>1, <1>5, <1>c DEF SendAbort
<1>9. /\ toEngine' \in Seq([kind : {"add", "abort"}, reqs : SUBSET Children])
      /\ Sent("add")' = Sent("add") /\ Sent("abort") \subseteq Sent("abort")'
      /\ engineDead \/ sent \subseteq Sent("abort")'
  BY <1>8, AbortFacts DEF FrontInv
<1>10. /\ handler' \in [pc : {"get", "slice", "abort", "dead"}, todo : EngineCoreOutputs,
                        abort : SUBSET Children]
       /\ handler'.todo = Tail(handler.todo) /\ handler'.pc # "dead"
       /\ handler'.pc \in {"slice", "abort"} => handler'.todo # << >>
       /\ handler'.pc # "abort" => handler'.abort = {}
       /\ handler'.abort \subseteq abort /\ abort \subseteq handler'.abort \cup sent
  <2>1. Tail(handler.todo) \in EngineCoreOutputs
    BY <1>4 DEF EngineCoreOutputs
  <2>2. CASE last
    BY <1>1, <1>c, <2>1, <2>2
  <2>3. CASE ~last
    BY <1>1, <1>4, <1>5, <2>1, <2>3
  <2> QED BY <2>2, <2>3
<1>11. \A c \in Children : Old(c)' = Old(c)
  BY <1>2 DEF Old
<1>12. Typed'
  <2>1. states' \subseteq Children /\ \A d \in states' : d[2] \in Indices(d[1])
    BY <1>7 DEF FrontInv, Typed
  <2>2. \A q : Indices(q)' = Indices(q)
    BY <1>2 DEF Indices, N
  <2> QED BY <1>2, <1>7, <1>9, <1>10, <2>1, <2>2 DEF FrontInv, Typed
<1>13. OnlyDeathFails'
  BY <1>2, <1>7, <1>10 DEF FrontInv, OnlyDeathFails
<1>14. Mail'
  <2>1. Coming' \subseteq Coming
    <3>1. \A x : x \in Coming' => \/ x \in Range(handler'.todo)
                                  \/ \E os \in Range(outputs') : os # Dead /\ x \in Range(os)
      BY DEF Coming
    <3>2. \A x : x \in Coming <=> \/ x \in Range(handler.todo)
                                  \/ \E os \in Range(outputs) : os # Dead /\ x \in Range(os)
      BY ComingIs DEF FrontInv
    <3> QED BY <1>2, <1>4, <1>10, <3>1, <3>2
  <2>2. ASSUME NEW x \in Coming'
        PROVE  Old(x.req)' /\ (x.finished => x.req \notin live' \cup Sent("add"))
    <3>1. Old(x.req) /\ (x.finished => x.req \notin live \cup Sent("add"))
      BY <2>1 DEF FrontInv, Mail
    <3>2. Old(x.req)'
      BY <1>2, <3>1 DEF Old
    <3> QED BY <1>2, <3>1, <3>2
  <2>3. abort \subseteq {o.req} /\ \A c \in abort : Old(c)'
    BY <1>5, <1>6, <1>11, <1>b
  <2>4. /\ \A c \in handler'.abort : Old(c)'
        /\ \A c \in sent : Old(c)'
    BY <1>8, <1>10, <2>3
  <2>5. Mail /\ Typed /\ live' \subseteq live /\ \A c \in Children : Old(c) => Old(c)'
    BY <1>2, <1>11 DEF FrontInv
  <2> QED BY <1>8, <2>2, <2>4, <2>5, MailAborts
<1>15. WorkIsWanted'
  <2>1. CASE engineDead \/ Dead \in Range(outputs)
    BY <1>2, <2>1 DEF WorkIsWanted
  <2>2. CASE ~engineDead /\ live \cup Sent("add") \subseteq states \cup handler.abort \cup Sent("abort")
    <3>1. ASSUME NEW x \in live \cup Sent("add")
          PROVE  x \in states' \cup handler'.abort \cup Sent("abort")'
      <4>1. x \in states \/ x \in Sent("abort")
        BY <1>3, <2>2, <3>1
      <4>2. CASE x \in states \ states'
        <5>1. x = o.req /\ (o.finished \/ abort # {})
          BY <1>7, <4>2
        <5>2. ~o.finished
          BY <1>6, <3>1, <5>1
        <5>3. abort = {o.req}
          BY <1>b, <5>1, <5>2
        <5> QED BY <1>9, <1>10, <2>2, <5>1, <5>3
      <4> QED BY <1>9, <4>1, <4>2
    <3> QED BY <1>2, <1>9, <3>1 DEF WorkIsWanted
  <2> QED BY <2>1, <2>2 DEF FrontInv, WorkIsWanted
<1> QED BY <1>7, <1>12, <1>13, <1>14, <1>15 DEF FrontInv

-----------------------------------------------------------------------------
(* The theorems *)

\* Every step keeps the invariant; the endings, if a task is not interrupted
\* between two children.
LEMMA NextKeeps ==
  ASSUME FrontInv, [Next]_vars
  PROVE  FrontInv' /\ (Ending /\ ~Suspends => Ending')
<1>1. CASE EngineReceive
  BY <1>1, ReceiveKeeps
<1>2. CASE EngineStep
  BY <1>2, EngineStepKeeps
<1>3. CASE EngineDies \/ SocketSeesDead
  BY <1>3, DeathKeeps
<1>4. CASE HandlerGets
  BY <1>4, GetsKeeps
<1>5. CASE HandlerFails
  BY <1>5, FailsKeeps
<1>6. CASE HandlerProcesses
  BY <1>6, ProcessesKeeps
<1>7. CASE HandlerAborts
  BY <1>7, AbortsKeeps
<1>8. ASSUME NEW p \in Reqs, Generate(p) \/ Task(p) \/ Cancel(p) \/ Close(p)
      PROVE  FrontInv' /\ (Ending => Ending')
  BY <1>8, AddChildKeeps, GenerateKeeps, CancelKeeps DEF Task
<1>9. CASE UNCHANGED vars
  <2>1. UNCHANGED view /\ UNCHANGED <<ready, handler, engineDead, toEngine, outputs, live>>
    BY <1>9 DEF vars, view, tasks, processor, engine
  <2>2. ViewInv' /\ Ending' = Ending
    BY <2>1, ViewSame DEF FrontInv
  <2>3. /\ Typed' = Typed /\ OnlyDeathFails' = OnlyDeathFails
    BY <2>1 DEF Typed, OnlyDeathFails, view, Indices, N
  <2>4. /\ Coming' = Coming /\ Sent("add")' = Sent("add") /\ Sent("abort")' = Sent("abort")
        /\ \A c : Old(c)' = Old(c)
    BY <2>1 DEF Coming, Sent, Old, view
  <2>5. Mail' = Mail /\ WorkIsWanted' = WorkIsWanted
    BY <2>1, <2>4 DEF Mail, WorkIsWanted, view
  <2> QED BY <2>2, <2>3, <2>5 DEF FrontInv
<1> QED BY <1>1, <1>2, <1>3, <1>4, <1>5, <1>6, <1>7, <1>8, <1>9 DEF Next, Handler

\* The invariant holds, whether or not sending suspends a task.
THEOREM FrontInvAlways == Spec => []FrontInv
<1>1. Init => FrontInv
  BY InitFrontInv
<1>2. FrontInv /\ [Next]_vars => FrontInv'
  BY NextKeeps
<1> QED BY <1>1, <1>2, PTL DEF Spec

\* When it does not, the last output of a stream comes after all the others.
THEOREM EndingAlways ==
  ASSUME ~Suspends
  PROVE  Spec => [](FrontInv /\ Ending)
<1>1. Init => FrontInv /\ Ending
  BY InitFrontInv
<1>2. (FrontInv /\ Ending) /\ [Next]_vars => (FrontInv /\ Ending)'
  BY NextKeeps
<1> QED BY <1>1, <1>2, PTL DEF Spec

\* What the caller of generate() has and what lies in the slot for it make up
\* exactly the tokens that were processed, for any number of completions, any
\* kind of output, and whatever the order of the tasks.
THEOREM StreamFaithfulAlways == Spec => []StreamFaithful
<1>1. FrontInv => StreamFaithful
  <2> SUFFICES ASSUME FrontInv, NEW p \in Reqs, output[p] # Dead, gen[p].pc # "failed",
                      NEW i \in Indices(p)
               PROVE  LET all == IF output[p] = None THEN seen[p] ELSE SeenAfter(p, output[p])
                      IN  IF i \in DOMAIN all THEN all[i].toks = Numbers(1, tokens[<<p, i>>])
                          ELSE Kind(p) = "FINAL_ONLY" \/ tokens[<<p, i>>] = 0
    BY DEF StreamFaithful
  <2>1. SeenAfter(p, output[p]) = After(Kind(p), seen[p], output[p].comps)
    BY DEF SeenAfter, After, Joined
  <2>2. Has(p) = IF output[p] = None THEN seen[p] ELSE SeenAfter(p, output[p])
    BY <2>1 DEF Has
  <2>3. FaithfulTo(p, i)
    BY DEF FrontInv, ViewInv, Faithful
  <2> QED BY <2>2, <2>3 DEF FaithfulTo
<1> QED BY <1>1, FrontInvAlways, PTL

\* A generate() that ends by itself has yielded each of the n completions to its
\* end, and the request has left the output processor.
THEOREM EndsCompleteAlways ==
  ASSUME ~Suspends
  PROVE  Spec => []EndsComplete
<1>1. FrontInv /\ Ending => EndsComplete
  <2> SUFFICES ASSUME FrontInv, Ending, NEW p \in Reqs, gen[p].pc = "ended"
               PROVE  /\ DOMAIN seen[p] = Indices(p)
                      /\ \A i \in Indices(p) :
                           /\ seen[p][i].finished /\ seen[p][i].toks = Numbers(1, tokens[<<p, i>>])
                           /\ <<p, i>> \notin states
                      /\ p \notin parents
    BY DEF EndsComplete
  <2>1. Kids(p) = {} /\ output[p] = None /\ Whole(p)
    BY DEF Ending
  <2>2. Has(p) = seen[p] /\ output[p] # Dead
    BY <2>1, SlotKinds DEF Has
  <2>3. DOMAIN seen[p] \subseteq Indices(p)
    <3> SUFFICES ASSUME NEW i \in DOMAIN seen[p] PROVE i \in Indices(p)
      OBVIOUS
    <3>1. i \in AllIndices
      BY ByIndexIs DEF FrontInv, Typed
    <3>2. <<p, i>> \in Children /\ <<p, i>>[1] = p /\ <<p, i>>[2] = i /\ i \in Nat
      BY <3>1, ChildIs
    <3>3. Old(<<p, i>>)
      BY <2>2, <3>2 DEF FrontInv, ViewInv, Fresh
    <3>4. i < N(p)
      <4>1. gen[p].next = N(p)
        BY DEF FrontInv, ViewInv, Started
      <4> QED BY <3>2, <3>3, <4>1 DEF Old
    <3> QED BY <3>2, <3>4, ParamsTyped DEF FrontInv
  <2>4. ASSUME NEW i \in Indices(p)
        PROVE  /\ i \in DOMAIN seen[p]
               /\ seen[p][i].finished /\ seen[p][i].toks = Numbers(1, tokens[<<p, i>>])
               /\ <<p, i>> \notin states
    <3>1. i \in DOMAIN Has(p) /\ Has(p)[i].finished
      BY <2>1 DEF Whole
    <3>2. FaithfulTo(p, i)
      BY <2>2 DEF FrontInv, ViewInv, Faithful
    <3>3. <<p, i>> \notin states
      BY <2>1 DEF Kids
    <3> QED BY <2>2, <3>1, <3>2, <3>3 DEF FaithfulTo
  <2>5. p \notin parents
    BY <2>1 DEF FrontInv, ViewInv, Lists
  <2> QED BY <2>3, <2>4, <2>5
<1> QED BY <1>1, EndingAlways, PTL

\* The engine works only on requests that the output processor knows, or whose
\* abort is on the way; what the output processor knows has not ended and was
\* not cancelled.
THEOREM NoOrphansAlways ==
  ASSUME ~Suspends
  PROVE  Spec => []NoOrphans
<1>1. FrontInv /\ Ending => NoOrphans
  <2> SUFFICES ASSUME FrontInv, Ending PROVE NoOrphans
    OBVIOUS
  <2>1. ASSUME NEW c \in states PROVE gen[c[1]].pc \notin {"ended", "cancelled"}
    <3>1. c[1] \in Reqs /\ c \in Kids(c[1])
      BY ChildIs DEF FrontInv, Typed, Kids
    <3> QED BY <3>1 DEF Ending
  <2> DEFINE Of(kind) == UNION {m.reqs : m \in {n \in Range(toEngine) : n.kind = kind}}
  <2>2. ASSUME NEW kind PROVE Of(kind) = Sent(kind)
    <3>1. \A m : m \in Range(toEngine) <=> \E j \in DOMAIN toEngine : m = toEngine[j]
      BY DEF Range
    <3>2. \A c : c \in Of(kind) <=> \E m \in Range(toEngine) : m.kind = kind /\ c \in m.reqs
      OBVIOUS
    <3>3. \A c : c \in Sent(kind) <=> \E j \in DOMAIN toEngine : toEngine[j].kind = kind /\ c \in toEngine[j].reqs
      BY DEF Sent
    <3> HIDE DEF Of
    <3> QED BY <3>1, <3>2, <3>3
  <2>3. Of("add") = Sent("add") /\ Of("abort") = Sent("abort")
    BY <2>2
  <2>4. \/ engineDead \/ Dead \in Range(outputs)
        \/ live \cup Of("add") \subseteq states \cup handler.abort \cup Of("abort")
    BY <2>3 DEF FrontInv, WorkIsWanted
  <2> QED BY <2>1, <2>4 DEF NoOrphans
<1> QED BY <1>1, EndingAlways, PTL
=============================================================================
