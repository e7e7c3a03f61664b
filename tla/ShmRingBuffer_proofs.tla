------------------------- MODULE ShmRingBuffer_proofs -------------------------
(***************************************************************************)
(* The flags of the ring keep its writer and its readers apart, and the    *)
(* ring with its sockets broadcasts in order, for any number of readers,   *)
(* blocks and objects.                                                     *)
(***************************************************************************)
EXTENDS ShmRingBuffer, FiniteSetTheorems, TLAPS

\* What the proofs need of the types of the flags and of the two sides
FlagsTyped == /\ written \in [Chunks -> BOOLEAN]
              /\ readFlag \in [Chunks -> [LocalReaders -> BOOLEAN]]

WriterState == [pc : WriterSteps, idx : Chunks, obj : Int, big : BOOLEAN, flag : Int]

ReaderState == [pc : ReaderSteps, idx : Chunks, flag : BOOLEAN, big : BOOLEAN, obj : Int]

DataTyped == overflow \in [Chunks -> BOOLEAN] /\ data \in [Chunks -> Int]

\* A remote reader never gets to the ring.
RemoteOnSocket ==
  \A i \in AllReaders \ LocalReaders : r[i].pc \in {"connect", "ready", "idle"}

Shapes == /\ FlagsTyped
          /\ DataTyped
          /\ w \in WriterState
          /\ r \in [AllReaders -> ReaderState]
          /\ RemoteOnSocket

\* A block the writer is at work on is marked as not written.
WritingIsMarked == \A c \in Chunks : Writing(c) => ~written[c]

\* A block a reader is at work on is written, and not marked as read by it.
ReadingIsMarked ==
  \A c \in Chunks, i \in LocalReaders : Reading(i, c) => written[c] /\ ~readFlag[c][i]

\* What a reader has seen of its own flag is still so: only the reader sets it.
UnreadStaysUnread ==
  \A i \in LocalReaders : r[i].pc = "written" /\ ~r[i].flag => ~readFlag[r[i].idx][i]

\* NoOverwriteWhileRead is not inductive: it holds because of the two flags.
FlagInv == Shapes /\ WritingIsMarked /\ ReadingIsMarked /\ UnreadStaysUnread

-----------------------------------------------------------------------------
\* The places of the blocks are numbers, and the local readers are readers.
LEMMA RingFacts ==
  /\ 0 \in Chunks
  /\ \A c \in Chunks : NextIdx(c) \in Chunks
  /\ LocalReaders \subseteq AllReaders
<1>1. MaxChunks \in Nat \ {0}
  BY RingAssumption
<1>2. \A c \in Chunks : NextIdx(c) \in Chunks
  BY <1>1 DEF NextIdx, Chunks
<1> QED
  BY <1>1, <1>2 DEF Chunks, AllReaders

\* As many flags as readers are the flags of all readers: acquire_write
\* compares a sum of flags with n_reader.
LEMMA WritableMeansRead ==
  ASSUME NEW c \in Chunks, Writable(c), written[c], NEW i \in LocalReaders
  PROVE  readFlag[c][i]
<1> DEFINE Have == {j \in LocalReaders : readFlag[c][j]}
<1>1. IsFiniteSet(LocalReaders) /\ Cardinality(LocalReaders) = NumReader
  <2>1. NumReader \in Nat /\ NumReader > 0
    BY RingAssumption
  <2> QED
    BY <2>1, FS_Interval DEF LocalReaders
<1>2. Cardinality(Have) = NumReader
  BY DEF Writable
<1>3. Have \in SUBSET LocalReaders
  OBVIOUS
<1>4. LocalReaders = Have
  BY <1>1, <1>2, <1>3, FS_Subset
<1> QED
  BY <1>4

-----------------------------------------------------------------------------
\* The shared memory starts out zero.
LEMMA InitFlagInv == Init => FlagInv
<1> SUFFICES ASSUME Init PROVE FlagInv
  OBVIOUS
<1>1. w \in WriterState /\ r \in [AllReaders -> ReaderState]
  BY RingFacts DEF Init, WriterState, ReaderState, WriterSteps, ReaderSteps, Torn
<1>2. FlagsTyped /\ DataTyped /\ RemoteOnSocket
  BY DEF Init, FlagsTyped, DataTyped, RemoteOnSocket, Torn
<1>3. WritingIsMarked /\ ReadingIsMarked /\ UnreadStaysUnread
  BY RingFacts DEF Init, WritingIsMarked, ReadingIsMarked, UnreadStaysUnread, Writing, Reading
<1> QED
  BY <1>1, <1>2, <1>3 DEF FlagInv, Shapes

-----------------------------------------------------------------------------
(* The writer *)

\* What the steps of the writer assign to its state keeps its type.
LEMMA WriterUpdates ==
  ASSUME NEW x \in WriterState, NEW p \in WriterSteps
  PROVE  /\ \A n \in Int, b \in BOOLEAN :
              [x EXCEPT !.pc = p, !.obj = n, !.big = b] \in WriterState
         /\ \A n \in Int : [x EXCEPT !.pc = p, !.obj = n] \in WriterState
         /\ \A n \in Int : [x EXCEPT !.pc = p, !.flag = n] \in WriterState
         /\ \A c \in Chunks, n \in Int :
              [x EXCEPT !.pc = p, !.idx = c, !.flag = n] \in WriterState
BY DEF WriterState

\* Each step of the writer leaves it in one of its states.
LEMMA WriterTyped ==
  ASSUME FlagInv, Writer \/ WriterTimesOut
  PROVE  w' \in WriterState
<1>0. w \in WriterState
  BY DEF FlagInv, Shapes
<1>1. w.obj + 1 \in Int /\ w.obj - 1 \in Int /\ w.flag + 1 \in Int /\ w.idx \in Chunks
  BY <1>0 DEF WriterState
<1>2. CASE WriterReadyLocal \/ WriterReadyRemote \/ WriterClaims \/ WritePayload
           \/ WriterPublishes \/ WriterSendsRemote
  <2>1. \E p \in WriterSteps : w' = [w EXCEPT !.pc = p]
    BY <1>2 DEF WriterReadyLocal, WriterReadyRemote, WriterClaims, WritePayload,
                WriterPublishes, WriterSendsRemote, WriterSteps
  <2> QED
    BY <1>0, <2>1 DEF WriterState
<1>3. CASE Enqueue
  <2>1. PICK b \in BOOLEAN : w' = [w EXCEPT !.pc = "wait", !.obj = w.obj + 1, !.big = b]
    BY <1>3 DEF Enqueue
  <2>2. "wait" \in WriterSteps
    BY DEF WriterSteps
  <2> QED
    BY <1>0, <1>1, <2>1, <2>2, WriterUpdates
<1>4. CASE WriteHeader
  <2> DEFINE p == IF w.big THEN "flags" ELSE "payload"
  <2>1. p \in WriterSteps
    BY DEF WriterSteps
  <2>2. w' = [w EXCEPT !.pc = p, !.flag = 1]
    BY <1>4 DEF WriteHeader
  <2> HIDE DEF p
  <2>3. \A n \in Int : [w EXCEPT !.pc = p, !.flag = n] \in WriterState
    BY <1>0, <2>1, WriterUpdates
  <2>4. 1 \in Int
    OBVIOUS
  <2>5. [w EXCEPT !.pc = p, !.flag = 1] \in WriterState
    BY <2>3, <2>4, Zenon
  <2> QED
    BY <2>2, <2>5, Zenon
<1>5. CASE ClearFlag
  <2>1. w' = [w EXCEPT !.flag = w.flag + 1]
    BY <1>5 DEF ClearFlag
  <2> QED
    BY <1>0, <1>1, <2>1 DEF WriterState
<1>6. CASE Commit
  <2> DEFINE p == IF w.big THEN "publish" ELSE "remote_send"
  <2>1. p \in WriterSteps /\ NextIdx(w.idx) \in Chunks
    BY <1>1, RingFacts DEF WriterSteps
  <2>2. w' = [w EXCEPT !.pc = p, !.idx = NextIdx(w.idx), !.flag = 0]
    BY <1>6 DEF Commit
  <2> HIDE DEF p
  <2>3. \A n \in Int : [w EXCEPT !.pc = p, !.idx = NextIdx(w.idx), !.flag = n] \in WriterState
    BY <1>0, <2>1, WriterUpdates
  <2>4. 0 \in Int
    OBVIOUS
  <2>5. [w EXCEPT !.pc = p, !.idx = NextIdx(w.idx), !.flag = 0] \in WriterState
    BY <2>3, <2>4, Zenon
  <2> QED
    BY <2>2, <2>5, Zenon
<1>7. CASE WriterTimesOut
  <2>1. w' = [w EXCEPT !.pc = "idle", !.obj = w.obj - 1]
    BY <1>7 DEF WriterTimesOut
  <2>2. "idle" \in WriterSteps
    BY DEF WriterSteps
  <2> QED
    BY <1>0, <1>1, <2>1, <2>2, WriterUpdates
<1> QED
  BY <1>2, <1>3, <1>4, <1>5, <1>6, <1>7 DEF Writer

\* The writer before, between and after its blocks
LEMMA WriterOutside ==
  ASSUME FlagInv, WriterReadyLocal \/ WriterReadyRemote \/ Enqueue \/ WriterTimesOut
                    \/ WriterPublishes \/ WriterSendsRemote
  PROVE  FlagInv'
<1>1. UNCHANGED <<written, readFlag, overflow, data, r>>
  BY DEF WriterReadyLocal, WriterReadyRemote, Enqueue, WriterTimesOut, WriterPublishes,
         WriterSendsRemote, shared
<1>2. w' \in WriterState
  BY WriterTyped DEF Writer
<1>3. w'.pc \in {"remote", "idle", "wait", "remote_send"}
  BY DEF FlagInv, Shapes, WriterState, WriterReadyLocal, WriterReadyRemote, Enqueue,
         WriterTimesOut, WriterPublishes, WriterSendsRemote
<1>4. Shapes'
  BY <1>1, <1>2 DEF FlagInv, Shapes, FlagsTyped, DataTyped, RemoteOnSocket
<1>5. WritingIsMarked' /\ ReadingIsMarked' /\ UnreadStaysUnread'
  BY <1>1, <1>3 DEF FlagInv, WritingIsMarked, ReadingIsMarked, UnreadStaysUnread,
                    Reading, Writing
<1> QED
  BY <1>4, <1>5 DEF FlagInv

\* The block that is claimed is one that no reader is at work on.
LEMMA ClaimKeeps == ASSUME FlagInv, WriterClaims PROVE FlagInv'
<1>1. w.idx \in Chunks /\ Writable(w.idx)
  BY DEF FlagInv, Shapes, WriterState, WriterClaims
<1>2. \A i \in LocalReaders : ~Reading(i, w.idx)
  BY <1>1, WritableMeansRead DEF FlagInv, ReadingIsMarked
<1>3. w' \in WriterState
  BY WriterTyped DEF Writer
<1>4. Shapes'
  BY <1>3 DEF FlagInv, Shapes, FlagsTyped, DataTyped, RemoteOnSocket, WriterClaims
<1>5. /\ \A c \in Chunks : written'[c] = (c # w.idx /\ written[c])
      /\ w'.idx = w.idx
      /\ UNCHANGED <<readFlag, r>>
  BY DEF WriterClaims, FlagInv, Shapes, FlagsTyped, WriterState
<1>6. WritingIsMarked'
  BY <1>5 DEF WritingIsMarked, Writing
<1>7. ReadingIsMarked' /\ UnreadStaysUnread'
  BY <1>2, <1>5 DEF FlagInv, ReadingIsMarked, UnreadStaysUnread, Reading
<1> QED
  BY <1>4, <1>6, <1>7 DEF FlagInv

\* Writing the data touches no flag.
LEMMA DataKeeps == ASSUME FlagInv, WriteHeader \/ WritePayload PROVE FlagInv'
<1>1. w' \in WriterState
  BY WriterTyped DEF Writer
<1>2. /\ UNCHANGED <<written, readFlag, r>>
      /\ w'.idx = w.idx /\ w.pc \in {"header", "payload"}
  BY DEF FlagInv, Shapes, WriterState, WriteHeader, WritePayload
<1>3. DataTyped'
  BY DEF FlagInv, Shapes, DataTyped, WriterState, WriteHeader, WritePayload, Torn
<1>4. Shapes'
  BY <1>1, <1>2, <1>3 DEF FlagInv, Shapes, FlagsTyped, RemoteOnSocket
<1>5. WritingIsMarked' /\ ReadingIsMarked' /\ UnreadStaysUnread'
  BY <1>2 DEF FlagInv, WritingIsMarked, ReadingIsMarked, UnreadStaysUnread, Reading, Writing
<1> QED
  BY <1>4, <1>5 DEF FlagInv

\* Clearing a flag of a block makes nothing read that was not.
LEMMA ClearKeeps == ASSUME FlagInv, ClearFlag PROVE FlagInv'
<1>1. w' \in WriterState
  BY WriterTyped DEF Writer
<1>2. /\ UNCHANGED <<written, overflow, data, r>>
      /\ w'.idx = w.idx /\ w.pc = "flags"
  BY DEF FlagInv, Shapes, WriterState, ClearFlag
<1>3. /\ FlagsTyped'
      /\ \A c \in Chunks, i \in LocalReaders : readFlag'[c][i] => readFlag[c][i]
  BY DEF FlagInv, Shapes, FlagsTyped, ClearFlag
<1>4. Shapes'
  BY <1>1, <1>2, <1>3 DEF FlagInv, Shapes, DataTyped, RemoteOnSocket
<1>5. WritingIsMarked' /\ ReadingIsMarked'
  BY <1>2, <1>3 DEF FlagInv, WritingIsMarked, ReadingIsMarked, Reading, Writing
<1>6. UnreadStaysUnread'
  BY <1>2, <1>3, RingFacts DEF FlagInv, Shapes, ReaderState, UnreadStaysUnread
<1> QED
  BY <1>4, <1>5, <1>6 DEF FlagInv

\* Marking the block as written ends the work on it.
LEMMA CommitKeeps == ASSUME FlagInv, Commit PROVE FlagInv'
<1>1. w' \in WriterState
  BY WriterTyped DEF Writer
<1>2. /\ UNCHANGED <<readFlag, overflow, data, r>>
      /\ w'.pc \in {"publish", "remote_send"}
  BY DEF FlagInv, Shapes, WriterState, Commit
<1>3. FlagsTyped' /\ \A c \in Chunks : written[c] => written'[c]
  BY DEF FlagInv, Shapes, FlagsTyped, Commit
<1>4. Shapes'
  BY <1>1, <1>2, <1>3 DEF FlagInv, Shapes, DataTyped, RemoteOnSocket
<1>5. WritingIsMarked' /\ ReadingIsMarked' /\ UnreadStaysUnread'
  BY <1>2, <1>3 DEF FlagInv, WritingIsMarked, ReadingIsMarked, UnreadStaysUnread,
                    Reading, Writing
<1> QED
  BY <1>4, <1>5 DEF FlagInv

-----------------------------------------------------------------------------
(* The readers *)

Looks(i) == \/ Subscribe(i) \/ ReaderReady(i) \/ ReadReadFlag(i) \/ ReadWritten(i)
            \/ ReadHeader(i) \/ ReadPayload(i) \/ Recv(i)

\* What the steps of a reader assign to its state keeps its type.
LEMMA ReaderUpdates ==
  ASSUME NEW x \in ReaderState, NEW p \in ReaderSteps
  PROVE  /\ \A b \in BOOLEAN : [x EXCEPT !.pc = p, !.flag = b] \in ReaderState
         /\ \A b \in BOOLEAN : [x EXCEPT !.pc = p, !.big = b] \in ReaderState
         /\ \A n \in Int : [x EXCEPT !.pc = p, !.obj = n] \in ReaderState
         /\ \A c \in Chunks, b \in BOOLEAN, n \in Int :
              [x EXCEPT !.pc = p, !.idx = c, !.big = b, !.obj = n] \in ReaderState
BY DEF ReaderState

\* Each step of a reader leaves it in one of its states.
LEMMA ReaderTyped ==
  ASSUME FlagInv, NEW i \in AllReaders, Looks(i) \/ MarkRead(i)
  PROVE  r' \in [AllReaders -> ReaderState]
<1>0. /\ r \in [AllReaders -> ReaderState] /\ r[i] \in ReaderState
      /\ readFlag \in [Chunks -> [LocalReaders -> BOOLEAN]]
      /\ overflow \in [Chunks -> BOOLEAN] /\ data \in [Chunks -> Int]
  BY DEF FlagInv, Shapes, FlagsTyped, DataTyped
<1>1. SUFFICES \E x \in ReaderState : r' = [r EXCEPT ![i] = x]
  BY <1>0
<1>2. r[i].idx \in Chunks
  BY <1>0 DEF ReaderState
<1>3. CASE Subscribe(i) \/ ReaderReady(i) \/ Recv(i)
  <2>1. \E p \in ReaderSteps : r' = [r EXCEPT ![i] = [r[i] EXCEPT !.pc = p]]
    BY <1>3 DEF Subscribe, ReaderReady, Recv, ReaderSteps
  <2> QED
    BY <1>0, <2>1 DEF ReaderState
<1>4. CASE ReadReadFlag(i)
  <2> DEFINE b == readFlag[r[i].idx][i]
  <2>1. b \in BOOLEAN /\ "written" \in ReaderSteps
    BY <1>0, <1>2, <1>4 DEF ReadReadFlag, ReaderSteps
  <2>2. r' = [r EXCEPT ![i] = [r[i] EXCEPT !.pc = "written", !.flag = b]]
    BY <1>4 DEF ReadReadFlag
  <2> HIDE DEF b
  <2> QED
    BY <1>0, <2>1, <2>2, ReaderUpdates
<1>5. CASE ReadWritten(i)
  <2> DEFINE p == IF MayRead(i) THEN "header" ELSE "idle"
  <2>1. p \in ReaderSteps
    BY DEF ReaderSteps
  <2>2. r' = [r EXCEPT ![i] = [r[i] EXCEPT !.pc = p, !.flag = FALSE]]
    BY <1>5 DEF ReadWritten
  <2> HIDE DEF p
  <2> QED
    BY <1>0, <2>1, <2>2, ReaderUpdates
<1>6. CASE ReadHeader(i)
  <2> DEFINE b == overflow[r[i].idx]
             p == IF b THEN "mark" ELSE "payload"
  <2>1. b \in BOOLEAN /\ p \in ReaderSteps
    BY <1>0, <1>2 DEF ReaderSteps
  <2>2. r' = [r EXCEPT ![i] = [r[i] EXCEPT !.pc = p, !.big = b]]
    BY <1>6 DEF ReadHeader
  <2> HIDE DEF b, p
  <2> QED
    BY <1>0, <2>1, <2>2, ReaderUpdates
<1>7. CASE ReadPayload(i)
  <2> DEFINE n == data[r[i].idx]
  <2>1. n \in Int /\ "mark" \in ReaderSteps
    BY <1>0, <1>2 DEF ReaderSteps
  <2>2. r' = [r EXCEPT ![i] = [r[i] EXCEPT !.pc = "mark", !.obj = n]]
    BY <1>7 DEF ReadPayload
  <2> HIDE DEF n
  <2> QED
    BY <1>0, <2>1, <2>2, ReaderUpdates
<1>8. CASE MarkRead(i)
  <2> DEFINE p == IF r[i].big THEN "recv" ELSE "idle"
  <2>1. p \in ReaderSteps /\ NextIdx(r[i].idx) \in Chunks /\ Torn \in Int
    BY <1>2, RingFacts DEF ReaderSteps, Torn
  <2>2. r' = [r EXCEPT ![i] = [r[i] EXCEPT !.pc = p, !.idx = NextIdx(r[i].idx),
                                           !.big = FALSE, !.obj = Torn]]
    BY <1>8 DEF MarkRead
  <2> HIDE DEF p
  <2> QED
    BY <1>0, <2>1, <2>2, ReaderUpdates
<1> QED
  BY <1>3, <1>4, <1>5, <1>6, <1>7, <1>8 DEF Looks

\* Remote readers stay where the ring does not come in.
LEMMA RemoteStays ==
  ASSUME FlagInv, NEW i \in AllReaders, Looks(i) \/ MarkRead(i)
  PROVE  RemoteOnSocket'
<1>0. r \in [AllReaders -> ReaderState] /\ RemoteOnSocket
  BY DEF FlagInv, Shapes
<1>1. \A j \in AllReaders : j # i => r'[j] = r[j]
  BY <1>0 DEF Looks, Subscribe, ReaderReady, ReadReadFlag, ReadWritten, ReadHeader,
              ReadPayload, Recv, MarkRead
<1>2. i \notin LocalReaders => r'[i].pc \in {"connect", "ready", "idle"}
  BY <1>0 DEF RemoteOnSocket, ReaderState, Looks, Subscribe, ReaderReady, ReadReadFlag,
              ReadWritten, ReadHeader, ReadPayload, Recv, MarkRead
<1> QED
  BY <1>0, <1>1, <1>2 DEF RemoteOnSocket

\* A reader that comes upon a block finds it written and not read, although
\* it looks at the two flags at different times.
LEMMA LooksKeeps ==
  ASSUME FlagInv, NEW i \in AllReaders, Looks(i)
  PROVE  FlagInv'
<1> DEFINE AtWork == {"header", "payload", "mark"}
<1>0. r \in [AllReaders -> ReaderState]
  BY DEF FlagInv, Shapes
<1>1. /\ UNCHANGED <<written, readFlag, overflow, data, w>>
      /\ \A j \in AllReaders : j # i => r'[j] = r[j]
      /\ r'[i].idx = r[i].idx
  BY <1>0 DEF ReaderState, Looks, Subscribe, ReaderReady, ReadReadFlag, ReadWritten,
              ReadHeader, ReadPayload, Recv, shared
<1>2. Shapes'
  BY <1>1, ReaderTyped, RemoteStays DEF FlagInv, Shapes, FlagsTyped, DataTyped
<1>3. WritingIsMarked'
  BY <1>1 DEF FlagInv, WritingIsMarked, Writing
<1>4. i \in LocalReaders /\ r'[i].pc \in AtWork =>
        written[r[i].idx] /\ ~readFlag[r[i].idx][i]
  <2>1. CASE r[i].pc \in AtWork
    BY <1>0, <2>1 DEF FlagInv, ReaderState, ReadingIsMarked, Reading
  <2>2. CASE r[i].pc \notin AtWork /\ ReadWritten(i)
    BY <1>0, <2>2 DEF FlagInv, ReaderState, UnreadStaysUnread, ReadWritten, MayRead
  <2>3. CASE r[i].pc \notin AtWork /\ ~ReadWritten(i)
    BY <1>0, <2>3 DEF ReaderState, Looks, Subscribe, ReaderReady, ReadReadFlag, ReadHeader,
                      ReadPayload, Recv
  <2> QED
    BY <2>1, <2>2, <2>3
<1>5. ReadingIsMarked'
  BY <1>1, <1>4, RingFacts DEF FlagInv, ReadingIsMarked, Reading
<1>6. i \in LocalReaders /\ r'[i].pc = "written" => r'[i].flag = readFlag[r[i].idx][i]
  BY <1>0 DEF ReaderState, Looks, Subscribe, ReaderReady, ReadReadFlag, ReadWritten,
              ReadHeader, ReadPayload, Recv
<1>7. UnreadStaysUnread'
  BY <1>1, <1>6, RingFacts DEF FlagInv, UnreadStaysUnread
<1> QED
  BY <1>2, <1>3, <1>5, <1>7 DEF FlagInv

\* A reader marks the block it is done with, for itself alone.
LEMMA MarkKeeps ==
  ASSUME FlagInv, NEW i \in AllReaders, MarkRead(i)
  PROVE  FlagInv'
<1>0. r \in [AllReaders -> ReaderState] /\ FlagsTyped
  BY DEF FlagInv, Shapes
<1>1. /\ UNCHANGED <<written, overflow, data, w>>
      /\ \A j \in AllReaders : j # i => r'[j] = r[j]
      /\ r'[i].pc \in {"recv", "idle"}
  BY <1>0 DEF ReaderState, MarkRead
<1>2. /\ FlagsTyped'
      /\ \A c \in Chunks, j \in LocalReaders : j # i => readFlag'[c][j] = readFlag[c][j]
  BY <1>0 DEF FlagsTyped, MarkRead
<1>3. Shapes'
  BY <1>1, <1>2, ReaderTyped, RemoteStays DEF FlagInv, Shapes, DataTyped
<1>4. WritingIsMarked'
  BY <1>1 DEF FlagInv, WritingIsMarked, Writing
<1>5. ReadingIsMarked'
  BY <1>1, <1>2, RingFacts DEF FlagInv, ReadingIsMarked, Reading
<1>6. UnreadStaysUnread'
  BY <1>0, <1>1, <1>2, RingFacts DEF FlagInv, ReaderState, UnreadStaysUnread
<1> QED
  BY <1>3, <1>4, <1>5, <1>6 DEF FlagInv

-----------------------------------------------------------------------------
\* Every step keeps the flags in order.
LEMMA NextFlagInv == FlagInv /\ [Next]_vars => FlagInv'
<1> SUFFICES ASSUME FlagInv, [Next]_vars PROVE FlagInv'
  OBVIOUS
<1>1. CASE Writer \/ WriterTimesOut
  BY <1>1, WriterOutside, ClaimKeeps, DataKeeps, ClearKeeps, CommitKeeps DEF Writer
<1>2. ASSUME NEW i \in AllReaders, Reader(i) PROVE FlagInv'
  BY <1>2, LooksKeeps, MarkKeeps DEF Reader, Looks
<1>3. CASE UNCHANGED vars
  BY <1>3 DEF vars, shared, FlagInv, Shapes, FlagsTyped, DataTyped, RemoteOnSocket,
              WritingIsMarked, ReadingIsMarked, UnreadStaysUnread, Reading, Writing
<1> QED
  BY <1>1, <1>2, <1>3 DEF Next

\* The writer never touches a block while a reader takes an object out of it,
\* for any number of local readers and blocks: the flag bytes of acquire_write
\* and acquire_read, set in the order of the code, do the work of a lock.
THEOREM NoOverwriteWhileReadAlways == Spec => []NoOverwriteWhileRead
<1>1. FlagInv => NoOverwriteWhileRead
  BY DEF FlagInv, WritingIsMarked, ReadingIsMarked, NoOverwriteWhileRead
<1> QED
  BY <1>1, InitFlagInv, NextFlagInv, PTL DEF Spec

-----------------------------------------------------------------------------
(* The ring implements the broadcast channel.  Objects are numbered, so a    *)
(* reader that has got k objects of a faithful channel has got 1 .. k.       *)

\* Objects a local reader has taken from the ring: one of them may still have
\* to come from the socket.
Dequeued(i) == Len(got[i]) + (IF r[i].pc = "recv" THEN 1 ELSE 0)

\* The block of object k, when n objects are written and idx is the next block
Place(idx, n, k) ==
  IF idx - 1 - (n - k) < 0 THEN idx - 1 - (n - k) + MaxChunks ELSE idx - 1 - (n - k)

AtBlock == w.pc \in {"header", "payload", "flags"}

\* The ring holds the last objects, but not the one being overwritten.
InRing(k) == 1 <= k /\ k <= sent /\ sent - MaxChunks + (IF AtBlock THEN 2 ELSE 1) <= k

Counts ==
  /\ sent \in Nat /\ w.obj \in Nat /\ w.obj <= MaxObjects
  /\ got \in [AllReaders -> Seq(Nat)] /\ socket \in [AllReaders -> Seq(Nat)]
  /\ subscribed \subseteq AllReaders
  /\ w.obj = IF AtBlock \/ w.pc = "wait" THEN sent + 1 ELSE sent
  /\ w.pc \in {"local", "remote"} => sent = 0
  /\ w.pc = "publish" => sent > 0
  /\ sent < MaxChunks => w.idx = sent

\* A block in the ring holds its object, and is marked as read by the readers
\* that took it; blocks that were never written are not marked at all.
BlocksHold ==
  /\ \A k \in Nat : InRing(k) =>
       LET c == Place(w.idx, sent, k)
       IN  /\ written[c]
           /\ \A i \in LocalReaders : readFlag[c][i] <=> Dequeued(i) >= k
           /\ ~overflow[c] => data[c] = k
  /\ \A c \in Chunks : sent <= c => ~written[c] /\ \A i \in LocalReaders : ~readFlag[c][i]

\* What the writer has done to its block so far
BlockInHand ==
  /\ w.pc = "payload" => ~w.big /\ ~overflow[w.idx] /\ w.flag = 1
  /\ w.pc = "flags" => /\ overflow[w.idx] = w.big
                       /\ ~w.big => data[w.idx] = w.obj
                       /\ \A j \in LocalReaders : j < w.flag => ~readFlag[w.idx][j]
  /\ w.pc = "publish" => overflow[Place(w.idx, sent, sent)]

\* No reader is ahead of the writer or a whole ring behind it, and each is at
\* the block of its next object.
ReaderInRing(i) ==
  /\ sent - MaxChunks + (IF AtBlock THEN 1 ELSE 0) <= Dequeued(i) /\ Dequeued(i) <= sent
  /\ r[i].idx = Place(w.idx, sent, Dequeued(i) + 1)
  /\ r[i].pc \in {"header", "payload", "mark"} => Dequeued(i) < sent
  /\ r[i].pc = "payload" => ~overflow[r[i].idx] /\ ~r[i].big
  /\ r[i].pc = "mark" => /\ r[i].big = overflow[r[i].idx]
                         /\ ~r[i].big => r[i].obj = Dequeued(i) + 1

ReadersInRing == \A i \in LocalReaders : ReaderInRing(i)

\* What the writer has sent on the socket, of the objects that go there
Published(i) ==
  IF w.pc = "publish" \/ (w.pc = "remote_send" /\ i \notin LocalReaders)
  THEN sent - 1 ELSE sent

ReadySent(i) == IF i \in LocalReaders THEN w.pc # "local" ELSE w.pc \notin {"local", "remote"}

OverSocket(i, k) ==
  \/ i \notin LocalReaders
  \/ k = Dequeued(i) /\ r[i].pc = "recv"
  \/ k > Dequeued(i) /\ overflow[Place(w.idx, sent, k)]

\* What a reader's subscription still has to deliver: b"READY" and objects
Due(i, k) ==
  \/ k = Ready /\ r[i].pc = "ready" /\ ReadySent(i)
  \/ Len(got[i]) < k /\ k <= Published(i) /\ OverSocket(i, k)

Increasing(s) == \A a, b \in 1 .. Len(s) : a < b => s[a] < s[b]
Holds(s, k) == \E a \in 1 .. Len(s) : s[a] = k

InOrder(i) == Increasing(socket[i]) /\ \A k \in Nat : Holds(socket[i], k) <=> Due(i, k)

SocketsInOrder == \A i \in AllReaders : InOrder(i)

\* A reader that is not connected has no subscription; one that is not ready
\* has got nothing; nobody is ready before the writer.
Connected(i) ==
  /\ i \in subscribed <=> r[i].pc # "connect"
  /\ ReadySent(i) => i \in subscribed
  /\ ~ReadySent(i) => r[i].pc \in {"connect", "ready"}
  /\ r[i].pc \in {"connect", "ready"} => Len(got[i]) = 0

\* What a reader has got is what a reader of the channel has got.
GotInOrder(i) == /\ Len(got[i]) <= Published(i)
                 /\ \A k \in 1 .. Len(got[i]) : got[i][k] = k

ReadersInOrder == \A i \in AllReaders : Connected(i) /\ GotInOrder(i)

RingInv == /\ FlagInv /\ Counts
           /\ BlocksHold /\ BlockInHand
           /\ ReadersInRing /\ SocketsInOrder /\ ReadersInOrder

-----------------------------------------------------------------------------
\* The next block is the one after it, or the first.
LEMMA NextIdxIs ==
  ASSUME NEW c \in Chunks
  PROVE  NextIdx(c) = IF c + 1 = MaxChunks THEN 0 ELSE c + 1
<1>1. MaxChunks \in Nat /\ MaxChunks > 0 /\ c \in Int /\ 0 <= c /\ c < MaxChunks
  BY RingAssumption DEF Chunks
<1>2. CASE c + 1 = MaxChunks
  BY <1>1, <1>2 DEF NextIdx
<1>3. CASE c + 1 # MaxChunks
  BY <1>1, <1>3 DEF NextIdx
<1> QED
  BY <1>2, <1>3

\* Objects lie in the ring one after the other, as many as there are blocks,
\* and stay where they are while the writer goes on.
LEMMA PlaceFacts ==
  ASSUME NEW idx \in Chunks, NEW n \in Nat
  PROVE  /\ Place(idx, n, n + 1) = idx
         /\ Place(idx, n, n + 1 - MaxChunks) = idx
         /\ \A k \in Int : n + 1 - MaxChunks <= k /\ k <= n + 1 => Place(idx, n, k) \in Chunks
         /\ \A k \in Int : n + 1 - MaxChunks < k /\ k <= n => Place(idx, n, k) # idx
         /\ \A j, k \in Int : n + 1 - MaxChunks <= j /\ j <= n /\ n + 1 - MaxChunks <= k /\ k <= n
              => (Place(idx, n, j) = Place(idx, n, k) <=> j = k)
         /\ \A k \in Int : n + 1 - MaxChunks <= k /\ k <= n
              => NextIdx(Place(idx, n, k)) = Place(idx, n, k + 1)
         /\ \A k \in Int : n + 1 - MaxChunks < k /\ k <= n + 1
              => Place(NextIdx(idx), n + 1, k) = Place(idx, n, k)
<1>1. MaxChunks \in Nat /\ MaxChunks > 0 /\ idx \in Int /\ 0 <= idx /\ idx < MaxChunks
  BY RingAssumption DEF Chunks
<1>2. \A k \in Int : n + 1 - MaxChunks <= k /\ k <= n + 1 => Place(idx, n, k) \in Chunks
  BY <1>1 DEF Place, Chunks
<1>3. NextIdx(idx) = IF idx + 1 = MaxChunks THEN 0 ELSE idx + 1
  BY NextIdxIs
<1>4. ASSUME NEW k \in Int, n + 1 - MaxChunks <= k, k <= n
      PROVE  NextIdx(Place(idx, n, k)) = Place(idx, n, k + 1)
  <2>1. Place(idx, n, k) \in Chunks
    BY <1>1, <1>2, <1>4
  <2>2. NextIdx(Place(idx, n, k)) = IF Place(idx, n, k) + 1 = MaxChunks THEN 0
                                    ELSE Place(idx, n, k) + 1
    BY <2>1, NextIdxIs
  <2> QED
    BY <1>1, <1>4, <2>2 DEF Place
<1>5. \A k \in Int : n + 1 - MaxChunks < k /\ k <= n + 1
              => Place(NextIdx(idx), n + 1, k) = Place(idx, n, k)
  BY <1>1, <1>3 DEF Place
<1> QED
  BY <1>1, <1>2, <1>4, <1>5 DEF Place

\* Going on by one leads to the next object's block.
LEMMA PlaceNext ==
  ASSUME NEW idx \in Chunks, NEW n \in Nat, NEW k \in Int, n + 1 - MaxChunks <= k, k <= n
  PROVE  NextIdx(Place(idx, n, k)) = Place(idx, n, k + 1)
  BY PlaceFacts

\* The first of an increasing sequence is the least; the tail holds the others.
LEMMA HeadIsLeast ==
  ASSUME NEW s \in Seq(Nat), s # << >>, Increasing(s)
  PROVE  /\ Head(s) \in Nat /\ Holds(s, Head(s))
         /\ \A k \in Nat : Holds(s, k) => Head(s) <= k
         /\ Tail(s) \in Seq(Nat) /\ Increasing(Tail(s))
         /\ \A k \in Nat : Holds(Tail(s), k) <=> Holds(s, k) /\ k # Head(s)
<1>1. /\ Len(s) \in Nat /\ Len(s) > 0 /\ Head(s) = s[1] /\ s[1] \in Nat
      /\ Tail(s) \in Seq(Nat) /\ Len(Tail(s)) = Len(s) - 1
      /\ \A a \in 1 .. Len(s) - 1 : Tail(s)[a] = s[a + 1]
      /\ \A a \in 1 .. Len(s) : s[a] \in Nat
  OBVIOUS
<1>2. Holds(s, Head(s)) /\ \A k \in Nat : Holds(s, k) => Head(s) <= k
  BY <1>1 DEF Holds, Increasing
<1>3. Increasing(Tail(s))
  <2> SUFFICES ASSUME NEW a \in 1 .. Len(s) - 1, NEW b \in 1 .. Len(s) - 1, a < b
               PROVE  Tail(s)[a] < Tail(s)[b]
    BY <1>1 DEF Increasing
  <2>1. a + 1 \in 1 .. Len(s) /\ b + 1 \in 1 .. Len(s) /\ a + 1 < b + 1
    BY <1>1
  <2> QED
    BY <1>1, <2>1 DEF Increasing
<1>4. ASSUME NEW k \in Nat
      PROVE  Holds(Tail(s), k) <=> Holds(s, k) /\ k # Head(s)
  <2>1. ASSUME Holds(Tail(s), k) PROVE Holds(s, k) /\ k # Head(s)
    <3>1. PICK a \in 1 .. Len(s) - 1 : s[a + 1] = k
      BY <1>1, <2>1 DEF Holds
    <3>2. a + 1 \in 1 .. Len(s) /\ 1 \in 1 .. Len(s) /\ 1 < a + 1
      BY <1>1
    <3>3. s[1] < s[a + 1]
      BY <3>2 DEF Increasing
    <3> QED
      BY <1>1, <3>1, <3>2, <3>3 DEF Holds
  <2>2. ASSUME Holds(s, k), k # Head(s) PROVE Holds(Tail(s), k)
    <3>1. PICK a \in 1 .. Len(s) : s[a] = k
      BY <2>2 DEF Holds
    <3>2. a - 1 \in 1 .. Len(s) - 1 /\ (a - 1) + 1 = a
      BY <1>1, <2>2, <3>1
    <3>3. Tail(s)[a - 1] = k
      BY <1>1, <3>1, <3>2
    <3> QED
      BY <1>1, <3>2, <3>3 DEF Holds
  <2> QED
    BY <2>1, <2>2
<1> QED
  BY <1>1, <1>2, <1>3, <1>4

\* A number greater than all that are there goes to the end.
LEMMA AppendGreatest ==
  ASSUME NEW s \in Seq(Nat), Increasing(s), NEW n \in Nat,
         \A k \in Nat : Holds(s, k) => k < n
  PROVE  /\ Append(s, n) \in Seq(Nat) /\ Increasing(Append(s, n))
         /\ \A k \in Nat : Holds(Append(s, n), k) <=> Holds(s, k) \/ k = n
<1> DEFINE t == Append(s, n)
<1>1. /\ t \in Seq(Nat) /\ Len(t) = Len(s) + 1 /\ Len(s) \in Nat /\ t[Len(s) + 1] = n
      /\ \A a \in 1 .. Len(s) : t[a] = s[a] /\ s[a] \in Nat
  OBVIOUS
<1> HIDE DEF t
<1>2. \A a \in 1 .. Len(s) : s[a] < n
  BY <1>1 DEF Holds
<1>0. \A a \in 1 .. Len(t) : a \in 1 .. Len(s) \/ a = Len(s) + 1
  BY <1>1
<1>3. Increasing(t)
  <2> SUFFICES ASSUME NEW a \in 1 .. Len(t), NEW b \in 1 .. Len(t), a < b
               PROVE  t[a] < t[b]
    BY DEF Increasing
  <2>1. a \in 1 .. Len(s)
    BY <1>1
  <2>2. CASE b \in 1 .. Len(s)
    BY <1>1, <2>1, <2>2 DEF Increasing
  <2>3. CASE b = Len(s) + 1
    BY <1>1, <1>2, <2>1, <2>3
  <2> QED
    BY <1>0, <2>2, <2>3
<1>4. ASSUME NEW k \in Nat PROVE Holds(t, k) <=> Holds(s, k) \/ k = n
  <2>1. Holds(t, k) => Holds(s, k) \/ k = n
    BY <1>0, <1>1 DEF Holds
  <2>2. Holds(s, k) => Holds(t, k)
    BY <1>1 DEF Holds
  <2>3. k = n => Holds(t, k)
    BY <1>1 DEF Holds
  <2> QED
    BY <2>1, <2>2, <2>3
<1> QED
  BY <1>1, <1>3, <1>4 DEF t
-----------------------------------------------------------------------------
(* Each step keeps what the ring and the sockets hold. *)

\* What the steps below need to know of the kinds of things involved
LEMMA RingTypes ==
  ASSUME FlagInv, Counts
  PROVE  /\ MaxChunks \in Nat /\ MaxChunks > 0 /\ NumReader \in Nat /\ NumReader > 0
         /\ w \in WriterState /\ w.idx \in Chunks /\ w.pc \in WriterSteps /\ sent \in Nat
         /\ r \in [AllReaders -> ReaderState] /\ LocalReaders \subseteq AllReaders
         /\ \A i \in AllReaders : /\ Len(got[i]) \in Nat /\ got[i] \in Seq(Nat)
                                  /\ socket[i] \in Seq(Nat) /\ Dequeued(i) \in Nat
                                  /\ r[i].pc \in ReaderSteps /\ r[i] \in ReaderState
                                  /\ Published(i) \in Int /\ Published(i) <= sent
<1>1. /\ w \in WriterState /\ r \in [AllReaders -> ReaderState]
      /\ sent \in Nat /\ got \in [AllReaders -> Seq(Nat)] /\ socket \in [AllReaders -> Seq(Nat)]
  BY DEF FlagInv, Shapes, Counts
<1>2. \A i \in AllReaders : /\ Len(got[i]) \in Nat /\ got[i] \in Seq(Nat) /\ socket[i] \in Seq(Nat)
                            /\ r[i] \in ReaderState
  BY <1>1
<1>3. \A i \in AllReaders : Dequeued(i) \in Nat /\ Published(i) \in Int /\ Published(i) <= sent
  BY <1>1, <1>2 DEF Dequeued, Published
<1> QED
  BY <1>1, <1>2, <1>3, RingAssumption, RingFacts DEF WriterState, ReaderState

\* The shared memory starts out zero and the sockets empty.
LEMMA InitRingInv == Init => RingInv
<1> SUFFICES ASSUME Init PROVE RingInv
  OBVIOUS
<1>0. FlagInv /\ LocalReaders \subseteq AllReaders /\ MaxChunks \in Nat /\ MaxChunks > 0
  BY InitFlagInv, RingFacts, RingAssumption
<1>1. Counts
  BY RingAssumption DEF Init, Counts, AtBlock
<1>2. BlocksHold /\ BlockInHand
  BY DEF Init, BlocksHold, BlockInHand, InRing
<1>3. ReadersInRing
  <2> SUFFICES ASSUME NEW i \in LocalReaders PROVE ReaderInRing(i)
    BY DEF ReadersInRing
  <2>0. got[i] = << >> /\ r[i].idx = 0 /\ r[i].pc = "connect"
    BY <1>0 DEF Init
  <2>1. Dequeued(i) = 0
    BY <2>0 DEF Dequeued
  <2>2. sent = 0 /\ w.idx = 0 /\ ~AtBlock
    BY DEF Init, AtBlock
  <2>3. Place(w.idx, sent, Dequeued(i) + 1) = 0
    BY <2>1, <2>2 DEF Place
  <2>4. sent - MaxChunks + (IF AtBlock THEN 1 ELSE 0) <= Dequeued(i) /\ Dequeued(i) <= sent
    BY <1>0, <2>1, <2>2
  <2> QED
    BY <2>0, <2>3, <2>4 DEF ReaderInRing
<1>4. SocketsInOrder
  BY DEF Init, SocketsInOrder, InOrder, Increasing, Holds, Due, Published
<1>5. ReadersInOrder
  BY DEF Init, ReadersInOrder, Connected, GotInOrder, ReadySent, Published
<1> QED
  BY <1>0, <1>1, <1>2, <1>3, <1>4, <1>5 DEF RingInv

\* The writer before, between and after its blocks touches the ring no more
\* than the readers' view of it.
LEMMA RingUntouched ==
  ASSUME RingInv, UNCHANGED <<written, readFlag, overflow, data, r, got, sent>>,
         w'.idx = w.idx, ~AtBlock, ~AtBlock', w'.pc # "publish"
  PROVE  BlocksHold' /\ BlockInHand' /\ ReadersInRing'
<1>1. BlocksHold'
  BY DEF RingInv, BlocksHold, InRing, Dequeued
<1>2. BlockInHand'
  BY DEF BlockInHand, AtBlock
<1>3. ReadersInRing'
  BY DEF RingInv, ReadersInRing, ReaderInRing, Dequeued
<1> QED
  BY <1>1, <1>2, <1>3

\* b"READY" is the first thing on the sockets of the readers it goes to.
LEMMA ReadyKeeps ==
  ASSUME RingInv, WriterReadyLocal \/ WriterReadyRemote
  PROVE  RingInv'
<1> DEFINE mine == IF WriterReadyLocal THEN LocalReaders ELSE RemoteReaders
<1>0. FlagInv' /\ FlagInv /\ Counts
  BY WriterOutside DEF RingInv
<1>1. /\ UNCHANGED <<written, readFlag, overflow, data, subscribed, r, got, sent>>
      /\ w.pc \in {"local", "remote"} /\ w'.pc \in {"remote", "idle"}
      /\ w'.idx = w.idx /\ w'.obj = w.obj /\ sent = 0
  BY <1>0, RingTypes DEF WriterReadyLocal, WriterReadyRemote, shared, WriterState, Counts
<1>2. BlocksHold' /\ BlockInHand' /\ ReadersInRing'
  BY <1>1, RingUntouched DEF AtBlock
<1>3. \A i \in AllReaders : /\ ReadySent(i)' <=> ReadySent(i) \/ i \in mine
                            /\ i \in mine => i \in subscribed /\ ~ReadySent(i)
                            /\ Published(i) = 0 /\ Published(i)' = 0
  <2>1. CASE WriterReadyLocal
    BY <2>1, <1>0, <1>1, RingTypes DEF WriterReadyLocal, AllSubscribed, ReadySent, Published,
                                       WriterState
  <2>2. CASE WriterReadyRemote /\ ~WriterReadyLocal
    <3>1. \A i \in AllReaders : i \in RemoteReaders <=> i \notin LocalReaders
      BY RingAssumption DEF AllReaders, LocalReaders
    <3> QED
      BY <2>2, <3>1, <1>0, <1>1, RingTypes DEF WriterReadyRemote, AllSubscribed, ReadySent,
                                               Published, WriterState
  <2> QED
    BY <2>1, <2>2
<1>4. \A i \in AllReaders : socket'[i] = IF i \in mine THEN Append(socket[i], Ready) ELSE socket[i]
  BY <1>3 DEF WriterReadyLocal, WriterReadyRemote, Publish
<1>5. socket' \in [AllReaders -> Seq(Nat)]
  <2>1. \A i \in AllReaders : (IF i \in mine \cap subscribed THEN Append(socket[i], Ready)
                               ELSE socket[i]) \in Seq(Nat)
    BY <1>0, RingTypes DEF Ready
  <2>2. socket' = [i \in AllReaders |-> IF i \in mine \cap subscribed
                                        THEN Append(socket[i], Ready) ELSE socket[i]]
    BY DEF WriterReadyLocal, WriterReadyRemote, Publish
  <2> QED
    BY <2>1, <2>2
<1>6. Counts'
  BY <1>0, <1>1, <1>5 DEF Counts, AtBlock
<1> HIDE DEF mine
<1>7. ASSUME NEW i \in AllReaders
      PROVE  InOrder(i)' /\ Connected(i)' /\ GotInOrder(i)'
  <2>0. Connected(i) /\ GotInOrder(i) /\ InOrder(i)
    BY DEF RingInv, ReadersInOrder, SocketsInOrder
  <2>1. Len(got[i]) \in Nat /\ socket[i] \in Seq(Nat)
    BY <1>0, RingTypes
  <2>2. \A k \in Nat : Due(i, k) <=> k = Ready /\ r[i].pc = "ready" /\ ReadySent(i)
    BY <1>3, <2>1 DEF Due
  <2>3. \A k \in Nat : Due(i, k)' <=> k = Ready /\ r[i].pc = "ready" /\ ReadySent(i)'
    BY <1>1, <1>3, <2>1 DEF Due
  <2>4. CASE i \in mine
    <3>1. r[i].pc = "ready" /\ ~ReadySent(i) /\ ReadySent(i)'
      BY <1>3, <2>0, <2>4 DEF Connected
    <3>2. \A k \in Nat : ~Holds(socket[i], k)
      BY <2>0, <2>2, <3>1 DEF InOrder
    <3>3. Increasing(socket[i]) /\ Ready \in Nat
      BY <2>0 DEF InOrder, Ready
    <3>4. /\ Increasing(socket'[i])
          /\ \A k \in Nat : Holds(socket'[i], k) <=> k = Ready
      BY <1>4, <2>1, <2>4, <3>2, <3>3, AppendGreatest
    <3> QED
      BY <1>1, <1>3, <2>0, <2>3, <3>1, <3>4 DEF InOrder, Connected, GotInOrder
  <2>5. CASE i \notin mine
    BY <1>1, <1>3, <1>4, <2>0, <2>2, <2>3, <2>5 DEF InOrder, Connected, GotInOrder
  <2> QED
    BY <2>4, <2>5
<1> QED
  BY <1>0, <1>2, <1>6, <1>7 DEF RingInv, SocketsInOrder, ReadersInOrder

\* An object that is about to be written, or is given up again, is nowhere.
LEMMA EnqueueKeeps == ASSUME RingInv, Enqueue \/ WriterTimesOut PROVE RingInv'
<1>0. FlagInv' /\ FlagInv /\ Counts
  BY WriterOutside DEF RingInv
<1>1. /\ UNCHANGED <<written, readFlag, overflow, data, socket, subscribed, r, got, sent>>
      /\ w.pc \in {"idle", "wait"} /\ w'.pc \in {"idle", "wait"} /\ w'.pc # w.pc
      /\ w'.idx = w.idx
      /\ w'.obj = IF w.pc = "idle" THEN w.obj + 1 ELSE w.obj - 1
      /\ w.pc = "idle" => w.obj < MaxObjects
  BY <1>0, RingTypes DEF Enqueue, WriterTimesOut, shared, WriterState
<1>2. BlocksHold' /\ BlockInHand' /\ ReadersInRing'
  BY <1>1, RingUntouched DEF AtBlock
<1>3. Counts'
  BY <1>0, <1>1, RingTypes, RingAssumption DEF Counts, AtBlock
<1>4. \A i \in AllReaders : ReadySent(i)' = ReadySent(i) /\ Published(i)' = Published(i)
  BY <1>1 DEF ReadySent, Published
<1>5. SocketsInOrder'
  BY <1>1, <1>4 DEF RingInv, SocketsInOrder, InOrder, Due, OverSocket, Dequeued
<1>6. ReadersInOrder'
  BY <1>1, <1>4 DEF RingInv, ReadersInOrder, Connected, GotInOrder
<1> QED
  BY <1>0, <1>2, <1>3, <1>5, <1>6 DEF RingInv

-----------------------------------------------------------------------------
(* The writer at its block *)

\* Nothing that happens at the block in hand concerns a reader, because all
\* are past it.
LEMMA AtBlockKeeps ==
  ASSUME RingInv, FlagInv', AtBlock',
         UNCHANGED <<socket, subscribed, r, got, sent>>,
         w'.idx = w.idx, w'.obj = w.obj, w.obj = sent + 1,
         w.pc \in {"wait", "header", "payload", "flags"},
         \A i \in LocalReaders : sent + 1 - MaxChunks <= Dequeued(i),
         \A c \in Chunks : c # w.idx =>
           /\ written'[c] = written[c] /\ readFlag'[c] = readFlag[c]
           /\ overflow'[c] = overflow[c] /\ data'[c] = data[c],
         ~written'[w.idx],
         \A i \in LocalReaders : readFlag'[w.idx][i] => readFlag[w.idx][i],
         BlockInHand'
  PROVE  RingInv'
<1>0. FlagInv /\ Counts
  BY DEF RingInv
<1>1. MaxChunks \in Nat /\ MaxChunks > 0 /\ w.idx \in Chunks /\ sent \in Nat
  BY <1>0, RingTypes
<1>2. ASSUME NEW k \in Int, sent + 1 - MaxChunks < k, k <= sent
      PROVE  Place(w.idx, sent, k) \in Chunks /\ Place(w.idx, sent, k) # w.idx
  BY <1>1, <1>2, PlaceFacts
<1>3. UNCHANGED <<w.idx, sent>> /\ \A i \in LocalReaders : Dequeued(i)' = Dequeued(i)
  BY DEF Dequeued
<1>4. BlocksHold'
  <2>1. ASSUME NEW k \in Nat, InRing(k)'
        PROVE  InRing(k) /\ sent + 1 - MaxChunks < k /\ k <= sent
    BY <1>1, <2>1 DEF InRing
  <2>2. ASSUME NEW c \in Chunks, sent <= c
        PROVE  ~written'[c] /\ \A i \in LocalReaders : ~readFlag'[c][i]
    BY <2>2 DEF RingInv, BlocksHold
  <2> QED
    BY <1>2, <1>3, <2>1, <2>2 DEF RingInv, BlocksHold
<1>5. ReadersInRing'
  <2> SUFFICES ASSUME NEW i \in LocalReaders PROVE ReaderInRing(i)'
    BY DEF ReadersInRing
  <2>1. ReaderInRing(i) /\ Dequeued(i) \in Nat /\ sent + 1 - MaxChunks <= Dequeued(i)
    BY <1>0, RingTypes DEF RingInv, ReadersInRing
  <2>2. Dequeued(i) < sent => r[i].idx \in Chunks /\ r[i].idx # w.idx
    BY <1>1, <1>2, <2>1 DEF ReaderInRing
  <2> QED
    BY <1>1, <1>3, <2>1, <2>2 DEF ReaderInRing
<1>6. Counts'
  BY <1>0 DEF Counts, AtBlock
<1>7. \A i \in AllReaders : /\ ReadySent(i)' = ReadySent(i) /\ ReadySent(i)
                            /\ Published(i)' = Published(i) /\ Published(i) = sent
  BY DEF ReadySent, Published, AtBlock
<1>8. SocketsInOrder'
  <2> SUFFICES ASSUME NEW i \in AllReaders PROVE InOrder(i)'
    BY DEF SocketsInOrder
  <2>1. ASSUME NEW k \in Nat PROVE Due(i, k)' <=> Due(i, k)
    <3>1. CASE i \notin LocalReaders
      BY <1>7, <3>1 DEF Due, OverSocket
    <3>2. CASE i \in LocalReaders
      <4>1. ReaderInRing(i) /\ Dequeued(i) \in Nat /\ sent + 1 - MaxChunks <= Dequeued(i)
        BY <1>0, <3>2, RingTypes DEF RingInv, ReadersInRing
      <4>2. k > Dequeued(i) /\ k <= sent =>
              overflow'[Place(w.idx, sent, k)] = overflow[Place(w.idx, sent, k)]
        BY <1>1, <1>2, <4>1
      <4> QED
        BY <1>3, <1>7, <3>2, <4>2 DEF Due, OverSocket
    <3> QED
      BY <3>1, <3>2
  <2> QED
    BY <2>1 DEF RingInv, SocketsInOrder, InOrder
<1>9. ReadersInOrder'
  BY <1>7 DEF RingInv, ReadersInOrder, Connected, GotInOrder
<1> QED
  BY <1>4, <1>5, <1>6, <1>8, <1>9 DEF RingInv

\* acquire_write waits until every reader has taken what is in the block: the
\* object as many numbers back as there are blocks.
LEMMA ClaimRing == ASSUME RingInv, WriterClaims PROVE RingInv'
<1>0. FlagInv' /\ FlagInv /\ Counts
  BY ClaimKeeps DEF RingInv
<1>1. /\ MaxChunks \in Nat /\ MaxChunks > 0 /\ w.idx \in Chunks /\ sent \in Nat
      /\ w.pc = "wait" /\ w \in WriterState /\ written \in [Chunks -> BOOLEAN]
  BY <1>0, RingTypes DEF WriterClaims, FlagInv, Shapes, FlagsTyped
<1>2. /\ UNCHANGED <<readFlag, overflow, data, socket, subscribed, r, got, sent>>
      /\ w'.pc = "header" /\ w'.idx = w.idx /\ w'.obj = w.obj
      /\ \A c \in Chunks : written'[c] = (c # w.idx /\ written[c])
  BY <1>1 DEF WriterClaims, WriterState
<1>3. ASSUME NEW i \in LocalReaders PROVE sent + 1 - MaxChunks <= Dequeued(i)
  <2>1. Dequeued(i) \in Nat
    BY <1>0, RingTypes
  <2>2. CASE sent < MaxChunks
    BY <1>1, <2>1, <2>2
  <2>3. CASE sent >= MaxChunks
    <3> DEFINE k == sent + 1 - MaxChunks
    <3>1. k \in Nat /\ InRing(k) /\ Place(w.idx, sent, k) = w.idx
      BY <1>1, <2>3, PlaceFacts DEF InRing, AtBlock
    <3>2. written[w.idx] /\ (readFlag[w.idx][i] <=> Dequeued(i) >= k)
      BY <3>1 DEF RingInv, BlocksHold
    <3>3. readFlag[w.idx][i]
      BY <1>1, <3>2, WritableMeansRead DEF WriterClaims
    <3> QED
      BY <3>2, <3>3
  <2> QED
    BY <1>1, <2>2, <2>3
<1>4. w.obj = sent + 1
  BY <1>0, <1>1 DEF Counts
<1>5. BlockInHand'
  BY <1>2 DEF BlockInHand
<1> QED
  BY <1>0, <1>1, <1>2, <1>3, <1>4, <1>5, AtBlockKeeps DEF AtBlock

\* The data is written, or the flags cleared, with the block in hand.
LEMMA WriteRing == ASSUME RingInv, WriteHeader \/ WritePayload \/ ClearFlag PROVE RingInv'
<1>0. FlagInv' /\ FlagInv /\ Counts
  BY DataKeeps, ClearKeeps DEF RingInv
<1>1. /\ w.idx \in Chunks /\ w \in WriterState /\ w.pc \in {"header", "payload", "flags"}
      /\ overflow \in [Chunks -> BOOLEAN] /\ data \in [Chunks -> Int]
      /\ readFlag \in [Chunks -> [LocalReaders -> BOOLEAN]]
  BY <1>0, RingTypes DEF WriteHeader, WritePayload, ClearFlag, FlagInv, Shapes, FlagsTyped,
                         DataTyped
<1>2. AtBlock /\ w.obj = sent + 1 /\ ~written[w.idx]
  BY <1>0, <1>1 DEF AtBlock, Counts, FlagInv, WritingIsMarked, Writing
<1>3. /\ UNCHANGED <<written, socket, subscribed, r, got, sent>>
      /\ w'.idx = w.idx /\ w'.obj = w.obj /\ AtBlock' /\ w'.big = w.big
  BY <1>1 DEF WriteHeader, WritePayload, ClearFlag, WriterState, AtBlock
<1>4. \A i \in LocalReaders : sent + 1 - MaxChunks <= Dequeued(i)
  BY <1>0, <1>2, RingTypes DEF RingInv, ReadersInRing, ReaderInRing
<1>5. \A c \in Chunks : c # w.idx => /\ readFlag'[c] = readFlag[c]
                                     /\ overflow'[c] = overflow[c] /\ data'[c] = data[c]
  BY <1>1 DEF WriteHeader, WritePayload, ClearFlag
<1>6. \A i \in LocalReaders : readFlag'[w.idx][i] => readFlag[w.idx][i]
  BY <1>1 DEF WriteHeader, WritePayload, ClearFlag
<1>7. BlockInHand'
  <2>1. CASE WriteHeader
    <3>1. /\ overflow'[w.idx] = w.big /\ (w.big \/ w'.pc = "payload") /\ w'.flag = 1
          /\ w'.pc = "flags" => w'.flag = 1 /\ w.big
          /\ w'.pc \in {"payload", "flags"}
      BY <1>1, <2>1 DEF WriteHeader, WriterState
    <3>2. w.big => w'.pc = "flags"
      BY <1>1, <2>1 DEF WriteHeader, WriterState
    <3>3. \A j \in LocalReaders : ~(j < 1)
      BY DEF LocalReaders
    <3> QED
      BY <1>3, <3>1, <3>2, <3>3 DEF BlockInHand
  <2>2. CASE WritePayload
    <3>0. ~w.big /\ ~overflow[w.idx] /\ w.flag = 1
      BY <2>2 DEF WritePayload, RingInv, BlockInHand
    <3>1. /\ overflow' = overflow /\ data'[w.idx] = w.obj /\ w'.pc = "flags"
          /\ w.big \in BOOLEAN /\ overflow[w.idx] \in BOOLEAN
      BY <1>1, <2>2 DEF WritePayload, WriterState
    <3>2. \A j \in LocalReaders : ~(j < 1)
      BY DEF LocalReaders
    <3>3. w'.flag = w.flag
      BY <1>1, <2>2 DEF WritePayload, WriterState
    <3>4. overflow'[w.idx] = FALSE /\ w.big = FALSE
      BY <3>0, <3>1
    <3>5. /\ w'.idx = w.idx /\ w'.big = FALSE /\ w'.obj = w.obj /\ w'.flag = 1
          /\ w'.pc = "flags" /\ overflow'[w.idx] = FALSE /\ data'[w.idx] = w.obj
      BY <1>3, <3>0, <3>1, <3>3, <3>4
    <3>6. \A j \in LocalReaders : ~(j < w'.flag)
      BY <3>2, <3>5
    <3> QED
      BY <3>5, <3>6 DEF BlockInHand
  <2>3. CASE ClearFlag
    <3>1. /\ UNCHANGED <<overflow, data>> /\ w.pc = "flags" /\ w'.pc = "flags"
          /\ w'.flag = w.flag + 1 /\ w.flag \in Int
      BY <1>1, <2>3 DEF ClearFlag, WriterState
    <3>3. ASSUME NEW j \in LocalReaders, readFlag'[w.idx][j]
          PROVE  j # w.flag /\ readFlag[w.idx][j]
      BY <1>1, <2>3, <3>3 DEF ClearFlag
    <3>2. \A j \in LocalReaders : j < w.flag + 1 => j < w.flag \/ j = w.flag
      BY <3>1 DEF LocalReaders
    <3> QED
      BY <1>3, <3>1, <3>2, <3>3 DEF RingInv, BlockInHand
  <2> QED
    BY <2>1, <2>2, <2>3
<1> QED
  BY <1>0, <1>1, <1>2, <1>3, <1>4, <1>5, <1>6, <1>7, AtBlockKeeps

\* Marking the block as written puts the object into the ring for everybody,
\* and makes room for no other: all are past the one that was there.
LEMMA CommitRing == ASSUME RingInv, Commit PROVE RingInv'
<1>0. FlagInv' /\ FlagInv /\ Counts
  BY CommitKeeps DEF RingInv
<1>1. /\ MaxChunks \in Nat /\ MaxChunks > 0 /\ w.idx \in Chunks /\ sent \in Nat
      /\ w \in WriterState /\ w.pc = "flags" /\ AtBlock /\ w.obj = sent + 1
      /\ NumReader \in Nat /\ w.flag \in Int /\ written \in [Chunks -> BOOLEAN]
      /\ w.big \in BOOLEAN
  BY <1>0, RingTypes DEF Commit, AtBlock, Counts, WriterState, FlagInv, Shapes, FlagsTyped
<1>2. /\ UNCHANGED <<readFlag, overflow, data, socket, subscribed, r, got>>
      /\ w'.pc = (IF w.big THEN "publish" ELSE "remote_send")
      /\ w'.idx = NextIdx(w.idx) /\ w'.obj = w.obj /\ w'.big = w.big /\ sent' = sent + 1
      /\ \A c \in Chunks : written'[c] = (c = w.idx \/ written[c])
  BY <1>1 DEF Commit, WriterState
<1>3. ~AtBlock'
  BY <1>2 DEF AtBlock
<1>4. /\ \A i \in LocalReaders : ~readFlag[w.idx][i]
      /\ overflow[w.idx] = w.big
      /\ ~w.big => data[w.idx] = sent + 1
  <2>1. \A i \in LocalReaders : i < w.flag
    BY <1>1 DEF Commit, FlagsCleared, LocalReaders
  <2> QED
    BY <1>1, <2>1 DEF RingInv, BlockInHand
<1>5. /\ Place(w'.idx, sent', sent + 1) = w.idx
      /\ \A k \in Int : sent + 1 - MaxChunks < k /\ k <= sent + 1
           => Place(w'.idx, sent', k) = Place(w.idx, sent, k)
      /\ Place(w'.idx, sent', sent + 2) = w'.idx
      /\ \A k \in Int : sent + 1 - MaxChunks < k /\ k <= sent => Place(w.idx, sent, k) # w.idx
  <2>1. w'.idx \in Chunks /\ sent' \in Nat /\ sent + 1 + 1 = sent + 2
    BY <1>1, <1>2, RingFacts
  <2>2. Place(w.idx, sent, sent + 1) = w.idx
    BY <1>1, PlaceFacts
  <2>3. \A k \in Int : sent + 1 - MaxChunks < k /\ k <= sent + 1
           => Place(w'.idx, sent', k) = Place(w.idx, sent, k)
    BY <1>1, <1>2, PlaceFacts
  <2>4. Place(w'.idx, sent', sent + 1) = w.idx
    BY <1>1, <2>2, <2>3
  <2>5. Place(w'.idx, sent', sent' + 1) = w'.idx
    BY <2>1, PlaceFacts
  <2>6. sent' + 1 = sent + 2
    BY <1>1, <1>2
  <2>7. Place(w'.idx, sent', sent + 2) = w'.idx
    BY <2>5, <2>6
  <2>8. \A k \in Int : sent + 1 - MaxChunks < k /\ k <= sent => Place(w.idx, sent, k) # w.idx
    BY <1>1, PlaceFacts
  <2> QED
    BY <2>3, <2>4, <2>7, <2>8
<1>6. \A i \in LocalReaders : /\ Dequeued(i)' = Dequeued(i) /\ Dequeued(i) \in Nat
                              /\ sent + 1 - MaxChunks <= Dequeued(i) /\ Dequeued(i) <= sent
  <2> SUFFICES ASSUME NEW i \in LocalReaders
               PROVE  /\ Dequeued(i)' = Dequeued(i) /\ Dequeued(i) \in Nat
                      /\ sent + 1 - MaxChunks <= Dequeued(i) /\ Dequeued(i) <= sent
    OBVIOUS
  <2>1. Dequeued(i)' = Dequeued(i)
    BY <1>2 DEF Dequeued
  <2>2. Dequeued(i) \in Nat
    BY <1>0, RingTypes
  <2>3. sent - MaxChunks + 1 <= Dequeued(i) /\ Dequeued(i) <= sent
    BY <1>1 DEF RingInv, ReadersInRing, ReaderInRing
  <2> QED
    BY <1>1, <2>1, <2>2, <2>3
<1>7. Counts'
  <2>1. sent' < MaxChunks => w'.idx = sent'
    <3>1. sent < MaxChunks => w.idx = sent
      BY <1>0 DEF Counts
    <3> QED
      BY <1>1, <1>2, <3>1, NextIdxIs
  <2> QED
    BY <1>0, <1>1, <1>2, <1>3, <2>1 DEF Counts, AtBlock
<1>8. BlocksHold'
  <2>1. ASSUME NEW k \in Nat, InRing(k)'
        PROVE  LET c == Place(w'.idx, sent', k)
               IN  /\ written'[c]
                   /\ \A i \in LocalReaders : readFlag'[c][i] <=> Dequeued(i)' >= k
                   /\ ~overflow'[c] => data'[c] = k
    <3>1. 1 <= k /\ k <= sent + 1 /\ sent + 1 - MaxChunks < k
      BY <1>1, <1>2, <1>3, <2>1 DEF InRing
    <3>2. CASE k = sent + 1
      <4>1. Place(w'.idx, sent', k) = w.idx /\ written'[w.idx]
        BY <1>1, <1>2, <1>5, <3>2
      <4>2. \A i \in LocalReaders : ~(Dequeued(i)' >= k)
        BY <1>1, <1>6, <3>2
      <4>3. \A i \in LocalReaders : ~readFlag'[w.idx][i]
        BY <1>2, <1>4
      <4>4. ~overflow'[w.idx] => data'[w.idx] = k
        BY <1>1, <1>2, <1>4, <3>2
      <4> QED
        BY <4>1, <4>2, <4>3, <4>4
    <3>3. CASE k # sent + 1
      <4>1. InRing(k) /\ k <= sent
        BY <1>1, <3>1, <3>3 DEF InRing
      <4>2. Place(w'.idx, sent', k) = Place(w.idx, sent, k) /\ Place(w.idx, sent, k) \in Chunks
        BY <1>1, <1>5, <3>1, PlaceFacts
      <4> QED
        <5> DEFINE c == Place(w.idx, sent, k)
        <5>1. /\ written[c]
              /\ \A i \in LocalReaders : readFlag[c][i] <=> Dequeued(i) >= k
              /\ ~overflow[c] => data[c] = k
          BY <4>1 DEF RingInv, BlocksHold
        <5>2. written'[c]
          BY <1>2, <4>2, <5>1
        <5> HIDE DEF c
        <5> QED
          BY <1>2, <1>6, <4>2, <5>1, <5>2 DEF c
    <3> QED
      BY <3>2, <3>3
  <2>2. ASSUME NEW c \in Chunks, sent' <= c
        PROVE  ~written'[c] /\ \A i \in LocalReaders : ~readFlag'[c][i]
    <3>1. c # w.idx /\ sent <= c
      BY <1>0, <1>1, <1>2, <2>2 DEF Counts, Chunks
    <3> QED
      BY <1>2, <3>1 DEF RingInv, BlocksHold
  <2> QED
    BY <2>1, <2>2 DEF BlocksHold
<1>9. BlockInHand'
  BY <1>1, <1>2, <1>4, <1>5 DEF BlockInHand
<1>10. ReadersInRing'
  <2> SUFFICES ASSUME NEW i \in LocalReaders PROVE ReaderInRing(i)'
    BY DEF ReadersInRing
  <2>1. ReaderInRing(i)
    BY DEF RingInv, ReadersInRing
  <2>2. Place(w'.idx, sent', Dequeued(i) + 1) = Place(w.idx, sent, Dequeued(i) + 1)
    BY <1>1, <1>5, <1>6
  <2> QED
    BY <1>1, <1>2, <1>3, <1>6, <2>1, <2>2 DEF ReaderInRing
<1>11. \A i \in AllReaders :
         /\ ReadySent(i)' = ReadySent(i) /\ ReadySent(i) /\ Published(i) = sent
         /\ Published(i)' = IF i \in LocalReaders /\ ~w.big THEN sent + 1 ELSE sent
  BY <1>1, <1>2 DEF ReadySent, Published
<1>12. SocketsInOrder'
  <2> SUFFICES ASSUME NEW i \in AllReaders PROVE InOrder(i)'
    BY DEF SocketsInOrder
  <2>0. Len(got[i]) \in Nat
    BY <1>0, RingTypes
  <2>1. ASSUME NEW k \in Nat PROVE Due(i, k)' <=> Due(i, k)
    <3>1. CASE i \notin LocalReaders
      BY <1>2, <1>11, <3>1 DEF Due, OverSocket
    <3>2. CASE i \in LocalReaders
      <4>1. k > Dequeued(i) /\ k <= sent =>
              Place(w'.idx, sent', k) = Place(w.idx, sent, k)
        BY <1>1, <1>5, <1>6, <3>2
      <4>2. k <= sent => (OverSocket(i, k)' <=> OverSocket(i, k))
        BY <1>2, <1>6, <3>2, <4>1 DEF OverSocket
      <4>3. ~w.big /\ k = sent + 1 => ~OverSocket(i, k)'
        <5>1. sent + 1 # Dequeued(i)'
          BY <1>1, <1>6, <3>2
        <5>2. ~w.big => ~overflow'[Place(w'.idx, sent', sent + 1)]
          BY <1>2, <1>4, <1>5
        <5> QED
          BY <3>2, <5>1, <5>2 DEF OverSocket
      <4>4. CASE k <= sent
        BY <1>1, <1>2, <1>11, <3>2, <4>2, <4>4 DEF Due
      <4>5. CASE k = sent + 1
        <5>1. k # Ready /\ ~(k <= Published(i))
          BY <1>1, <1>11, <4>5 DEF Ready
        <5>2. ~Due(i, k)
          BY <5>1 DEF Due
        <5>3. CASE w.big
          BY <1>1, <1>11, <4>5, <5>1, <5>2, <5>3 DEF Due
        <5>4. CASE ~w.big
          BY <4>3, <4>5, <5>1, <5>2, <5>4 DEF Due
        <5> QED
          BY <5>3, <5>4
      <4>6. CASE k > sent + 1
        <5>1. k # Ready /\ ~(k <= Published(i)) /\ ~(k <= Published(i)')
          BY <1>1, <1>11, <4>6 DEF Ready
        <5> QED
          BY <5>1 DEF Due
      <4> QED
        BY <1>1, <4>4, <4>5, <4>6
    <3> QED
      BY <3>1, <3>2
  <2> QED
    BY <1>2, <2>1 DEF RingInv, SocketsInOrder, InOrder
<1>13. ReadersInOrder'
  BY <1>0, <1>1, <1>2, <1>11, RingTypes DEF RingInv, ReadersInOrder, Connected, GotInOrder
<1> QED
  BY <1>0, <1>7, <1>8, <1>9, <1>10, <1>12, <1>13 DEF RingInv

\* An object goes to the end of the sockets of those it is published to, once.
LEMMA PublishRing ==
  ASSUME RingInv, WriterPublishes \/ WriterSendsRemote
  PROVE  RingInv'
<1> DEFINE mine == IF WriterPublishes THEN LocalReaders ELSE RemoteReaders
<1>0. FlagInv' /\ FlagInv /\ Counts
  BY WriterOutside DEF RingInv
<1>1. /\ UNCHANGED <<written, readFlag, overflow, data, subscribed, r, got, sent>>
      /\ w.pc \in {"publish", "remote_send"} /\ w'.pc \in {"remote_send", "idle"}
      /\ w'.idx = w.idx /\ w'.obj = w.obj /\ w.obj = sent /\ sent \in Nat
  BY <1>0, RingTypes DEF WriterPublishes, WriterSendsRemote, shared, WriterState, Counts, AtBlock
<1>2. BlocksHold' /\ BlockInHand' /\ ReadersInRing'
  BY <1>1, RingUntouched DEF AtBlock
<1>r. \A i \in AllReaders : i \in RemoteReaders <=> i \notin LocalReaders
  BY RingAssumption DEF AllReaders, LocalReaders
<1>3. \A i \in AllReaders :
        /\ ReadySent(i) /\ ReadySent(i)' /\ i \in subscribed
        /\ Published(i)' = IF i \in mine THEN sent ELSE Published(i)
        /\ i \in mine => Published(i) = sent - 1
  <2>1. \A i \in AllReaders : ReadySent(i) /\ ReadySent(i)'
    BY <1>1 DEF ReadySent
  <2>2. \A i \in AllReaders : i \in subscribed
    BY <2>1 DEF RingInv, ReadersInOrder, Connected
  <2>3. CASE WriterPublishes
    <3>1. w.pc = "publish" /\ w'.pc = "remote_send"
      BY <1>0, <2>3, RingTypes DEF WriterPublishes, WriterState
    <3> QED
      BY <1>1, <2>1, <2>2, <2>3, <3>1 DEF Published
  <2>4. CASE WriterSendsRemote /\ ~WriterPublishes
    <3>1. w.pc = "remote_send" /\ w'.pc = "idle"
      BY <1>0, <2>4, RingTypes DEF WriterSendsRemote, WriterState
    <3> QED
      BY <1>1, <1>r, <2>1, <2>2, <2>4, <3>1 DEF Published
  <2> QED
    BY <2>3, <2>4
<1>4. \A i \in AllReaders : socket'[i] = IF i \in mine THEN Append(socket[i], sent) ELSE socket[i]
  BY <1>1, <1>3 DEF WriterPublishes, WriterSendsRemote, Publish
<1>5. socket' \in [AllReaders -> Seq(Nat)]
  <2>1. \A i \in AllReaders : (IF i \in mine \cap subscribed THEN Append(socket[i], w.obj)
                               ELSE socket[i]) \in Seq(Nat)
    BY <1>0, <1>1, RingTypes
  <2>2. socket' = [i \in AllReaders |-> IF i \in mine \cap subscribed
                                        THEN Append(socket[i], w.obj) ELSE socket[i]]
    BY DEF WriterPublishes, WriterSendsRemote, Publish
  <2> QED
    BY <2>1, <2>2
<1>6. Counts'
  BY <1>0, <1>1, <1>5 DEF Counts, AtBlock
<1>8. ASSUME NEW i \in AllReaders, i \in mine PROVE OverSocket(i, sent) /\ Len(got[i]) < sent
  <2>1. Len(got[i]) \in Nat /\ Len(got[i]) <= Published(i)
    BY <1>0, RingTypes DEF RingInv, ReadersInOrder, GotInOrder
  <2>2. CASE i \notin LocalReaders
    BY <1>1, <1>3, <1>8, <2>1, <2>2 DEF OverSocket
  <2>3. CASE i \in LocalReaders
    <3>1. w.pc = "publish"
      BY <1>r, <1>8, <2>3 DEF WriterPublishes
    <3>2. overflow[Place(w.idx, sent, sent)]
      BY <3>1 DEF RingInv, BlockInHand
    <3>3. Dequeued(i) <= sent /\ Dequeued(i) \in Nat
      BY <1>0, <2>3, RingTypes DEF RingInv, ReadersInRing, ReaderInRing
    <3>4. Len(got[i]) < sent
      BY <1>1, <1>3, <1>8, <2>1
    <3> QED
      <4>1. CASE Dequeued(i) < sent
        BY <3>2, <3>4, <4>1 DEF OverSocket
      <4>2. CASE Dequeued(i) = sent
        <5>1. r[i].pc = "recv"
          <6>1. r[i].pc # "recv" => Dequeued(i) = Len(got[i])
            BY <2>1 DEF Dequeued
          <6> QED
            BY <1>1, <2>1, <3>4, <4>2, <6>1
        <5> QED
          BY <3>4, <4>2, <5>1 DEF OverSocket
      <4> QED
        BY <1>1, <3>3, <4>1, <4>2
  <2> QED
    BY <2>2, <2>3
<1> HIDE DEF mine
<1>7. ASSUME NEW i \in AllReaders
      PROVE  InOrder(i)' /\ Connected(i)' /\ GotInOrder(i)'
  <2>0. Connected(i) /\ GotInOrder(i) /\ InOrder(i)
    BY DEF RingInv, ReadersInOrder, SocketsInOrder
  <2>1. Len(got[i]) \in Nat /\ socket[i] \in Seq(Nat)
    BY <1>0, RingTypes
  <2>2. \A k \in Nat : OverSocket(i, k)' <=> OverSocket(i, k)
    BY <1>1 DEF OverSocket, Dequeued
  <2>3. Connected(i)' /\ GotInOrder(i)'
    BY <1>1, <1>3, <2>0, <2>1 DEF Connected, GotInOrder
  <2>4. CASE i \in mine
    <3>1. \A k \in Nat : Due(i, k)' <=> Due(i, k) \/ k = sent
      BY <1>1, <1>3, <1>8, <2>1, <2>2, <2>4 DEF Due
    <3>0. sent - 1 \in Nat
      BY <1>1, <1>8, <2>1, <2>4
    <3>2. \A k \in Nat : Due(i, k) => k < sent
      BY <1>1, <1>3, <2>1, <2>4, <3>0 DEF Due, Ready
    <3>3. Increasing(socket[i]) /\ \A k \in Nat : Holds(socket[i], k) => k < sent
      BY <2>0, <3>2 DEF InOrder
    <3>4. /\ Increasing(socket'[i])
          /\ \A k \in Nat : Holds(socket'[i], k) <=> Holds(socket[i], k) \/ k = sent
      BY <1>1, <1>4, <2>1, <2>4, <3>3, AppendGreatest
    <3> QED
      BY <2>0, <2>3, <3>1, <3>4 DEF InOrder
  <2>5. CASE i \notin mine
    <3>1. \A k \in Nat : Due(i, k)' <=> Due(i, k)
      BY <1>1, <1>3, <2>2, <2>5 DEF Due
    <3> QED
      BY <1>4, <2>0, <2>3, <2>5, <3>1 DEF InOrder
  <2> QED
    BY <2>4, <2>5
<1> QED
  BY <1>0, <1>2, <1>6, <1>7 DEF RingInv, SocketsInOrder, ReadersInOrder

-----------------------------------------------------------------------------
(* The readers at the ring and at their sockets *)

\* A step of one reader is no concern of the others, nor of the writer.
LEMMA ReaderKeeps ==
  ASSUME RingInv, FlagInv', NEW i \in AllReaders,
         UNCHANGED <<written, overflow, data, w, sent>>,
         \A j \in AllReaders : j # i =>
           /\ r'[j] = r[j] /\ got'[j] = got[j] /\ socket'[j] = socket[j]
           /\ (j \in subscribed' <=> j \in subscribed),
         AtBlock => readFlag'[w.idx] = readFlag[w.idx],
         Counts', BlocksHold',
         i \in LocalReaders => ReaderInRing(i)',
         InOrder(i)' /\ Connected(i)' /\ GotInOrder(i)'
  PROVE  RingInv'
<1>1. FlagInv /\ Counts /\ LocalReaders \subseteq AllReaders
  BY RingFacts DEF RingInv
<1>2. ASSUME NEW j \in AllReaders, j # i
      PROVE  Dequeued(j)' = Dequeued(j) /\ Published(j)' = Published(j)
             /\ ReadySent(j)' = ReadySent(j)
  BY <1>2 DEF Dequeued, Published, ReadySent
<1>3. ReadersInRing'
  <2> SUFFICES ASSUME NEW j \in LocalReaders, j # i PROVE ReaderInRing(j)'
    BY DEF ReadersInRing
  <2> QED
    BY <1>1, <1>2 DEF RingInv, ReadersInRing, ReaderInRing, AtBlock
<1>4. SocketsInOrder'
  <2> SUFFICES ASSUME NEW j \in AllReaders, j # i PROVE InOrder(j)'
    BY DEF SocketsInOrder
  <2>1. \A k \in Nat : Due(j, k)' <=> Due(j, k)
    BY <1>2 DEF Due, OverSocket
  <2> QED
    BY <2>1 DEF RingInv, SocketsInOrder, InOrder
<1>5. ReadersInOrder'
  BY <1>2 DEF RingInv, ReadersInOrder, Connected, GotInOrder
<1>6. BlockInHand'
  BY DEF RingInv, BlockInHand, AtBlock
<1> QED
  BY <1>3, <1>4, <1>5, <1>6 DEF RingInv

\* A reader connects, and takes b"READY" before anything else.
LEMMA ConnectRing ==
  ASSUME RingInv, NEW i \in AllReaders, Subscribe(i) \/ ReaderReady(i)
  PROVE  RingInv'
<1>0. FlagInv' /\ FlagInv /\ Counts /\ Connected(i) /\ GotInOrder(i) /\ InOrder(i)
  BY LooksKeeps DEF RingInv, Looks, ReadersInOrder, SocketsInOrder
<1>1. /\ UNCHANGED <<written, readFlag, overflow, data, w, sent, got>>
      /\ \A j \in AllReaders : j # i => r'[j] = r[j] /\ socket'[j] = socket[j]
      /\ r[i].pc \in {"connect", "ready"} /\ r'[i].pc \in {"ready", "idle"}
      /\ r'[i].idx = r[i].idx /\ Len(got[i]) = 0
  <2>1. /\ r \in [AllReaders -> ReaderState] /\ r[i] \in ReaderState
        /\ socket \in [AllReaders -> Seq(Nat)]
    BY <1>0, RingTypes DEF Counts
  <2>2. CASE Subscribe(i)
    BY <1>0, <2>1, <2>2 DEF Subscribe, shared, ReaderState, Connected
  <2>3. CASE ReaderReady(i)
    BY <1>0, <2>1, <2>3 DEF ReaderReady, shared, ReaderState, Connected
  <2> QED
    BY <2>2, <2>3
<1>2. /\ LocalReaders \subseteq AllReaders /\ socket[i] \in Seq(Nat)
      /\ r \in [AllReaders -> ReaderState] /\ r[i] \in ReaderState
      /\ sent \in Nat /\ subscribed \subseteq AllReaders
  BY <1>0, RingTypes DEF Counts
<1>3. \A j \in AllReaders : /\ Dequeued(j)' = Dequeued(j) /\ Published(j)' = Published(j)
                            /\ ReadySent(j)' = ReadySent(j)
  BY <1>1 DEF Dequeued, Published, ReadySent
<1>4. BlocksHold'
  BY <1>1, <1>2, <1>3 DEF RingInv, BlocksHold, InRing, AtBlock
<1>5. i \in LocalReaders => ReaderInRing(i)'
  <2> SUFFICES ASSUME i \in LocalReaders PROVE ReaderInRing(i)'
    OBVIOUS
  <2>1. /\ sent - MaxChunks + (IF AtBlock THEN 1 ELSE 0) <= Dequeued(i) /\ Dequeued(i) <= sent
        /\ r[i].idx = Place(w.idx, sent, Dequeued(i) + 1)
    BY DEF RingInv, ReadersInRing, ReaderInRing
  <2> QED
    BY <1>1, <1>2, <1>3, <2>1 DEF ReaderInRing, AtBlock
<1>6. \A k \in Nat : OverSocket(i, k)' <=> OverSocket(i, k)
  BY <1>1, <1>3 DEF OverSocket
<1>7. ~ReadySent(i) => Published(i) = 0
  BY <1>0 DEF ReadySent, Published, Counts
<1>8. CASE Subscribe(i)
  <2>1. /\ socket' = socket /\ subscribed' = subscribed \cup {i}
        /\ r[i].pc = "connect" /\ r'[i].pc = "ready" /\ i \notin subscribed /\ ~ReadySent(i)
    BY <1>0, <1>2, <1>8 DEF Subscribe, ReaderState, Connected
  <2>2. \A k \in Nat : Due(i, k)' <=> Due(i, k)
    BY <1>1, <1>3, <1>6, <2>1 DEF Due
  <2>3. InOrder(i)' /\ Connected(i)' /\ GotInOrder(i)'
    BY <1>0, <1>1, <1>3, <2>1, <2>2 DEF InOrder, Connected, GotInOrder
  <2>4. Counts'
    BY <1>0, <1>1, <2>1 DEF Counts, AtBlock
  <2> QED
    BY <1>0, <1>1, <1>4, <1>5, <2>1, <2>3, <2>4, ReaderKeeps
<1>9. CASE ReaderReady(i)
  <2>1. /\ socket[i] # << >> /\ socket'[i] = Tail(socket[i]) /\ subscribed' = subscribed
        /\ r[i].pc = "ready" /\ r'[i].pc = "idle"
    BY <1>0, <1>2, <1>9 DEF ReaderReady, ReaderState, Counts
  <2>2. /\ Head(socket[i]) \in Nat /\ Holds(socket[i], Head(socket[i]))
        /\ \A k \in Nat : Holds(socket[i], k) => Head(socket[i]) <= k
        /\ Tail(socket[i]) \in Seq(Nat) /\ Increasing(Tail(socket[i]))
        /\ \A k \in Nat : Holds(Tail(socket[i]), k) <=> Holds(socket[i], k) /\ k # Head(socket[i])
    BY <1>0, <1>2, <2>1, HeadIsLeast DEF InOrder
  <2>3. ReadySent(i)
    <3>1. Due(i, Head(socket[i]))
      BY <1>0, <2>2 DEF InOrder
    <3> QED
      BY <1>1, <1>7, <2>2, <3>1 DEF Due
  <2>4. Due(i, Ready) /\ Ready = 0 /\ Ready \in Nat
    BY <2>1, <2>3 DEF Due, Ready
  <2>5. Head(socket[i]) = 0
    BY <1>0, <2>2, <2>4 DEF InOrder
  <2>6. \A k \in Nat : Due(i, k)' <=> Due(i, k) /\ k # 0
    BY <1>1, <1>3, <1>6, <2>1, <2>4 DEF Due
  <2>7. InOrder(i)'
    BY <1>0, <2>1, <2>2, <2>5, <2>6 DEF InOrder
  <2>8. Connected(i)' /\ GotInOrder(i)'
    BY <1>0, <1>1, <1>3, <2>1, <2>3 DEF Connected, GotInOrder
  <2>9. socket' \in [AllReaders -> Seq(Nat)]
    BY <1>0, <1>9, <2>2 DEF ReaderReady, Counts
  <2>10. Counts'
    BY <1>0, <1>1, <2>1, <2>9 DEF Counts, AtBlock
  <2> QED
    BY <1>0, <1>1, <1>4, <1>5, <2>1, <2>7, <2>8, <2>10, ReaderKeeps
<1> QED
  BY <1>8, <1>9

\* A block found written and unread holds the reader's next object, and still
\* does when its header and its data are read.
LEMMA LookRing ==
  ASSUME RingInv, NEW i \in AllReaders,
         ReadReadFlag(i) \/ ReadWritten(i) \/ ReadHeader(i) \/ ReadPayload(i)
  PROVE  RingInv'
<1> DEFINE AtRing == {"idle", "written", "header", "payload", "mark"}
<1>0. FlagInv' /\ FlagInv /\ Counts /\ Connected(i) /\ GotInOrder(i) /\ InOrder(i)
  BY LooksKeeps DEF RingInv, Looks, ReadersInOrder, SocketsInOrder
<1>1. /\ UNCHANGED <<written, readFlag, overflow, data, w, sent, got, socket, subscribed>>
      /\ \A j \in AllReaders : j # i => r'[j] = r[j]
      /\ r[i].pc \in AtRing /\ r'[i].pc \in AtRing
      /\ r'[i].idx = r[i].idx
  BY <1>0, RingTypes DEF ReadReadFlag, ReadWritten, ReadHeader, ReadPayload, shared, ReaderState
<1>2. /\ LocalReaders \subseteq AllReaders /\ r[i] \in ReaderState /\ sent \in Nat
      /\ r \in [AllReaders -> ReaderState] /\ i \in LocalReaders
      /\ Dequeued(i) \in Nat /\ MaxChunks \in Nat /\ MaxChunks > 0 /\ w.idx \in Chunks
  BY <1>0, RingTypes DEF ReadReadFlag, ReadWritten, ReadHeader, ReadPayload, FlagInv, Shapes,
                         RemoteOnSocket
<1>3. \A j \in AllReaders : /\ Dequeued(j)' = Dequeued(j) /\ Published(j)' = Published(j)
                            /\ ReadySent(j)' = ReadySent(j)
  BY <1>1 DEF Dequeued, Published, ReadySent
<1>4. BlocksHold'
  BY <1>1, <1>2, <1>3 DEF RingInv, BlocksHold, InRing, AtBlock
<1>5. ReaderInRing(i)
  BY <1>2 DEF RingInv, ReadersInRing
<1>6. Dequeued(i) < sent =>
        /\ InRing(Dequeued(i) + 1) /\ Dequeued(i) + 1 \in Nat
        /\ ~overflow[r[i].idx] => data[r[i].idx] = Dequeued(i) + 1
  <2> SUFFICES ASSUME Dequeued(i) < sent
               PROVE  /\ InRing(Dequeued(i) + 1) /\ Dequeued(i) + 1 \in Nat
                      /\ ~overflow[r[i].idx] => data[r[i].idx] = Dequeued(i) + 1
    OBVIOUS
  <2>1. InRing(Dequeued(i) + 1) /\ Dequeued(i) + 1 \in Nat
    BY <1>2, <1>5 DEF InRing, ReaderInRing
  <2> QED
    BY <1>5, <2>1 DEF RingInv, BlocksHold, ReaderInRing
<1>7. ReaderInRing(i)'
  <2>0. /\ sent - MaxChunks + (IF AtBlock THEN 1 ELSE 0) <= Dequeued(i) /\ Dequeued(i) <= sent
        /\ r[i].idx = Place(w.idx, sent, Dequeued(i) + 1)
    BY <1>5 DEF ReaderInRing
  <2>1. CASE ReadReadFlag(i)
    <3>1. r'[i].pc = "written"
      BY <1>2, <2>1 DEF ReadReadFlag, ReaderState
    <3> QED
      BY <1>1, <1>2, <1>3, <2>0, <3>1 DEF ReaderInRing, AtBlock
  <2>2. CASE ReadWritten(i)
    <3>1. /\ r[i].pc = "written" /\ r'[i].pc = (IF MayRead(i) THEN "header" ELSE "idle")
      BY <1>2, <2>2 DEF ReadWritten, ReaderState
    <3>2. ASSUME MayRead(i) PROVE Dequeued(i) < sent
      <4>1. SUFFICES ASSUME Dequeued(i) = sent PROVE FALSE
        BY <1>2, <2>0
      <4>2. r[i].idx = w.idx
        BY <1>2, <2>0, <4>1, PlaceFacts
      <4>3. written[w.idx] /\ ~readFlag[w.idx][i] /\ ~AtBlock
        BY <1>0, <1>2, <3>1, <3>2, <4>2 DEF MayRead, FlagInv, UnreadStaysUnread,
                                           WritingIsMarked, Writing, AtBlock
      <4>4. CASE sent < MaxChunks
        BY <1>0, <1>2, <4>3, <4>4 DEF Counts, RingInv, BlocksHold
      <4>5. CASE sent >= MaxChunks
        <5> DEFINE k == sent + 1 - MaxChunks
        <5>1. k \in Nat /\ InRing(k) /\ Place(w.idx, sent, k) = w.idx /\ Dequeued(i) >= k
          BY <1>2, <4>1, <4>3, <4>5, PlaceFacts DEF InRing
        <5> HIDE DEF k
        <5> QED
          BY <1>2, <4>3, <5>1 DEF RingInv, BlocksHold
      <4> QED
        BY <1>2, <4>4, <4>5
    <3> QED
      BY <1>1, <1>2, <1>3, <2>0, <3>1, <3>2 DEF ReaderInRing, AtBlock
  <2>3. CASE ReadHeader(i)
    <3>1. /\ r[i].pc = "header" /\ r'[i].pc = (IF overflow[r[i].idx] THEN "mark" ELSE "payload")
          /\ r'[i].big = overflow[r[i].idx] /\ Dequeued(i) < sent
          /\ overflow[r[i].idx] \in BOOLEAN
      BY <1>0, <1>2, <1>5, <2>3 DEF ReadHeader, ReaderState, ReaderInRing, FlagInv, Shapes, DataTyped
    <3> QED
      BY <1>1, <1>2, <1>3, <2>0, <3>1 DEF ReaderInRing, AtBlock
  <2>4. CASE ReadPayload(i)
    <3>1. /\ r[i].pc = "payload" /\ r'[i].pc = "mark" /\ r'[i].obj = data[r[i].idx]
          /\ r'[i].big = r[i].big /\ Dequeued(i) < sent
          /\ ~overflow[r[i].idx] /\ ~r[i].big
          /\ overflow[r[i].idx] \in BOOLEAN /\ r[i].big \in BOOLEAN
      BY <1>0, <1>2, <1>5, <2>4 DEF ReadPayload, ReaderState, ReaderInRing, FlagInv, Shapes, DataTyped
    <3>2. r'[i].obj = Dequeued(i) + 1 /\ r'[i].big = overflow[r[i].idx]
      BY <1>6, <3>1
    <3> QED
      BY <1>1, <1>2, <1>3, <2>0, <3>1, <3>2 DEF ReaderInRing, AtBlock
  <2> QED
    BY <2>1, <2>2, <2>3, <2>4
<1>8. \A k \in Nat : Due(i, k)' <=> Due(i, k)
  BY <1>1, <1>3 DEF Due, OverSocket
<1>9. InOrder(i)' /\ Connected(i)' /\ GotInOrder(i)'
  BY <1>0, <1>1, <1>3, <1>8 DEF InOrder, Connected, GotInOrder
<1>10. Counts'
  BY <1>0, <1>1 DEF Counts, AtBlock
<1> QED
  BY <1>0, <1>1, <1>4, <1>7, <1>9, <1>10, ReaderKeeps

\* A reader returns what it took from its block, or goes to its socket for it.
LEMMA MarkRing ==
  ASSUME RingInv, NEW i \in AllReaders, MarkRead(i)
  PROVE  RingInv'
<1> DEFINE d == Dequeued(i)
<1>0. FlagInv' /\ FlagInv /\ Counts /\ Connected(i) /\ GotInOrder(i) /\ InOrder(i)
  BY MarkKeeps DEF RingInv, ReadersInOrder, SocketsInOrder
<1>1. /\ UNCHANGED <<written, overflow, data, w, sent, socket, subscribed>>
      /\ \A j \in AllReaders : j # i => r'[j] = r[j] /\ got'[j] = got[j]
  <2>1. r \in [AllReaders -> ReaderState] /\ got \in [AllReaders -> Seq(Nat)]
    BY <1>0, RingTypes DEF Counts
  <2>2. \A j \in AllReaders : j # i => r'[j] = r[j]
    BY <2>1 DEF MarkRead
  <2>3. \A j \in AllReaders : j # i => got'[j] = got[j]
    BY <2>1 DEF MarkRead, Returned
  <2> QED
    BY <2>2, <2>3 DEF MarkRead
<1>2. /\ LocalReaders \subseteq AllReaders /\ r[i] \in ReaderState /\ sent \in Nat
      /\ r \in [AllReaders -> ReaderState] /\ i \in LocalReaders
      /\ Len(got[i]) \in Nat /\ got[i] \in Seq(Nat)
      /\ MaxChunks \in Nat /\ MaxChunks > 0 /\ w.idx \in Chunks
      /\ r[i].pc = "mark" /\ r[i].big \in BOOLEAN /\ r[i].idx \in Chunks
      /\ readFlag \in [Chunks -> [LocalReaders -> BOOLEAN]]
  BY <1>0, RingTypes DEF MarkRead, FlagInv, Shapes, RemoteOnSocket, FlagsTyped, ReaderState
<1>3. d = Len(got[i]) /\ d \in Nat
  BY <1>2 DEF Dequeued
<1>4. /\ sent - MaxChunks + (IF AtBlock THEN 1 ELSE 0) <= d /\ d < sent
      /\ r[i].idx = Place(w.idx, sent, d + 1)
      /\ r[i].big = overflow[r[i].idx]
      /\ ~r[i].big => r[i].obj = d + 1
  BY <1>2 DEF RingInv, ReadersInRing, ReaderInRing
<1> HIDE DEF d
<1>5. InRing(d + 1) /\ d + 1 \in Nat
  BY <1>2, <1>3, <1>4 DEF InRing
<1>6. AtBlock => r[i].idx # w.idx
  BY <1>0, <1>2 DEF FlagInv, WritingIsMarked, ReadingIsMarked, Writing, Reading, AtBlock
<1>7. /\ r'[i].pc = (IF r[i].big THEN "recv" ELSE "idle")
      /\ r'[i].idx = NextIdx(r[i].idx)
      /\ got'[i] = (IF r[i].big THEN got[i] ELSE Append(got[i], d + 1))
      /\ Len(got'[i]) = (IF r[i].big THEN d ELSE d + 1)
  <2>1. r'[i].pc = (IF r[i].big THEN "recv" ELSE "idle") /\ r'[i].idx = NextIdx(r[i].idx)
    BY <1>2 DEF MarkRead, ReaderState
  <2>2. got'[i] = (IF r[i].big THEN got[i] ELSE Append(got[i], d + 1))
    BY <1>0, <1>4 DEF MarkRead, Returned, Counts
  <2>3. Len(got'[i]) = (IF r[i].big THEN d ELSE d + 1)
    BY <1>2, <1>3, <2>2
  <2> QED
    BY <2>1, <2>2, <2>3
<1>8. Dequeued(i)' = d + 1
  <2>1. CASE r[i].big
    BY <1>3, <1>7, <2>1 DEF Dequeued
  <2>2. CASE ~r[i].big
    BY <1>3, <1>7, <2>2 DEF Dequeued
  <2> QED
    BY <2>1, <2>2
<1>9. \A j \in AllReaders : j # i => Dequeued(j)' = Dequeued(j)
  BY <1>1 DEF Dequeued
<1>10. \A c \in Chunks, j \in LocalReaders :
         readFlag'[c][j] <=> (c = r[i].idx /\ j = i) \/ readFlag[c][j]
  BY <1>2 DEF MarkRead
<1>11. BlocksHold'
  <2>1. ASSUME NEW k \in Nat, InRing(k)
        PROVE  LET c == Place(w.idx, sent, k)
               IN  /\ written[c]
                   /\ \A j \in LocalReaders : readFlag'[c][j] <=> Dequeued(j)' >= k
                   /\ ~overflow[c] => data[c] = k
    <3> DEFINE c == Place(w.idx, sent, k)
    <3>1. /\ written[c]
          /\ \A j \in LocalReaders : readFlag[c][j] <=> Dequeued(j) >= k
          /\ ~overflow[c] => data[c] = k
      BY <2>1 DEF RingInv, BlocksHold
    <3>2. sent + 1 - MaxChunks <= k /\ k <= sent
      BY <1>2, <2>1 DEF InRing
    <3>3. c \in Chunks
      <4>1. k \in Int /\ sent + 1 - MaxChunks <= k /\ k <= sent + 1
        BY <1>2, <3>2
      <4> QED
        BY <1>2, <4>1, PlaceFacts
    <3>4. sent + 1 - MaxChunks <= d + 1 /\ d + 1 <= sent /\ d + 1 \in Int
      BY <1>2, <1>3, <1>4
    <3>5. c = r[i].idx <=> k = d + 1
      <4>1. k \in Int
        OBVIOUS
      <4>2. c = Place(w.idx, sent, d + 1) <=> k = d + 1
        <5>1. \A x, y \in Int : sent + 1 - MaxChunks <= x /\ x <= sent /\ sent + 1 - MaxChunks <= y
                /\ y <= sent => (Place(w.idx, sent, x) = Place(w.idx, sent, y) <=> x = y)
          BY <1>2, PlaceFacts
        <5> HIDE DEF c
        <5>2. Place(w.idx, sent, k) = Place(w.idx, sent, d + 1) <=> k = d + 1
          BY <3>2, <3>4, <4>1, <5>1
        <5> QED
          BY <5>2 DEF c
      <4> QED
        BY <1>4, <4>2
    <3> HIDE DEF c
    <3>6. readFlag'[c][i] <=> d + 1 >= k
      <4>1. readFlag[c][i] <=> d >= k
        BY <1>2, <3>1 DEF d
      <4>2. readFlag'[c][i] <=> k = d + 1 \/ readFlag[c][i]
        BY <1>2, <1>10, <3>3, <3>5
      <4> QED
        BY <1>3, <4>1, <4>2
    <3>7. ASSUME NEW j \in LocalReaders, j # i
          PROVE  readFlag'[c][j] <=> Dequeued(j)' >= k
      BY <1>2, <1>9, <1>10, <3>1, <3>3, <3>7
    <3> QED
      BY <1>8, <3>1, <3>6, <3>7 DEF c
  <2>2. ASSUME NEW c \in Chunks, sent <= c
        PROVE  ~written[c] /\ \A j \in LocalReaders : ~readFlag'[c][j]
    <3>1. sent < MaxChunks /\ w.idx = sent
      BY <1>0, <1>2, <2>2 DEF Chunks, Counts
    <3>2. r[i].idx # c
      BY <1>2, <1>3, <1>4, <2>2, <3>1 DEF Place, Chunks
    <3> QED
      BY <1>10, <2>2, <3>2 DEF RingInv, BlocksHold
  <2> QED
    BY <1>1, <2>1, <2>2 DEF BlocksHold, InRing, AtBlock
<1>12. ReaderInRing(i)'
  <2>1. Place(w.idx, sent, d + 1 + 1) = NextIdx(r[i].idx)
    <3>1. d + 1 \in Int /\ sent + 1 - MaxChunks <= d + 1 /\ d + 1 <= sent
      BY <1>2, <1>3, <1>4
    <3>2. NextIdx(Place(w.idx, sent, d + 1)) = Place(w.idx, sent, d + 1 + 1)
      BY <1>2, <3>1, PlaceNext
    <3> QED
      BY <1>4, <3>2
  <2>2. sent - MaxChunks + (IF AtBlock THEN 1 ELSE 0) <= d + 1 /\ d + 1 <= sent
    BY <1>2, <1>3, <1>4
  <2>3. r'[i].pc \notin {"header", "payload", "mark"}
    BY <1>7
  <2> QED
    BY <1>1, <1>7, <1>8, <2>1, <2>2, <2>3 DEF ReaderInRing, AtBlock
<1>13. Published(i)' = Published(i) /\ ReadySent(i)' = ReadySent(i) /\ Published(i) \in Int
  BY <1>0, <1>1, RingTypes DEF Published, ReadySent
<1>14. ~r[i].big => d + 1 <= Published(i)
  <2>1. CASE w.pc = "publish"
    <3>1. overflow[Place(w.idx, sent, sent)]
      BY <2>1 DEF RingInv, BlockInHand
    <3>2. ~r[i].big => d + 1 # sent
      BY <1>4, <3>1
    <3> QED
      BY <1>2, <1>3, <1>4, <2>1, <3>2 DEF Published
  <2>2. CASE w.pc # "publish"
    BY <1>2, <1>3, <1>4, <2>2 DEF Published
  <2> QED
    BY <2>1, <2>2
<1>15. InOrder(i)'
  <2>1. ASSUME NEW k \in Nat PROVE Due(i, k)' <=> Due(i, k)
    <3>1. r'[i].pc # "ready" /\ r[i].pc # "ready"
      BY <1>2, <1>7
    <3>2. OverSocket(i, k) <=> k > d /\ overflow[Place(w.idx, sent, k)]
      BY <1>2 DEF OverSocket, d
    <3>3. OverSocket(i, k)' <=> \/ k = d + 1 /\ r[i].big
                                \/ k > d + 1 /\ overflow[Place(w.idx, sent, k)]
      BY <1>1, <1>2, <1>7, <1>8 DEF OverSocket
    <3>4. overflow[Place(w.idx, sent, d + 1)] = r[i].big
      BY <1>4
    <3>5. k > d <=> k = d + 1 \/ k > d + 1
      BY <1>3
    <3>6. k > Len(got[i])' /\ OverSocket(i, k)' <=> k > Len(got[i]) /\ OverSocket(i, k)
      BY <1>3, <1>7, <3>2, <3>3, <3>4, <3>5
    <3> QED
      BY <1>2, <1>3, <1>7, <1>13, <3>1, <3>6 DEF Due
  <2> QED
    BY <1>0, <1>1, <2>1 DEF InOrder
<1>16. GotInOrder(i)'
  <2>1. CASE r[i].big
    BY <1>0, <1>7, <1>13, <2>1 DEF GotInOrder
  <2>2. CASE ~r[i].big
    <3>1. got'[i] = Append(got[i], d + 1) /\ Len(got'[i]) = d + 1
      BY <1>7, <2>2
    <3>2. \A k \in 1 .. d + 1 : k \in 1 .. d \/ k = d + 1
      BY <1>3
    <3>3. \A k \in 1 .. d + 1 : got'[i][k] = k
      BY <1>0, <1>2, <1>3, <3>1, <3>2 DEF GotInOrder
    <3> QED
      BY <1>13, <1>14, <2>2, <3>1, <3>3 DEF GotInOrder
  <2> QED
    BY <2>1, <2>2
<1>17. Connected(i)'
  BY <1>0, <1>1, <1>2, <1>7, <1>13 DEF Connected
<1>18. Counts'
  <2>1. got'[i] \in Seq(Nat)
    BY <1>2, <1>5, <1>7
  <2>2. got' \in [AllReaders -> Seq(Nat)]
    BY <1>0, <1>1, <2>1 DEF MarkRead, Returned, Counts
  <2> QED
    BY <1>0, <1>1, <2>2 DEF Counts, AtBlock
<1>19. AtBlock => readFlag'[w.idx] = readFlag[w.idx]
  BY <1>2, <1>6 DEF MarkRead
<1> QED
  BY <1>0, <1>1, <1>11, <1>12, <1>15, <1>16, <1>17, <1>18, <1>19, ReaderKeeps

\* What comes first on a socket is the reader's next object: for a local
\* reader the one whose block it has just marked.
LEMMA RecvIsNext ==
  ASSUME RingInv, NEW i \in AllReaders, Recv(i)
  PROVE  /\ Head(socket[i]) = Len(got[i]) + 1
         /\ Len(got[i]) + 1 <= Published(i)
<1>0. FlagInv /\ Counts /\ InOrder(i)
  BY DEF RingInv, SocketsInOrder
<1>1. /\ Len(got[i]) \in Nat /\ socket[i] \in Seq(Nat) /\ Published(i) \in Int
      /\ r[i].pc # "ready" /\ socket[i] # << >>
  BY <1>0, RingTypes DEF Recv
<1>2. /\ Head(socket[i]) \in Nat /\ Holds(socket[i], Head(socket[i]))
      /\ \A k \in Nat : Holds(socket[i], k) => Head(socket[i]) <= k
  BY <1>0, <1>1, HeadIsLeast DEF InOrder
<1>3. Len(got[i]) < Head(socket[i]) /\ Head(socket[i]) <= Published(i)
  BY <1>0, <1>1, <1>2 DEF InOrder, Due
<1>4. OverSocket(i, Len(got[i]) + 1)
  <2>1. CASE i \in LocalReaders
    BY <1>1, <2>1 DEF Recv, OverSocket, Dequeued
  <2>2. CASE i \notin LocalReaders
    BY <2>2 DEF OverSocket
  <2> QED
    BY <2>1, <2>2
<1>5. Len(got[i]) + 1 \in Nat /\ Len(got[i]) + 1 <= Published(i)
  BY <1>1, <1>2, <1>3
<1>6. Holds(socket[i], Len(got[i]) + 1)
  BY <1>0, <1>1, <1>4, <1>5 DEF InOrder, Due
<1> QED
  BY <1>1, <1>2, <1>3, <1>5, <1>6

\* An object from the socket is returned once.
LEMMA RecvRing ==
  ASSUME RingInv, NEW i \in AllReaders, Recv(i)
  PROVE  RingInv'
<1> DEFINE l == Len(got[i])
<1>0. FlagInv' /\ FlagInv /\ Counts /\ Connected(i) /\ GotInOrder(i) /\ InOrder(i)
  BY LooksKeeps DEF RingInv, Looks, ReadersInOrder, SocketsInOrder
<1>1. /\ UNCHANGED <<written, readFlag, overflow, data, w, sent, subscribed>>
      /\ \A j \in AllReaders : j # i => r'[j] = r[j] /\ got'[j] = got[j] /\ socket'[j] = socket[j]
  BY <1>0, RingTypes DEF Recv, Returned, Counts, shared
<1>2. /\ LocalReaders \subseteq AllReaders /\ r[i] \in ReaderState /\ sent \in Nat
      /\ r \in [AllReaders -> ReaderState]
      /\ l \in Nat /\ got[i] \in Seq(Nat) /\ socket[i] \in Seq(Nat) /\ socket[i] # << >>
      /\ Published(i) \in Int
  BY <1>0, RingTypes DEF Recv
<1>3. Head(socket[i]) = l + 1 /\ l + 1 <= Published(i)
  BY RecvIsNext
<1>4. /\ r[i].pc = (IF i \in LocalReaders THEN "recv" ELSE "idle")
      /\ r'[i].pc = "idle" /\ r'[i].idx = r[i].idx
      /\ got'[i] = Append(got[i], l + 1) /\ socket'[i] = Tail(socket[i])
  BY <1>0, <1>2, <1>3 DEF Recv, Returned, Counts, ReaderState
<1>5. Len(got'[i]) = l + 1 /\ got'[i] \in Seq(Nat)
  BY <1>2, <1>4
<1>6. i \in LocalReaders => Dequeued(i) = l + 1 /\ Dequeued(i)' = l + 1
  BY <1>4, <1>5 DEF Dequeued
<1>7. \A j \in LocalReaders : Dequeued(j)' = Dequeued(j)
  <2>1. \A j \in LocalReaders : j # i => Dequeued(j)' = Dequeued(j)
    BY <1>1, <1>2 DEF Dequeued
  <2> QED
    BY <1>6, <2>1
<1> HIDE DEF l
<1>8. BlocksHold'
  BY <1>1, <1>7 DEF RingInv, BlocksHold, InRing, AtBlock
<1>9. i \in LocalReaders => ReaderInRing(i)'
  <2> SUFFICES ASSUME i \in LocalReaders PROVE ReaderInRing(i)'
    OBVIOUS
  <2>1. /\ sent - MaxChunks + (IF AtBlock THEN 1 ELSE 0) <= Dequeued(i) /\ Dequeued(i) <= sent
        /\ r[i].idx = Place(w.idx, sent, Dequeued(i) + 1)
    BY DEF RingInv, ReadersInRing, ReaderInRing
  <2> QED
    BY <1>1, <1>4, <1>7, <2>1 DEF ReaderInRing, AtBlock
<1>10. Published(i)' = Published(i) /\ ReadySent(i)' = ReadySent(i)
  BY <1>1 DEF Published, ReadySent
<1>11. InOrder(i)'
  <2>1. /\ Increasing(Tail(socket[i]))
        /\ \A k \in Nat : Holds(Tail(socket[i]), k) <=> Holds(socket[i], k) /\ k # l + 1
    BY <1>0, <1>2, <1>3, HeadIsLeast DEF InOrder
  <2>2. ASSUME NEW k \in Nat PROVE Due(i, k)' <=> Due(i, k) /\ k # l + 1
    <3>1. l < k /\ k # l + 1 <=> l + 1 < k
      BY <1>2
    <3>2. l + 1 < k => (OverSocket(i, k)' <=> OverSocket(i, k))
      <4>1. CASE i \notin LocalReaders
        BY <4>1 DEF OverSocket
      <4>2. CASE i \in LocalReaders
        BY <1>1, <1>2, <1>6, <4>2 DEF OverSocket
      <4> QED
        BY <4>1, <4>2
    <3> QED
      BY <1>2, <1>4, <1>5, <1>10, <3>1, <3>2 DEF Due, l
  <2> QED
    BY <1>0, <1>4, <2>1, <2>2 DEF InOrder
<1>12. GotInOrder(i)'
  <2>1. \A k \in 1 .. l + 1 : k \in 1 .. l \/ k = l + 1
    BY <1>2
  <2>2. \A k \in 1 .. l + 1 : got'[i][k] = k
    BY <1>0, <1>2, <1>4, <2>1 DEF GotInOrder, l
  <2> QED
    BY <1>3, <1>5, <1>10, <2>2 DEF GotInOrder
<1>13. Connected(i)'
  BY <1>0, <1>1, <1>4, <1>10 DEF Connected
<1>14. Counts'
  <2>1. Tail(socket[i]) \in Seq(Nat)
    BY <1>2
  <2>2. got' \in [AllReaders -> Seq(Nat)] /\ socket' \in [AllReaders -> Seq(Nat)]
    BY <1>0, <1>4, <1>5, <2>1 DEF Recv, Returned, Counts
  <2> QED
    BY <1>0, <1>1, <2>2 DEF Counts, AtBlock
<1> QED
  BY <1>0, <1>1, <1>8, <1>9, <1>11, <1>12, <1>13, <1>14, ReaderKeeps

\* Every step keeps the ring and the sockets in order.
LEMMA NextRingInv == RingInv /\ [Next]_vars => RingInv'
<1> SUFFICES ASSUME RingInv, [Next]_vars PROVE RingInv'
  OBVIOUS
<1>1. CASE Writer \/ WriterTimesOut
  BY <1>1, ReadyKeeps, EnqueueKeeps, ClaimRing, WriteRing, CommitRing, PublishRing DEF Writer
<1>2. ASSUME NEW i \in AllReaders, Reader(i) PROVE RingInv'
  BY <1>2, ConnectRing, LookRing, MarkRing, RecvRing DEF Reader
<1>3. CASE UNCHANGED vars
  <2>1. FlagInv'
    BY NextFlagInv DEF RingInv
  <2>2. Counts' /\ BlocksHold' /\ BlockInHand'
    BY <1>3 DEF vars, shared, RingInv, Counts, BlocksHold, BlockInHand, InRing, AtBlock, Dequeued
  <2>3. ReadersInRing'
    BY <1>3 DEF vars, shared, RingInv, ReadersInRing, ReaderInRing, AtBlock, Dequeued
  <2>4. SocketsInOrder'
    <3>1. UNCHANGED <<overflow, socket, w, r, sent, got>>
      BY <1>3 DEF vars, shared
    <3>2. \A i, k : Due(i, k)' = Due(i, k)
      BY <3>1 DEF Due, OverSocket, Dequeued, Published, ReadySent
    <3>3. \A i : InOrder(i)' = InOrder(i)
      BY <3>1, <3>2 DEF InOrder
    <3> QED
      BY <3>3 DEF RingInv, SocketsInOrder
  <2>5. ReadersInOrder'
    BY <1>3 DEF vars, shared, RingInv, ReadersInOrder, Connected, GotInOrder, Published, ReadySent
  <2> QED
    BY <2>1, <2>2, <2>3, <2>4, <2>5 DEF RingInv
<1> QED
  BY <1>1, <1>2, <1>3 DEF Next

-----------------------------------------------------------------------------
(* Only Commit sends, and only the returns of dequeue receive.  *)

\* One more object at the end of 1 .. n is 1 .. n + 1.
LEMMA OneMore ==
  ASSUME NEW n \in Nat
  PROVE  [k \in 1 .. n + 1 |-> k] = Append([k \in 1 .. n |-> k], n + 1)
<1> DEFINE s == [k \in 1 .. n |-> k]
<1>1. s \in Seq(Nat) /\ Len(s) = n
  OBVIOUS
<1>2. /\ Append(s, n + 1) \in Seq(Nat) /\ Len(Append(s, n + 1)) = n + 1
      /\ \A k \in 1 .. n + 1 : Append(s, n + 1)[k] = IF k = n + 1 THEN n + 1 ELSE s[k]
  BY <1>1
<1>3. \A k \in 1 .. n + 1 : Append(s, n + 1)[k] = k
  BY <1>2
<1> HIDE DEF s
<1>4. Append(s, n + 1) = [k \in 1 .. n + 1 |-> Append(s, n + 1)[k]]
  BY <1>2
<1> QED
  BY <1>3, <1>4 DEF s

\* The channel's view of the objects sent
Sent(n) == [k \in 1 .. n |-> k]

\* A step that hands nothing over and returns nothing is none of the channel's.
\* One that returns an object returns the reader's next one.
LEMMA ReceiveMaps ==
  ASSUME RingInv, NEW i \in AllReaders, Returned(i, Len(got[i]) + 1),
         Len(got[i]) < sent, sent' = sent
  PROVE  Channel!Receive(i)
<1>1. sent \in Nat /\ Len(got[i]) \in Nat /\ got \in [AllReaders -> Seq(Nat)]
  BY RingTypes DEF RingInv, Counts
<1>2. Len(Sent(sent)) = sent /\ Sent(sent)[Len(got[i]) + 1] = Len(got[i]) + 1
  BY <1>1 DEF Sent
<1>3. got' = [got EXCEPT ![i] = Append(got[i], Sent(sent)[Len(got[i]) + 1])]
  BY <1>2 DEF Returned
<1> QED
  BY <1>2, <1>3 DEF Channel!Receive, Sent

\* Every step of the message queue is one of the channel, or none.
LEMMA StepMaps ==
  ASSUME RingInv, [Next]_vars
  PROVE  [Channel!Next]_<<[k \in 1 .. sent |-> k], got>>
<1>1. CASE Commit
  <2>1. sent \in Nat /\ w.obj = sent + 1 /\ w.obj <= MaxObjects /\ MaxObjects \in Nat
    BY <1>1, RingAssumption DEF RingInv, Counts, Commit, AtBlock
  <2>2. sent' = sent + 1 /\ got' = got /\ sent + 1 \in 1 .. MaxObjects
    BY <1>1, <2>1 DEF Commit
  <2>3. [k \in 1 .. sent' |-> k] = Append([k \in 1 .. sent |-> k], sent + 1)
    BY <2>1, <2>2, OneMore
  <2> QED
    BY <2>2, <2>3 DEF Channel!Next, Channel!Send
<1>2. ASSUME NEW i \in AllReaders, MarkRead(i), ~r[i].big
      PROVE  Channel!Next
  <2>1. i \in LocalReaders /\ Dequeued(i) = Len(got[i])
    BY <1>2, RingTypes DEF MarkRead, RingInv, FlagInv, Shapes, RemoteOnSocket, Dequeued
  <2>2. r[i].obj = Len(got[i]) + 1 /\ Len(got[i]) < sent
    BY <1>2, <2>1 DEF RingInv, ReadersInRing, ReaderInRing, MarkRead
  <2>3. Returned(i, Len(got[i]) + 1) /\ sent' = sent
    BY <1>2, <2>2 DEF MarkRead
  <2> QED
    BY <2>2, <2>3, ReceiveMaps DEF Channel!Next
<1>3. ASSUME NEW i \in AllReaders, Recv(i)
      PROVE  Channel!Next
  <2>1. Head(socket[i]) = Len(got[i]) + 1 /\ Len(got[i]) + 1 <= Published(i)
    BY <1>3, RecvIsNext
  <2>2. Published(i) \in Int /\ Published(i) <= sent /\ Len(got[i]) \in Nat /\ sent \in Nat
    BY RingTypes DEF RingInv
  <2>3. Len(got[i]) < sent
    BY <2>1, <2>2
  <2>4. Returned(i, Len(got[i]) + 1) /\ sent' = sent
    BY <1>3, <2>1 DEF Recv
  <2> QED
    BY <2>3, <2>4, ReceiveMaps DEF Channel!Next
<1>4. CASE \/ WriterReadyLocal \/ WriterReadyRemote \/ Enqueue \/ WriterClaims \/ WriteHeader
           \/ WritePayload \/ ClearFlag \/ WriterPublishes \/ WriterSendsRemote \/ WriterTimesOut
  <2>1. sent' = sent /\ got' = got
    BY <1>4 DEF WriterReadyLocal, WriterReadyRemote, Enqueue, WriterClaims, WriteHeader,
                WritePayload, ClearFlag, WriterPublishes, WriterSendsRemote, WriterTimesOut
  <2> QED
    BY <2>1
<1>5. ASSUME NEW i \in AllReaders,
             \/ Subscribe(i) \/ ReaderReady(i) \/ ReadReadFlag(i) \/ ReadWritten(i)
             \/ ReadHeader(i) \/ ReadPayload(i) \/ (MarkRead(i) /\ r[i].big)
      PROVE  sent' = sent /\ got' = got
  BY <1>5 DEF Subscribe, ReaderReady, ReadReadFlag, ReadWritten, ReadHeader, ReadPayload, MarkRead
<1>6. CASE UNCHANGED vars
  BY <1>6 DEF vars
<1> QED
  BY <1>1, <1>2, <1>3, <1>4, <1>5, <1>6 DEF Next, Writer, Reader

\* MessageQueue keeps the promise of the broadcast channel: for any number of
\* local and remote readers, of blocks and of objects, small or big, every
\* reader dequeues the objects sent, each once and in order.
THEOREM RefinesBroadcastAlways == Spec => RefinesBroadcast
<1>1. Init => Channel!Init
  BY DEF Init, Channel!Init
<1>2. RingInv /\ [Next]_vars => [Channel!Next]_<<[k \in 1 .. sent |-> k], got>>
  BY StepMaps
<1> QED
  BY <1>1, <1>2, InitRingInv, NextRingInv, PTL DEF Spec, RefinesBroadcast, Channel!Spec
=============================================================================
