---------------------------- MODULE ShmRingBuffer ----------------------------
(***************************************************************************)
(* MessageQueue (vllm/distributed/device_communicators/shm_broadcast.py):  *)
(* one writer broadcasts objects to local readers through a ring of blocks *)
(* in shared memory, synchronised only by one byte per block for the       *)
(* writer and one per reader.  An object too big for a block goes over a   *)
(* publish-subscribe socket, and the block only says so; remote readers    *)
(* get everything over a socket of their own.                              *)
(*                                                                         *)
(* Every access to a byte that two processes share is a step of its own;   *)
(* stores become visible in the order of the program, as on x86.  Objects  *)
(* are numbered in the order they are enqueued.                            *)
(***************************************************************************)
EXTENDS Integers, Sequences, FiniteSets, Functions

CONSTANTS NumReader,    \* ShmRingBuffer.n_reader: readers 1 .. NumReader
          RemoteReaders,
          MaxChunks,
          MaxObjects    \* bound: how many objects are enqueued

ASSUME RingAssumption ==
  /\ NumReader \in Nat \ {0} /\ MaxChunks \in Nat \ {0} /\ MaxObjects \in Nat
  /\ RemoteReaders \cap (1 .. NumReader) = {}

LocalReaders == 1 .. NumReader
AllReaders == LocalReaders \cup RemoteReaders
Chunks == 0 .. MaxChunks - 1
Torn == -1              \* a block of which only a part is written
Ready == 0              \* the message b"READY"

VARIABLES written,      \* metadata_buffer[0] of each block
          readFlag,     \* metadata_buffer[1:]
          overflow,     \* buf[0]
          data,         \* buf[1:]
          socket,       \* per reader, what its subscription has not received
          subscribed,   \* readers whose subscription reached the writer
          w,            \* the writer: its step, current_idx and object
          r,            \* each reader: its step, current_idx and local values
          sent,         \* objects handed over by enqueue
          got           \* objects returned by dequeue, per reader

shared == <<written, readFlag, overflow, data>>
vars == <<shared, socket, subscribed, w, r, sent, got>>

Init ==
  /\ written = [c \in Chunks |-> FALSE]
  /\ readFlag = [c \in Chunks |-> [i \in LocalReaders |-> FALSE]]
  /\ overflow = [c \in Chunks |-> FALSE]
  /\ data = [c \in Chunks |-> Torn]
  /\ socket = [i \in AllReaders |-> << >>]
  /\ subscribed = {}
  /\ w = [pc |-> "local", idx |-> 0, obj |-> 0, big |-> FALSE, flag |-> 0]
  /\ r = [i \in AllReaders |->
            [pc |-> "connect", idx |-> 0, flag |-> FALSE, big |-> FALSE, obj |-> Torn]]
  /\ sent = 0
  /\ got = [i \in AllReaders |-> << >>]

NextIdx(idx) == (idx + 1) % MaxChunks

\* socket.send: published to those who have subscribed by now
Publish(readers, obj) ==
  socket' = [i \in AllReaders |-> IF i \in readers \cap subscribed
                                  THEN Append(socket[i], obj) ELSE socket[i]]

-----------------------------------------------------------------------------
(* wait_until_ready *)

\* A reader's SUB socket connects, and its subscription reaches the writer.
Subscribe(i) ==
  /\ r[i].pc = "connect"
  /\ r' = [r EXCEPT ![i].pc = "ready"]
  /\ subscribed' = subscribed \cup {i}
  /\ UNCHANGED <<shared, socket, w, sent, got>>

\* One subscription message per reader
AllSubscribed(readers) == readers \subseteq subscribed

WriterReadyLocal ==
  /\ w.pc = "local"
  /\ AllSubscribed(LocalReaders)
  /\ Publish(LocalReaders, Ready)
  /\ w' = [w EXCEPT !.pc = "remote"]
  /\ UNCHANGED <<shared, subscribed, r, sent, got>>

WriterReadyRemote ==
  /\ w.pc = "remote"
  /\ AllSubscribed(RemoteReaders)
  /\ Publish(RemoteReaders, Ready)
  /\ w' = [w EXCEPT !.pc = "idle"]
  /\ UNCHANGED <<shared, subscribed, r, sent, got>>

ReaderReady(i) ==
  /\ r[i].pc = "ready"
  /\ socket[i] # << >>
  /\ socket' = [socket EXCEPT ![i] = Tail(@)]
  /\ r' = [r EXCEPT ![i].pc = "idle"]
  /\ UNCHANGED <<shared, subscribed, w, sent, got>>

-----------------------------------------------------------------------------
(* enqueue: acquire_write, the caller's write, the rest of acquire_write,  *)
(* the sockets                                                             *)

Enqueue ==
  /\ w.pc = "idle" /\ w.obj < MaxObjects
  /\ \E big \in BOOLEAN : w' = [w EXCEPT !.pc = "wait", !.obj = @ + 1, !.big = big]
  /\ UNCHANGED <<shared, socket, subscribed, r, sent, got>>

\* A count that is content when one reader has not read the block.
WritableEarly(c) ==
  \/ ~written[c]
  \/ Cardinality({i \in LocalReaders : readFlag[c][i]}) >= NumReader - 1

\* Not written, or read by all readers.  Nobody but the writer clears these
\* flags or sets written, so reading them one by one sees no less.
Writable(c) ==
  \/ ~written[c]
  \/ Cardinality({i \in LocalReaders : readFlag[c][i]}) = NumReader

WriterClaims ==
  /\ w.pc = "wait" /\ Writable(w.idx)
  /\ written' = [written EXCEPT ![w.idx] = FALSE]
  /\ w' = [w EXCEPT !.pc = "header"]
  /\ UNCHANGED <<readFlag, overflow, data, socket, subscribed, r, sent, got>>

\* enqueue's timeout: TimeoutError, and the object is not sent
WriterTimesOut ==
  /\ w.pc = "wait" /\ ~Writable(w.idx)
  /\ w' = [w EXCEPT !.pc = "idle", !.obj = @ - 1]
  /\ UNCHANGED <<shared, socket, subscribed, r, sent, got>>

\* buf[0], and the first bytes of an object that fits
WriteHeader ==
  /\ w.pc = "header"
  /\ overflow' = [overflow EXCEPT ![w.idx] = w.big]
  /\ data' = IF w.big THEN data ELSE [data EXCEPT ![w.idx] = Torn]
  /\ w' = [w EXCEPT !.pc = IF w.big THEN "flags" ELSE "payload", !.flag = 1]
  /\ UNCHANGED <<written, readFlag, socket, subscribed, r, sent, got>>

WritePayload ==
  /\ w.pc = "payload"
  /\ data' = [data EXCEPT ![w.idx] = w.obj]
  /\ w' = [w EXCEPT !.pc = "flags"]
  /\ UNCHANGED <<written, readFlag, overflow, socket, subscribed, r, sent, got>>

\* A loop over the readers that ends one short.
FlagsClearedShort == w.flag >= NumReader

FlagsCleared == w.flag > NumReader

ClearFlag ==
  /\ w.pc = "flags" /\ ~FlagsCleared
  /\ readFlag' = [readFlag EXCEPT ![w.idx][w.flag] = FALSE]
  /\ w' = [w EXCEPT !.flag = @ + 1]
  /\ UNCHANGED <<written, overflow, data, socket, subscribed, r, sent, got>>

Commit ==
  /\ w.pc = "flags" /\ FlagsCleared
  /\ written' = [written EXCEPT ![w.idx] = TRUE]
  /\ sent' = w.obj
  /\ w' = [w EXCEPT !.pc = IF w.big THEN "publish" ELSE "remote_send",
                    !.idx = NextIdx(@), !.flag = 0]
  /\ UNCHANGED <<readFlag, overflow, data, socket, subscribed, r, got>>

\* local_socket.send of an object that does not fit
WriterPublishes ==
  /\ w.pc = "publish"
  /\ Publish(LocalReaders, w.obj)
  /\ w' = [w EXCEPT !.pc = "remote_send"]
  /\ UNCHANGED <<shared, subscribed, r, sent, got>>

WriterSendsRemote ==
  /\ w.pc = "remote_send"
  /\ Publish(RemoteReaders, w.obj)
  /\ w' = [w EXCEPT !.pc = "idle"]
  /\ UNCHANGED <<shared, subscribed, r, sent, got>>

-----------------------------------------------------------------------------
(* dequeue: acquire_read, the caller's read, the rest of acquire_read, the *)
(* socket                                                                  *)

\* read_flag is read, and written_flag in the next step
ReadReadFlag(i) ==
  /\ i \in LocalReaders /\ r[i].pc = "idle"
  /\ r' = [r EXCEPT ![i].pc = "written", ![i].flag = readFlag[r[i].idx][i]]
  /\ UNCHANGED <<shared, socket, subscribed, w, sent, got>>

\* A reader that does not look whether it has read the block before.
MayReadAgain(i) == written[r[i].idx]

MayRead(i) == written[r[i].idx] /\ ~r[i].flag

\* Otherwise the loop starts over, or ends with a timeout or a cancel; both
\* leave the queue as it is.
ReadWritten(i) ==
  /\ r[i].pc = "written"
  /\ r' = [r EXCEPT ![i].pc = IF MayRead(i) THEN "header" ELSE "idle", ![i].flag = FALSE]
  /\ UNCHANGED <<shared, socket, subscribed, w, sent, got>>

ReadHeader(i) ==
  /\ r[i].pc = "header"
  /\ r' = [r EXCEPT ![i].pc = IF overflow[r[i].idx] THEN "mark" ELSE "payload",
                    ![i].big = overflow[r[i].idx]]
  /\ UNCHANGED <<shared, socket, subscribed, w, sent, got>>

ReadPayload(i) ==
  /\ r[i].pc = "payload"
  /\ r' = [r EXCEPT ![i].pc = "mark", ![i].obj = data[r[i].idx]]
  /\ UNCHANGED <<shared, socket, subscribed, w, sent, got>>

Returned(i, obj) == got' = [got EXCEPT ![i] = Append(@, obj)]

MarkRead(i) ==
  /\ r[i].pc = "mark"
  /\ readFlag' = [readFlag EXCEPT ![r[i].idx][i] = TRUE]
  /\ r' = [r EXCEPT ![i].pc = IF r[i].big THEN "recv" ELSE "idle",
                    ![i].idx = NextIdx(@), ![i].big = FALSE, ![i].obj = Torn]
  /\ IF r[i].big THEN UNCHANGED got ELSE Returned(i, r[i].obj)
  /\ UNCHANGED <<written, overflow, data, socket, subscribed, w, sent>>

\* recv from the socket: a local reader after an overflow, a remote one always
Recv(i) ==
  /\ r[i].pc = IF i \in LocalReaders THEN "recv" ELSE "idle"
  /\ socket[i] # << >>
  /\ Returned(i, Head(socket[i]))
  /\ socket' = [socket EXCEPT ![i] = Tail(@)]
  /\ r' = [r EXCEPT ![i].pc = "idle"]
  /\ UNCHANGED <<shared, subscribed, w, sent>>

-----------------------------------------------------------------------------
Writer ==
  \/ WriterReadyLocal \/ WriterReadyRemote \/ Enqueue \/ WriterClaims
  \/ WriteHeader \/ WritePayload \/ ClearFlag \/ Commit
  \/ WriterPublishes \/ WriterSendsRemote

Reader(i) ==
  \/ Subscribe(i) \/ ReaderReady(i) \/ ReadReadFlag(i) \/ ReadWritten(i)
  \/ ReadHeader(i) \/ ReadPayload(i) \/ MarkRead(i) \/ Recv(i)

Next == Writer \/ WriterTimesOut \/ \E i \in AllReaders : Reader(i)

Spec == Init /\ [][Next]_vars

\* Every process runs; that a write times out is never certain.
FairSpec == Spec /\ WF_vars(Writer) /\ \A i \in AllReaders : WF_vars(Reader(i))

-----------------------------------------------------------------------------
WriterSteps == {"local", "remote", "idle", "wait", "header", "payload", "flags",
                "publish", "remote_send"}
ReaderSteps == {"connect", "ready", "idle", "written", "header", "payload", "mark", "recv"}

\* Flags are flags, and blocks hold objects that were enqueued.
TypeOK ==
  /\ written \in [Chunks -> BOOLEAN]
  /\ readFlag \in [Chunks -> [LocalReaders -> BOOLEAN]]
  /\ overflow \in [Chunks -> BOOLEAN]
  /\ data \in [Chunks -> {Torn} \cup 1 .. MaxObjects]
  /\ socket \in [AllReaders -> Seq(0 .. MaxObjects)]
  /\ subscribed \subseteq AllReaders
  /\ w \in [pc : WriterSteps, idx : Chunks, obj : 0 .. MaxObjects, big : BOOLEAN,
            flag : 0 .. NumReader + 1]
  /\ r \in [AllReaders -> [pc : ReaderSteps, idx : Chunks, flag : BOOLEAN, big : BOOLEAN,
                           obj : {Torn} \cup 1 .. MaxObjects]]
  /\ sent \in 0 .. MaxObjects
  /\ got \in [AllReaders -> Seq(0 .. MaxObjects)]

Reading(i, c) == r[i].idx = c /\ r[i].pc \in {"header", "payload", "mark"}
Writing(c) == w.idx = c /\ w.pc \in {"header", "payload", "flags"}

\* The flags of a block do the work of a lock: while a reader takes an
\* object out of a block the writer does not touch it, although nothing but
\* the order of the stores to the flags keeps them apart.
NoOverwriteWhileRead == \A c \in Chunks, i \in LocalReaders : ~(Reading(i, c) /\ Writing(c))

Channel == INSTANCE BroadcastChannel
             WITH Readers <- AllReaders, Objects <- 1 .. MaxObjects,
                  sent <- [k \in 1 .. sent |-> k]

\* Every reader, local or remote, dequeues exactly the objects that were
\* enqueued, each once and in order, small ones over the ring and big ones
\* over the socket, whatever reader is slow and whatever write timed out.
RefinesBroadcast == Channel!Spec

\* No reader waits forever for an object that was sent: a flag that is
\* cleared too late or not at all would leave it polling the wrong block.
EverythingIsDelivered ==
  \A i \in AllReaders, k \in 1 .. MaxObjects : sent >= k ~> Len(got[i]) >= k
=============================================================================
