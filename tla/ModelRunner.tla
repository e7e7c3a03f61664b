----------------------------- MODULE ModelRunner -----------------------------
(***************************************************************************)
(* The worker's side of a step (vllm/v1/worker/gpu_model_runner.py): the   *)
(* request states it mirrors from the scheduler's outputs, the KV cache it *)
(* writes through its own block tables, and the tokens it returns.  The    *)
(* runner is a record                                                      *)
(*                                                                         *)
(*   known  request -> the token ids and block ids of its                  *)
(*          CachedRequestState                                             *)
(*   rows   request -> its row of the persistent batch: token_ids_cpu      *)
(*          (NoToken where nothing was written for it) and block_table     *)
(*   data   block -> slot -> the KV entry last written there               *)
(*   images encoder_cache, the pairs <<request, input id>> with an output  *)
(*                                                                         *)
(* The key and value of a position depend on all the tokens up to it (and  *)
(* on the extra keys), so an entry is <<extra keys, those tokens>>.        *)
(*                                                                         *)
(* Left out: the order of the rows, sampling parameters; what the n-gram   *)
(* proposer writes into a row (the next update writes the same tokens      *)
(* there).  The encoder's and the model's forward passes are external; a   *)
(* sampled token can be any of Vocab.                                      *)
(***************************************************************************)
EXTENDS KVCacheManager, EncoderCacheManager

CONSTANTS Vocab,          \* the tokens the model can sample
          SpecMethod,     \* "none", "ngram" or "eagle"
          NumSpecTokens,  \* num_speculative_tokens
          DraftToken      \* the token every draft consists of

ASSUME RunnerAssumption ==
  /\ Vocab \subseteq Nat /\ DraftToken \in Vocab
  /\ SpecMethod \in {"none", "ngram", "eagle"}
  /\ NumSpecTokens \in Nat
  /\ UseEagle <=> SpecMethod = "eagle"

NoToken == 0
Junk == <<NoToken, << >>>>

InitRunner == [known |-> [r \in {} |-> << >>],
               rows  |-> [r \in {} |-> << >>],
               data  |-> [b \in Blocks |-> [s \in 1 .. BlockSize |-> Junk]],
               images |-> {}]

\* The last k elements of s, all of them if there are fewer: s[-k:]
LastOf(s, k) == SubSeq(s, Larger(1, Len(s) + 1 - k), Len(s))

\* The tokens of the cached state after the entry e of a scheduler output
TokensAfter(tokens, e) ==
  LET num == e.start + Len(e.tokens) - Len(tokens)
  IN  IF num > 0 THEN tokens \o LastOf(e.tokens, num) ELSE tokens

\* Block ids are appended for a running request and replaced for a resumed
\* one.
BlocksAfter(ids, e) == IF e.kind = "resumed" THEN e.ids ELSE ids \o e.ids

\* An update that never drops the finished requests.
KnownKeepsFinished(known, o) ==
  [r \in DOMAIN known \cup DOMAIN o.out |->
     IF r \notin DOMAIN o.out THEN known[r]
     ELSE LET e == o.out[r]
          IN  IF e.kind = "new" THEN [tokens |-> e.tokens, blocks |-> e.ids]
              ELSE [tokens |-> TokensAfter(known[r].tokens, e),
                    blocks |-> BlocksAfter(known[r].blocks, e)]]

\* _update_states: the cached request states after the scheduler output o
KnownAfter(known, o) ==
  [r \in (DOMAIN known \ o.finished) \cup DOMAIN o.out |->
     IF r \notin DOMAIN o.out THEN known[r]
     ELSE LET e == o.out[r]
          IN  IF e.kind = "new" THEN [tokens |-> e.tokens, blocks |-> e.ids]
              ELSE [tokens |-> TokensAfter(known[r].tokens, e),
                    blocks |-> BlocksAfter(known[r].blocks, e)]]

\* InputBatch.add_request: a row filled from the cached state
NewRow(k) ==
  [tokens |-> [i \in 1 .. MaxModelLen |->
                 IF i <= Len(k.tokens) THEN k.tokens[i] ELSE NoToken],
   blocks |-> k.blocks]

\* The row of a request that is in the batch already: its new tokens and its
\* drafts are written from its first position on, its block ids appended.
RowAfter(row, e) ==
  LET new == e.tokens \o e.spec
  IN  [tokens |-> [i \in 1 .. MaxModelLen |->
                     IF i - e.start \in DOMAIN new THEN new[i - e.start]
                     ELSE row.tokens[i]],
       blocks |-> row.blocks \o e.ids]

\* The rows that stay: those of finished and of unscheduled requests go.
RowsKept(rows, o) == (DOMAIN rows \ o.finished) \cap DOMAIN o.out

\* _update_states: the persistent batch after it; known is already updated.
RowsAfter(rows, known, o) ==
  [r \in DOMAIN o.out |->
     IF r \in RowsKept(rows, o) /\ o.out[r].kind # "new"
     THEN RowAfter(rows[r], o.out[r]) ELSE NewRow(known[r])]

BlockOf(row, pos) == row.blocks[(pos - 1) \div BlockSize + 1]
SlotOf(pos) == ((pos - 1) % BlockSize) + 1
KVAt(data, row, pos) == data[BlockOf(row, pos)][SlotOf(pos)]

Positions(e) == e.start + 1 .. e.start + e.n

\* The entry computed at pos: it rests on the one before the first scheduled
\* position, and on the tokens read from the row.
Computed(data, r, row, e, pos) ==
  LET before == IF e.start = 0 THEN << >> ELSE KVAt(data, row, e.start)[2]
  IN  <<ExtraKeys[r], before \o SubSeq(row.tokens, e.start + 1, pos)>>

\* One layer writes the KV of every scheduled token before its attention
\* reads.
Written(data, rows, out) ==
  [b \in Blocks |-> [s \in 1 .. BlockSize |->
     LET writes == {x \in (DOMAIN out) \X (1 .. MaxModelLen) :
                      /\ x[2] \in Positions(out[x[1]])
                      /\ BlockOf(rows[x[1]], x[2]) = b /\ SlotOf(x[2]) = s}
         w == CHOOSE x \in writes : TRUE
     IN  IF writes = {} THEN data[b][s]
         ELSE Computed(data, w[1], rows[w[1]], out[w[1]], w[2])]]

\* A prefix that other requests of the batch compute in the same step is read
\* in the layers above: as many layers as there are such requests in a row.
ForwardPass(data, rows, out) ==
  LET layer[l \in 0 .. Cardinality(DOMAIN out)] ==
        IF l = 0 THEN data ELSE Written(layer[l - 1], rows, out)
  IN  layer[Cardinality(DOMAIN out)]

\* _update_states: the encoder outputs that stay
ImagesKept(images, o) == {p \in images \ o.freed : p[1] \notin o.finished}

\* _execute_mm_encoder
Encoded(out) == UNION {{<<r, i>> : i \in out[r].inputs} : r \in DOMAIN out}

\* _gather_mm_embeddings: the images that the tokens of e are taken from
ImagesRead(r, e) ==
  {<<r, i>> : i \in {k \in DOMAIN MMPositions[r] : /\ Offset(r, k) < e.start + e.n
                                                  /\ ImageEnd(r, k) > e.start}}

\* execute_model
Execute(w, o) ==
  LET known == KnownAfter(w.known, o)
      rows == RowsAfter(w.rows, known, o)
  IN  [known |-> known, rows |-> rows, data |-> ForwardPass(w.data, rows, o.out),
       images |-> ImagesKept(w.images, o) \cup Encoded(o.out)]

\* A runner that returns a token for every request of the batch.
IsSampledAlways(known, r, e) == TRUE

\* The sampled token of a partial prefill is discarded: seq_len < num_tokens,
\* by the worker's own count of the request's tokens.
IsSampled(known, r, e) == e.start + e.n >= Len(known[r].tokens)

\* The drafts the model was given: the row's last scheduled tokens
FedDrafts(row, e) ==
  SubSeq(row.tokens, e.start + e.n - Len(e.spec) + 1, e.start + e.n)

\* The accepted drafts, any number of those the model can sample, and one
\* more token
Generated(fed, sampled) ==
  IF ~ sampled THEN {<< >>}
  ELSE {SubSeq(fed, 1, a) \o <<t>> :
          a \in {k \in 0 .. Len(fed) : \A i \in 1 .. k : fed[i] \in Vocab},
          t \in Vocab}

Draft(k) == [i \in 1 .. k |-> DraftToken]

\* spec_token_ids for the next step, numTokens being the length after this
\* one: the n-gram proposer may find nothing and is not asked after a partial
\* prefill or at the end of the context; eagle always proposes.
Drafts(generated, numTokens) ==
  CASE SpecMethod = "none"  -> {<< >>}
    [] SpecMethod = "eagle" -> {Draft(NumSpecTokens)}
    [] SpecMethod = "ngram" ->
         IF generated = << >> \/ numTokens >= MaxModelLen THEN {<< >>}
         ELSE {Draft(k) : k \in 0 .. NumSpecTokens}

-----------------------------------------------------------------------------
\* The positions attention reads for the tokens of e
ReadPositions(e) ==
  Larger(1, IF SlidingWindow = 0 THEN 1 ELSE e.start + 2 - SlidingWindow)
    .. e.start + e.n - Len(e.spec)

\* Every KV entry that a scheduled token of r attends to, drafts apart, is the
\* one of r's own tokens.
ReadsOwn(w, o, tokens) ==
  LET after == Execute(w, o)
  IN  \A r \in DOMAIN o.out :
        \A pos \in ReadPositions(o.out[r]) :
          KVAt(after.data, after.rows[r], pos)
            = <<ExtraKeys[r], SubSeq(tokens[r], 1, pos)>>
=============================================================================
