-------------------------- MODULE BroadcastChannel --------------------------
(***************************************************************************)
(* What MessageQueue promises the executor and its workers: every reader   *)
(* gets every object the writer sent, once and in the order of sending.    *)
(***************************************************************************)
EXTENDS Integers, Sequences

CONSTANTS Readers, Objects

VARIABLES sent,         \* the objects sent
          got           \* for each reader, the objects it dequeued

Init == /\ sent = << >>
        /\ got = [r \in Readers |-> << >>]

Send == /\ \E obj \in Objects : sent' = Append(sent, obj)
        /\ UNCHANGED got

Receive(r) == /\ Len(got[r]) < Len(sent)
              /\ got' = [got EXCEPT ![r] = Append(@, sent[Len(@) + 1])]
              /\ UNCHANGED sent

Next == Send \/ \E r \in Readers : Receive(r)

Spec == Init /\ [][Next]_<<sent, got>>
=============================================================================
