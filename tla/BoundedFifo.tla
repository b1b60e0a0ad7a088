---- MODULE BoundedFifo ----
(* What the shared-memory ring buffer promises: a first-in first-out queue of
   at most Bound items between one producer and one consumer.  `out` is the
   item the consumer obtained last. *)
EXTENDS Naturals, Sequences

CONSTANTS Data,   \* the messages
          NoData, \* the content of a message variable before the first message
          Bound   \* the most items the queue holds

VARIABLES queue, out

vars == <<queue, out>>

Init == queue = <<>> /\ out = NoData

Put(d) == /\ Len(queue) < Bound
          /\ queue' = Append(queue, d)
          /\ UNCHANGED out

Take == /\ queue # <<>>
        /\ out' = Head(queue)
        /\ queue' = Tail(queue)

Next == Take \/ \E d \in Data : Put(d)

Spec == Init /\ [][Next]_vars

\* The consumer never stops taking what is there.
FairSpec == Spec /\ WF_vars(Take)
====
