---- MODULE SharedRingBuffer ----
(* The single-producer single-consumer ring in shared memory
   (SharedMemory/SharedRingBuffer.h), at the grain of its atomic loads and
   stores.  A push is three steps of the producer, a pop three of the consumer:
   the check against the other side's index, the access to the slot, and the
   store that publishes the new index.

   head_ and tail_ are written by one side each, so the owner's relaxed load
   reads the current value.  The other side's acquire load may return an old
   value, though never one older than it has seen before (coherence): tailSeen
   and headSeen are the values last seen, and a load returns any value from
   there to the current one. *)
EXTENDS Naturals, Sequences

CONSTANTS Capacity, \* slots; the code demands a power of two, so & is a modulo
          Data, NoData

ASSUME CapacityAssumption == Capacity \in Nat \ {0}

VARIABLES head, tail, buffer,       \* the shared memory
          pushing, arg, tailSeen,   \* the producer: step of push, its argument
          popping, item, headSeen,  \* the consumer: step of pop, what it copied
          popped                    \* what the last successful pop returned

prodVars == <<pushing, arg, tailSeen>>
consVars == <<popping, item, headSeen, popped>>
vars == <<head, tail, buffer, pushing, arg, tailSeen, popping, item, headSeen, popped>>

Slots == 0..(Capacity - 1)

TypeOK == /\ head \in Slots /\ tail \in Slots
          /\ buffer \in [Slots -> Data \cup {NoData}]
          /\ pushing \in {"no", "write", "publish"}
          /\ arg \in Data \cup {NoData}
          /\ tailSeen \in Slots
          /\ popping \in {"no", "read", "publish"}
          /\ item \in Data \cup {NoData}
          /\ headSeen \in Slots
          /\ popped \in Data \cup {NoData}

---------------------------------------------------------------------------
IncUnmasked(i) == i + 1

\* (i + 1) & (Capacity - 1)
Inc(i) == (i + 1) % Capacity

\* The slots from index a up to, and not including, index b.
Span(a, b) == IF a <= b THEN a..(b - 1) ELSE (a..(Capacity - 1)) \cup (0..(b - 1))

\* What an acquire load may return when `seen` was read before and `now` is stored.
Loads(seen, now) == Span(seen, now) \cup {now}

Init == /\ head = 0 /\ tail = 0
        /\ buffer = [s \in Slots |-> NoData]
        /\ pushing = "no" /\ arg = NoData /\ tailSeen = 0
        /\ popping = "no" /\ item = NoData /\ headSeen = 0 /\ popped = NoData

---------------------------------------------------------------------------
PushUnchecked(d) == /\ pushing = "no"
                    /\ tailSeen' \in Loads(tailSeen, tail)
                    /\ pushing' = "write"
                    /\ arg' = d
                    /\ UNCHANGED <<head, tail, buffer, consVars>>

\* push(item), up to the test for a full ring: push returns false on it.
PushCheck(d) == /\ pushing = "no"
                /\ tailSeen' \in Loads(tailSeen, tail)
                /\ \/ /\ Inc(head) = tailSeen'
                      /\ UNCHANGED <<pushing, arg>>
                   \/ /\ Inc(head) # tailSeen'
                      /\ pushing' = "write"
                      /\ arg' = d
                /\ UNCHANGED <<head, tail, buffer, consVars>>

PushWrite == /\ pushing = "write"
             /\ buffer' = [buffer EXCEPT ![head] = arg]
             /\ pushing' = "publish"
             /\ UNCHANGED <<head, tail, arg, tailSeen, consVars>>

PushPublish == /\ pushing = "publish"
               /\ head' = Inc(head)
               /\ pushing' = "no"
               /\ UNCHANGED <<tail, buffer, arg, tailSeen, consVars>>

---------------------------------------------------------------------------
PopUnchecked == /\ popping = "no"
                /\ headSeen' \in Loads(headSeen, head)
                /\ popping' = "read"
                /\ UNCHANGED <<head, tail, buffer, item, popped, prodVars>>

PopCheckCached == /\ popping = "no"
                  /\ popping' = IF tail = headSeen THEN "no" ELSE "read"
                  /\ UNCHANGED <<head, tail, buffer, headSeen, item, popped, prodVars>>

\* pop(item), up to the test for an empty ring: pop returns false on it.
PopCheck == /\ popping = "no"
            /\ headSeen' \in Loads(headSeen, head)
            /\ popping' = IF tail = headSeen' THEN "no" ELSE "read"
            /\ UNCHANGED <<head, tail, buffer, item, popped, prodVars>>

PopReadLate == /\ popping = "read"
               /\ item' = buffer[Inc(tail)]
               /\ popping' = "publish"
               /\ UNCHANGED <<head, tail, buffer, headSeen, popped, prodVars>>

PopRead == /\ popping = "read"
           /\ item' = buffer[tail]
           /\ popping' = "publish"
           /\ UNCHANGED <<head, tail, buffer, headSeen, popped, prodVars>>

PopPublish == /\ popping = "publish"
              /\ tail' = Inc(tail)
              /\ popped' = item
              /\ popping' = "no"
              /\ UNCHANGED <<head, buffer, item, headSeen, prodVars>>

---------------------------------------------------------------------------
Push == PushWrite \/ PushPublish \/ \E d \in Data : PushCheck(d)

Pop == PopCheck \/ PopRead \/ PopPublish

Next == Push \/ Pop

Spec == Init /\ [][Next]_vars

\* A consumer that keeps polling, and a store that becomes visible eventually.
PopSees == PopCheck /\ headSeen' = head

FairSpec == Spec /\ WF_vars(PopSees) /\ WF_vars(PopRead) /\ WF_vars(PopPublish)

---------------------------------------------------------------------------
\* How far b is ahead of a, going round.
Dist(a, b) == IF a <= b THEN b - a ELSE b + Capacity - a

\* The number of items between the indices, and the ring as a queue.
Size == Dist(tail, head)

Wrap(i) == IF i < Capacity THEN i ELSE i - Capacity

Queue == [k \in 1..Size |-> buffer[Wrap(tail + k - 1)]]

Fifo == INSTANCE BoundedFifo WITH queue <- Queue, out <- popped, Bound <- Capacity - 1

(* The producer never writes the slot the consumer is copying: the acquire and
   release of the two indices hand each slot over, whatever stale index either
   side works with (push lines 33-37, pop lines 48-54). *)
NoSlotRace == ~(pushing = "write" /\ popping = "read" /\ head = tail)

(* A side that acts on the index it loaded earlier still finds what it was
   promised: the slot being written is free and the slot being read is full,
   although the other side has moved on since the load. *)
StaleIndexIsSafe == /\ pushing # "no" => Size < Capacity - 1
                    /\ popping # "no" => Size > 0
                    /\ popping = "publish" => item = buffer[tail]

\* Every push that returns true is a Put and every pop that returns true a Take
\* of a bounded queue: nothing is lost, duplicated, reordered or overwritten.
RefinesFifo == Fifo!Spec

\* With a consumer that keeps polling, every item pushed is popped.
RefinesFairFifo == Fifo!FairSpec
====
