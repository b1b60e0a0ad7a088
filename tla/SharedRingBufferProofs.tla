---- MODULE SharedRingBufferProofs ----
(* The ring buffer keeps its promise for every capacity and every set of
   messages: TLC checks the same formulas on a ring of four slots. *)
EXTENDS SharedRingBuffer, SequenceTheorems, TLAPS

\* The masked increment goes round to the first slot after the last.
LEMMA IncIs == ASSUME NEW i \in Slots
               PROVE  /\ Inc(i) \in Slots
                      /\ Inc(i) = IF i + 1 = Capacity THEN 0 ELSE i + 1
<1>1. CASE i + 1 = Capacity
  BY <1>1, CapacityAssumption, SMT DEF Inc, Slots
<1>2. CASE i + 1 # Capacity
  BY <1>2, CapacityAssumption, SMT DEF Inc, Slots
<1> QED BY <1>1, <1>2

\* A load returns a slot that lies on the way from the value seen to the value stored.
LEMMA LoadsLie == ASSUME NEW seen \in Slots, NEW now \in Slots, NEW x \in Loads(seen, now)
                  PROVE  /\ x \in Slots
                         /\ Dist(seen, x) + Dist(x, now) = Dist(seen, now)
BY CapacityAssumption, SMT DEF Loads, Span, Dist, Slots

\* Distances round the ring are never negative and stay below the capacity.
LEMMA DistType == ASSUME NEW a \in Slots, NEW b \in Slots
                  PROVE  /\ Dist(a, b) \in 0..(Capacity - 1)
                         /\ Dist(a, b) = 0 <=> a = b
BY CapacityAssumption, SMT DEF Dist, Slots

\* b lies between a and t, and t between a and h: then t lies between b and h.
LEMMA LaterView ==
  ASSUME NEW a \in Slots, NEW b \in Slots, NEW t \in Slots, NEW h \in Slots,
         Dist(a, b) + Dist(b, t) = Dist(a, t), Dist(t, h) <= Dist(a, h)
  PROVE  Dist(t, h) <= Dist(b, h)
BY CapacityAssumption, SMT DEF Dist, Slots

\* b lies between a and h, and a between t and h: then b lies between t and h.
LEMMA CloserView ==
  ASSUME NEW a \in Slots, NEW b \in Slots, NEW t \in Slots, NEW h \in Slots,
         Dist(a, b) + Dist(b, h) = Dist(a, h), Dist(t, a) <= Dist(t, h)
  PROVE  Dist(t, b) <= Dist(t, h)
BY CapacityAssumption, SMT DEF Dist, Slots

\* Advancing either end by one.
LEMMA StepEnd ==
  ASSUME NEW a \in Slots, NEW b \in Slots
  PROVE  /\ Dist(a, b) < Capacity - 1 => Dist(a, Inc(b)) = Dist(a, b) + 1
         /\ Dist(a, b) = Capacity - 1 <=> Inc(b) = a
         /\ Dist(a, b) > 0 => Dist(Inc(a), b) = Dist(a, b) - 1
<1>1. CASE a + 1 = Capacity /\ b + 1 = Capacity
  BY <1>1, IncIs, CapacityAssumption, SMT DEF Dist, Slots
<1>2. CASE a + 1 = Capacity /\ b + 1 # Capacity
  BY <1>2, IncIs, CapacityAssumption, SMT DEF Dist, Slots
<1>3. CASE a + 1 # Capacity /\ b + 1 = Capacity
  BY <1>3, IncIs, CapacityAssumption, SMT DEF Dist, Slots
<1>4. CASE a + 1 # Capacity /\ b + 1 # Capacity
  BY <1>4, IncIs, CapacityAssumption, SMT DEF Dist, Slots
<1> QED BY <1>1, <1>2, <1>3, <1>4

---------------------------------------------------------------------------
\* Both indices stay inside the buffer, also the old ones each side works with.
THEOREM TypeCorrect == Spec => []TypeOK
<1>1. Init => TypeOK
  BY CapacityAssumption DEF Init, TypeOK, Slots
<1>2. TypeOK /\ [Next]_vars => TypeOK'
  <2> SUFFICES ASSUME TypeOK, [Next]_vars PROVE TypeOK'
    OBVIOUS
  <2> USE DEF TypeOK
  <2>1. ASSUME NEW d \in Data, PushCheck(d) PROVE TypeOK'
    BY <2>1, LoadsLie DEF PushCheck, consVars
  <2>2. CASE PushWrite
    BY <2>2 DEF PushWrite, consVars
  <2>3. CASE PushPublish
    BY <2>3, IncIs DEF PushPublish, consVars
  <2>4. CASE PopCheck
    BY <2>4, LoadsLie DEF PopCheck, prodVars
  <2>5. CASE PopRead
    BY <2>5 DEF PopRead, prodVars
  <2>6. CASE PopPublish
    BY <2>6, IncIs DEF PopPublish, prodVars
  <2>7. CASE UNCHANGED vars
    BY <2>7 DEF vars
  <2> QED BY <2>1, <2>2, <2>3, <2>4, <2>5, <2>6, <2>7 DEF Next, Push, Pop
<1> QED BY <1>1, <1>2, PTL DEF Spec

---------------------------------------------------------------------------
(* The strengthening.  tailSeen trails tail without falling behind head, and
   headSeen trails head without falling behind tail; what each side found when
   it loaded the other's index still bounds what it may do. *)
StaleViews == /\ Dist(tail, head) <= Dist(tailSeen, head)
              /\ Dist(tail, headSeen) <= Dist(tail, head)
              /\ pushing # "no" => Dist(tailSeen, head) < Capacity - 1
              /\ popping # "no" => Dist(tail, headSeen) > 0

SlotContents == /\ pushing # "no" => arg \in Data
                /\ pushing = "publish" => buffer[head] = arg
                /\ popping = "publish" => item = buffer[tail]

IInv == StaleViews /\ SlotContents

\* Stale views only ever understate what a side may do, and slots hold what was put there.
LEMMA Inductive == Spec => []IInv
<1>1. Init => IInv
  BY CapacityAssumption DEF Init, IInv, StaleViews, SlotContents, Dist, Slots
<1>2. TypeOK /\ IInv /\ [Next]_vars => IInv'
  <2> SUFFICES ASSUME TypeOK, IInv, [Next]_vars PROVE IInv'
    OBVIOUS
  <2> USE CapacityAssumption DEF TypeOK, IInv, StaleViews, SlotContents
  <2>1. ASSUME NEW d \in Data, PushCheck(d) PROVE IInv'
    <3>1. /\ tailSeen' \in Slots
          /\ Dist(tailSeen, tailSeen') + Dist(tailSeen', tail) = Dist(tailSeen, tail)
      BY <2>1, LoadsLie DEF PushCheck
    <3>2. Dist(tail, head) <= Dist(tailSeen', head)
      BY <3>1, LaterView
    <3>3. Inc(head) # tailSeen' => Dist(tailSeen', head) < Capacity - 1
      BY <3>1, StepEnd, DistType, SMT
    <3> QED BY <2>1, <3>1, <3>2, <3>3 DEF PushCheck, consVars
  <2>2. CASE PushWrite
    <3>1. popping = "publish" => head # tail
      BY DistType, SMT
    <3> QED BY <2>2, <3>1 DEF PushWrite, consVars
  <2>3. CASE PushPublish
    <3>1. /\ head' = Inc(head)
          /\ pushing' = "no"
          /\ UNCHANGED <<tail, buffer, arg, tailSeen, popping, item, headSeen>>
      BY <2>3 DEF PushPublish, consVars
    <3>2. Dist(tailSeen, head) < Capacity - 1
      BY <2>3 DEF PushPublish
    <3>3. /\ Dist(tail, head) \in Int /\ Dist(tailSeen, head) \in Int
          /\ Dist(tail, headSeen) \in Int
      BY DistType, SMT
    <3>4. /\ Dist(tailSeen, Inc(head)) = Dist(tailSeen, head) + 1
          /\ Dist(tail, Inc(head)) = Dist(tail, head) + 1
      BY <3>2, <3>3, StepEnd, SMT
    <3>5. /\ Dist(tail, Inc(head)) <= Dist(tailSeen, Inc(head))
          /\ Dist(tail, headSeen) <= Dist(tail, Inc(head))
      BY <3>4, <3>3, SMT
    <3> QED BY <3>1, <3>5
  <2>4. CASE PopCheck
    <3>1. /\ headSeen' \in Slots
          /\ Dist(headSeen, headSeen') + Dist(headSeen', head) = Dist(headSeen, head)
      BY <2>4, LoadsLie DEF PopCheck
    <3>2. Dist(tail, headSeen') <= Dist(tail, head)
      BY <3>1, CloserView
    <3>3. tail # headSeen' => Dist(tail, headSeen') > 0
      BY <3>1, DistType, SMT
    <3> QED BY <2>4, <3>1, <3>2, <3>3 DEF PopCheck, prodVars
  <2>5. CASE PopRead
    BY <2>5 DEF PopRead, prodVars
  <2>6. CASE PopPublish
    <3>1. /\ tail' = Inc(tail)
          /\ popping' = "no"
          /\ UNCHANGED <<head, buffer, arg, pushing, tailSeen, headSeen>>
      BY <2>6 DEF PopPublish, prodVars
    <3>2. Dist(tail, headSeen) > 0
      BY <2>6 DEF PopPublish
    <3>3. /\ Dist(tail, head) \in Int /\ Dist(tailSeen, head) \in Int
          /\ Dist(tail, headSeen) \in Int
      BY DistType, SMT
    <3>4. /\ Dist(Inc(tail), headSeen) = Dist(tail, headSeen) - 1
          /\ Dist(Inc(tail), head) = Dist(tail, head) - 1
      BY <3>2, <3>3, StepEnd, SMT
    <3>5. /\ Dist(Inc(tail), head) <= Dist(tailSeen, head)
          /\ Dist(Inc(tail), headSeen) <= Dist(Inc(tail), head)
      BY <3>4, <3>3, SMT
    <3> QED BY <3>1, <3>5
  <2>7. CASE UNCHANGED vars
    BY <2>7 DEF vars
  <2> QED BY <2>1, <2>2, <2>3, <2>4, <2>5, <2>6, <2>7 DEF Next, Push, Pop
<1> QED BY <1>1, <1>2, TypeCorrect, PTL DEF Spec

(* A full ring is never written and an empty one never read, whatever stale
   index the side worked with. *)
THEOREM StaleIndexSafety == Spec => []StaleIndexIsSafe
<1>1. TypeOK /\ IInv => StaleIndexIsSafe
  BY CapacityAssumption, SMT
  DEF TypeOK, IInv, StaleViews, SlotContents, StaleIndexIsSafe, Size, Dist, Slots
<1> QED BY <1>1, TypeCorrect, Inductive, PTL

\* The two sides never touch the same slot at the same time.
THEOREM SlotSafety == Spec => []NoSlotRace
<1>1. TypeOK /\ IInv => NoSlotRace
  BY CapacityAssumption, SMT DEF TypeOK, IInv, StaleViews, NoSlotRace, Dist, Slots
<1> QED BY <1>1, TypeCorrect, Inductive, PTL

---------------------------------------------------------------------------
\* The slots of the queue, and what the two publishing steps do to them.
LEMMA QueueSlots ==
  ASSUME TypeOK, NEW k \in 1..Size
  PROVE  Wrap(tail + k - 1) \in Slots /\ Wrap(tail + k - 1) # head
BY CapacityAssumption, SMT DEF TypeOK, Size, Dist, Wrap, Slots

\* The ring holds at least one slot less than it has.
LEMMA SizeType == ASSUME TypeOK
                  PROVE  Size \in Nat /\ Size < Capacity
BY CapacityAssumption, SMT DEF TypeOK, Size, Dist, Slots

\* The slots from t on, read in order round the ring, are a sequence.
LEMMA SlotsAreQueue ==
  ASSUME NEW t \in Slots, NEW n \in 0..(Capacity - 1), NEW b \in [Slots -> Data \cup {NoData}]
  PROVE  LET q == [k \in 1..n |-> b[Wrap(t + k - 1)]]
         IN  q \in Seq(Data \cup {NoData}) /\ Len(q) = n
<1>1. \A k \in 1..n : Wrap(t + k - 1) \in Slots
  BY CapacityAssumption, SMT DEF Wrap, Slots
<1>2. n \in Nat
  BY CapacityAssumption, SMT
<1>3. [k \in 1..n |-> b[Wrap(t + k - 1)]] \in [1..n -> Data \cup {NoData}]
  BY <1>1
<1> QED BY <1>2, <1>3, SMT

\* The ring read as a queue is a sequence of its size.
LEMMA QueueType == ASSUME TypeOK
                   PROVE  Queue \in Seq(Data \cup {NoData}) /\ Len(Queue) = Size
<1>1. Size \in 0..(Capacity - 1)
  BY SizeType, CapacityAssumption, SMT
<1> QED BY <1>1, SlotsAreQueue DEF Queue, TypeOK

\* The store of head_ is the moment at which the item joins the queue.
LEMMA PublishPuts ==
  ASSUME TypeOK, TypeOK', IInv, PushPublish
  PROVE  Fifo!Put(arg)
<1>1. /\ head' = Inc(head) /\ UNCHANGED <<tail, buffer, popped>>
      /\ buffer[head] = arg
  BY DEF PushPublish, consVars, IInv, SlotContents
<1>2. Size < Capacity - 1
  BY CapacityAssumption, SMT DEF PushPublish, IInv, StaleViews, TypeOK, Size, Dist, Slots
<1>3. Size' = Size + 1
  <2>1. Size' = Dist(tail, Inc(head))
    BY <1>1 DEF Size, Dist
  <2> QED BY <1>2, <2>1, StepEnd DEF TypeOK, Size
<1>4. Wrap(tail + Size) = head
  BY CapacityAssumption, SMT DEF TypeOK, Size, Dist, Wrap, Slots
<1>5. Queue' = Append(Queue, arg)
  <2> DEFINE M == Data \cup {NoData}
  <2>1. Queue \in Seq(M) /\ Len(Queue) = Size /\ Queue' \in Seq(M) /\ Len(Queue') = Size'
    <3>1. Size' \in 0..(Capacity - 1)
      BY <1>2, <1>3, SizeType, CapacityAssumption, SMT
    <3>2. Queue' = [k \in 1..Size' |-> buffer'[Wrap(tail' + k - 1)]]
      BY DEF Queue, Wrap
    <3>3. tail' \in Slots /\ buffer' \in [Slots -> Data \cup {NoData}]
      BY DEF TypeOK
    <3>4. Queue' \in Seq(M) /\ Len(Queue') = Size'
      BY <3>1, <3>2, <3>3, SlotsAreQueue
    <3> QED BY <3>4, QueueType
  <2>2. arg \in M
    BY DEF TypeOK
  <2>3. /\ Append(Queue, arg) \in Seq(M)
        /\ Len(Append(Queue, arg)) = Size + 1
        /\ \A k \in 1..Size : Append(Queue, arg)[k] = Queue[k]
        /\ Append(Queue, arg)[Size + 1] = arg
    BY <2>1, <2>2, AppendProperties
  <2>4. ASSUME NEW k \in 1..Size PROVE Queue'[k] = Queue[k]
    <3>1. k \in 1..Size'
      BY <1>3, SizeType, SMT
    <3>2. Queue'[k] = buffer'[Wrap(tail' + k - 1)]
      BY <3>1 DEF Queue, Wrap
    <3> QED BY <3>2, <1>1 DEF Queue
  <2>5. Queue'[Size + 1] = arg
    <3>1. Size + 1 \in 1..Size'
      BY <1>3, SizeType, SMT
    <3>2. Queue'[Size + 1] = buffer'[Wrap(tail' + (Size + 1) - 1)]
      BY <3>1 DEF Queue, Wrap
    <3>3. tail + (Size + 1) - 1 = tail + Size
      BY SizeType, SMT DEF TypeOK, Slots
    <3> QED BY <3>2, <3>3, <1>1, <1>4
  <2>6. \A k \in 1..Len(Queue') : Queue'[k] = Append(Queue, arg)[k]
    BY <1>3, <2>1, <2>3, <2>4, <2>5, SizeType, SMT
  <2> QED BY <1>3, <2>1, <2>3, <2>6, SeqEqual
<1>6. Len(Queue) < Capacity - 1
  BY <1>2, QueueType
<1> QED BY <1>1, <1>5, <1>6 DEF Fifo!Put

\* The store of tail_ is the moment at which the first item leaves the queue.
LEMMA PublishTakes ==
  ASSUME TypeOK, TypeOK', IInv, PopPublish
  PROVE  Fifo!Take
<1>1. /\ tail' = Inc(tail) /\ UNCHANGED <<head, buffer>> /\ popped' = item
      /\ item = buffer[tail]
  BY DEF PopPublish, IInv, SlotContents
<1>2. Size > 0
  BY CapacityAssumption, SMT DEF PopPublish, IInv, StaleViews, TypeOK, Size, Dist, Slots
<1>3. Size' = Size - 1
  <2>1. Size' = Dist(Inc(tail), head)
    BY <1>1 DEF Size, Dist
  <2> QED BY <1>2, <2>1, StepEnd DEF TypeOK, Size
<1>4. Queue # <<>> /\ Head(Queue) = item
  <2>1. Wrap(tail) = tail
    BY CapacityAssumption, SMT DEF TypeOK, Wrap, Slots
  <2>2. Queue[1] = buffer[Wrap(tail + 1 - 1)]
    BY <1>2, SizeType DEF Queue
  <2>3. tail + 1 - 1 = tail
    BY SMT DEF TypeOK, Slots
  <2> QED BY <1>1, <1>2, <2>1, <2>2, <2>3, QueueType, SizeType, SMT
<1>5. Queue' = Tail(Queue)
  <2> DEFINE M == Data \cup {NoData}
  <2>1. Queue \in Seq(M) /\ Len(Queue) = Size /\ Queue' \in Seq(M) /\ Len(Queue') = Size'
    <3>1. Size' \in 0..(Capacity - 1)
      BY <1>2, <1>3, SizeType, CapacityAssumption, SMT
    <3>2. Queue' = [k \in 1..Size' |-> buffer'[Wrap(tail' + k - 1)]]
      BY DEF Queue, Wrap
    <3>3. tail' \in Slots /\ buffer' \in [Slots -> Data \cup {NoData}]
      BY DEF TypeOK
    <3>4. Queue' \in Seq(M) /\ Len(Queue') = Size'
      BY <3>1, <3>2, <3>3, SlotsAreQueue
    <3> QED BY <3>4, QueueType
  <2>2. /\ Tail(Queue) \in Seq(M)
        /\ Len(Tail(Queue)) = Size - 1
        /\ \A k \in 1..(Size - 1) : Tail(Queue)[k] = Queue[k + 1]
    BY <2>1, <1>4, HeadTailProperties
  <2>3. ASSUME NEW k \in 1..(Size - 1) PROVE Queue'[k] = Queue[k + 1]
    <3>1. k \in 1..Size' /\ k + 1 \in 1..Size /\ k \in Int
      BY <1>3, SizeType, SMT
    <3>2. Queue'[k] = buffer'[Wrap(tail' + k - 1)]
      BY <3>1 DEF Queue, Wrap
    <3>3. Wrap(Inc(tail) + k - 1) = Wrap(tail + (k + 1) - 1)
      <4>1. CASE tail + 1 = Capacity
        <5>1. Inc(tail) = 0
          BY <4>1, IncIs DEF TypeOK
        <5>2. k < Capacity
          BY SizeType, CapacityAssumption, SMT
        <5> QED BY <4>1, <5>1, <5>2, <3>1, CapacityAssumption, SMT DEF TypeOK, Wrap, Slots
      <4>2. CASE tail + 1 # Capacity
        <5>1. Inc(tail) = tail + 1
          BY <4>2, IncIs DEF TypeOK
        <5>2. Inc(tail) + k - 1 = tail + (k + 1) - 1
          BY <5>1, <3>1, SMT DEF TypeOK, Slots
        <5> QED BY <5>2
      <4> QED BY <4>1, <4>2
    <3> QED BY <3>1, <3>2, <3>3, <1>1 DEF Queue
  <2> QED BY <1>3, <2>1, <2>2, <2>3, SeqEqual
<1> QED BY <1>1, <1>4, <1>5 DEF Fifo!Take

(* The ring implements the bounded queue: every step of either side is a Put,
   a Take, or invisible. *)
THEOREM Refinement == Spec => RefinesFifo
<1>1. Init => Fifo!Init
  <2> SUFFICES ASSUME Init PROVE Fifo!Init
    OBVIOUS
  <2>1. Size = 0
    BY CapacityAssumption, SMT DEF Init, Size, Dist
  <2>2. Queue = <<>>
    BY <2>1, SMT DEF Queue
  <2> QED BY <2>2 DEF Init, Fifo!Init
<1>2. TypeOK /\ TypeOK' /\ IInv /\ [Next]_vars => [Fifo!Next]_(Fifo!vars)
  <2> SUFFICES ASSUME TypeOK, TypeOK', IInv, [Next]_vars
               PROVE  Fifo!Next \/ UNCHANGED <<Queue, popped>>
    BY DEF Fifo!vars
  <2>1. ASSUME NEW d \in Data, PushCheck(d) PROVE UNCHANGED <<Queue, popped>>
    BY <2>1 DEF PushCheck, consVars, Queue, Size, Dist, Wrap
  <2>2. CASE PushWrite
    <3>1. UNCHANGED <<head, tail, popped>> /\ buffer' = [buffer EXCEPT ![head] = arg]
      BY <2>2 DEF PushWrite, consVars
    <3>2. Size' = Size
      BY <3>1 DEF Size, Dist
    <3>3. \A k \in 1..Size : buffer'[Wrap(tail + k - 1)] = buffer[Wrap(tail + k - 1)]
      BY <3>1, QueueSlots DEF TypeOK
    <3> QED BY <3>1, <3>2, <3>3 DEF Queue, Wrap
  <2>3. CASE PushPublish
    <3>1. arg \in Data
      BY <2>3 DEF PushPublish, IInv, SlotContents
    <3> QED BY <2>3, <3>1, PublishPuts DEF Fifo!Next
  <2>4. CASE PopCheck
    BY <2>4 DEF PopCheck, Queue, Size, Dist, Wrap
  <2>5. CASE PopRead
    BY <2>5 DEF PopRead, Queue, Size, Dist, Wrap
  <2>6. CASE PopPublish
    BY <2>6, PublishTakes DEF Fifo!Next
  <2>7. CASE UNCHANGED vars
    BY <2>7 DEF vars, Queue, Size, Dist, Wrap
  <2> QED BY <2>1, <2>2, <2>3, <2>4, <2>5, <2>6, <2>7 DEF Next, Push, Pop
<1> QED BY <1>1, <1>2, TypeCorrect, Inductive, PTL DEF Spec, RefinesFifo, Fifo!Spec
====
