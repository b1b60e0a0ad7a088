---- MODULE DataConsumersProofs ----
(* Proofs about the engine's feed, over shared memory and from files, for every
   recording, ring size and list of files. *)
EXTENDS DataConsumers, ContainerFacts

---------------------------------------------------------------------------
(* Counting records. *)

\* What each file of a list holds for the engine.
Held(list) == [k \in DOMAIN list |-> MboIn(list[k])]

\* The messages among some records are a number, one more after every message.
LEMMA CountNext ==
  ASSUME NEW records \in Seq(STRING)
  PROVE  /\ MboCount(records) \in Nat
         /\ MboCount(SubSeq(records, 1, 0)) = 0
         /\ SubSeq(records, 1, Len(records)) = records
         /\ \A k \in 1..Len(records) :
              MboCount(SubSeq(records, 1, k))
                = MboCount(SubSeq(records, 1, k - 1)) + (IF IsMbo(records[k]) THEN 1 ELSE 0)
<1> DEFINE upTo(k) == {i \in 1..k : IsMbo(records[i])}
<1>1. ASSUME NEW k \in 0..Len(records)
      PROVE  MboCount(SubSeq(records, 1, k)) = Cardinality(upTo(k)) /\ IsFiniteSet(upTo(k))
  <2>1. /\ DOMAIN SubSeq(records, 1, k) = 1..k
        /\ \A i \in 1..k : SubSeq(records, 1, k)[i] = records[i]
    OBVIOUS
  <2>2. {i \in DOMAIN SubSeq(records, 1, k) : IsMbo(SubSeq(records, 1, k)[i])} = upTo(k)
    BY <2>1
  <2>3. IsFiniteSet(1..k) /\ upTo(k) \in SUBSET (1..k)
    BY FS_Interval
  <2>4. IsFiniteSet(upTo(k))
    <3> HIDE DEF upTo
    <3> QED
      BY <2>3, FS_Subset
  <2> QED
    BY <2>2, <2>4 DEF MboCount
<1>2. SubSeq(records, 1, Len(records)) = records
  OBVIOUS
<1>3. ASSUME NEW k \in 1..Len(records)
      PROVE  Cardinality(upTo(k)) = Cardinality(upTo(k - 1)) + (IF IsMbo(records[k]) THEN 1 ELSE 0)
  <2>1. /\ IsMbo(records[k]) => upTo(k) = upTo(k - 1) \cup {k}
        /\ ~IsMbo(records[k]) => upTo(k) = upTo(k - 1)
        /\ k \notin upTo(k - 1) /\ k - 1 \in 0..Len(records)
    OBVIOUS
  <2>2. IsFiniteSet(upTo(k - 1))
    BY <1>1, <2>1
  <2> HIDE DEF upTo
  <2>3. Cardinality(upTo(k - 1)) \in Nat
    BY <2>2, FS_CardinalityType
  <2>4. Cardinality(upTo(k - 1) \cup {k}) = Cardinality(upTo(k - 1)) + 1
    BY <2>1, <2>2, FS_AddElement
  <2>5. CASE IsMbo(records[k])
    BY <2>1, <2>4, <2>5
  <2>6. CASE ~IsMbo(records[k])
    BY <2>1, <2>3, <2>6
  <2> QED
    BY <2>5, <2>6
<1>4. Cardinality(upTo(0)) = 0
  <2>1. upTo(0) = {}
    OBVIOUS
  <2> QED
    BY <2>1, FS_EmptySet
<1>5. Len(records) \in Nat
  OBVIOUS
<1> HIDE DEF upTo
<1>6. MboCount(records) \in Nat
  <2>1. Len(records) \in 0..Len(records)
    BY <1>5
  <2>2. MboCount(records) = Cardinality(upTo(Len(records))) /\ IsFiniteSet(upTo(Len(records)))
    BY <1>1, <1>2, <2>1
  <2> QED
    BY <2>2, FS_CardinalityType
<1>7. \A k \in 1..Len(records) : k \in 0..Len(records) /\ k - 1 \in 0..Len(records)
  BY <1>5
<1>8. 0 \in 0..Len(records)
  BY <1>5
<1> QED
  BY <1>1, <1>2, <1>3, <1>4, <1>6, <1>7, <1>8

\* What a list of files holds is the sum over its files.
LEMMA RecordedIs ==
  ASSUME NEW list \in Seq(FileType)
  PROVE  /\ Recorded(list) = SumOver(Held(list), DOMAIN list)
         /\ IsFiniteSet(DOMAIN list) /\ Weighs(Held(list), DOMAIN list)
         /\ \A k \in DOMAIN list : MboIn(list[k]) \in Nat
<1> DEFINE S == DOMAIN list
           w == Held(list)
           pick == [T \in SUBSET S |-> Max(T)]
           f == CHOOSE g : g = [T \in SUBSET S |->
                  IF T = {} THEN 0 ELSE g[T \ {Max(T)}] + MboIn(list[Max(T)])]
<1>1. S = 1..Len(list) /\ Len(list) \in Nat
  OBVIOUS
<1>2. IsFiniteSet(S)
  BY <1>1, FS_Interval
<1>3. \A k \in S : MboIn(list[k]) \in Nat
  <2> SUFFICES ASSUME NEW k \in S PROVE MboIn(list[k]) \in Nat
    OBVIOUS
  <2>1. list[k] \in FileType
    OBVIOUS
  <2>2. list[k].records \in Seq(STRING)
    BY <2>1 DEF FileType
  <2> QED
    BY <2>2, CountNext DEF MboIn
<1>4. Weighs(w, S) /\ \A k \in S : w[k] = MboIn(list[k])
  BY <1>3 DEF Weighs, Held
<1>5. Recorded(list) = f[S]
  BY DEF Recorded, FoldLeft, MapThenFoldSet
<1> HIDE DEF S
<1>6. \A T \in SUBSET S : T # {} => Max(T) \in T
  <2> SUFFICES ASSUME NEW T \in SUBSET S, T # {} PROVE Max(T) \in T
    OBVIOUS
  <2>1. T \in SUBSET Int
    BY <1>1
  <2>2. IsFiniteSet(T)
    BY <1>2, FS_Subset
  <2> QED
    BY <2>1, <2>2, GreatestElement
<1>7. Picks(pick, S)
  BY <1>6 DEF Picks
<1>8. PICK g : AddsUp(g, w, S, pick)
  BY <1>2, <1>7, SumExists
<1>9. AnyFirst(g, w, S)
  BY <1>2, <1>4, <1>7, <1>8, SumAnyFirst
<1>10. g = [T \in SUBSET S |-> IF T = {} THEN 0 ELSE g[T \ {Max(T)}] + MboIn(list[Max(T)])]
  <2>1. ASSUME NEW T \in SUBSET S, T # {}
        PROVE  w[pick[T]] + g[T \ {pick[T]}] = g[T \ {Max(T)}] + MboIn(list[Max(T)])
    <3>1. pick[T] = Max(T) /\ Max(T) \in S
      BY <1>6, <2>1
    <3>2. w[Max(T)] = MboIn(list[Max(T)]) /\ MboIn(list[Max(T)]) \in Nat
      BY <1>3, <1>4, <3>1
    <3>3. g[T \ {Max(T)}] \in Int
      BY <1>9 DEF AnyFirst
    <3> HIDE DEF pick, w
    <3> QED
      BY <3>1, <3>2, <3>3
  <2> HIDE DEF pick, w
  <2> QED
    BY <1>8, <2>1 DEF AddsUp
<1>11. f = [T \in SUBSET S |-> IF T = {} THEN 0 ELSE f[T \ {Max(T)}] + MboIn(list[Max(T)])]
  <2> HIDE DEF w, pick
  <2> QED
    BY <1>10 DEF f
<1> HIDE DEF f
<1>12. f[S] = g[S]
  <2> DEFINE G == {T \in SUBSET S : f[T] = g[T]}
  <2>1. {} \in G
    BY <1>10, <1>11
  <2>2. ASSUME NEW T \in SUBSET S, T # {}, \A x \in T : T \ {x} \in G
        PROVE  T \in G
    <3>1. Max(T) \in T
      BY <1>6, <2>2
    <3>2. f[T \ {Max(T)}] = g[T \ {Max(T)}]
      BY <2>2, <3>1
    <3> QED
      BY <1>10, <1>11, <2>2, <3>2
  <2>3. S \in SUBSET S
    OBVIOUS
  <2> HIDE DEF G
  <2>4. SUBSET S \subseteq G
    BY <1>2, <2>1, <2>2, SubsetInduction
  <2> QED
    BY <2>3, <2>4 DEF G
<1>13. SumOver(w, S) = g[S]
  BY <1>2, <1>4, <1>7, <1>8, SumFound
<1> QED
  BY <1>2, <1>3, <1>4, <1>5, <1>12, <1>13 DEF S

\* A file more in the list.
LEMMA RecordedNext ==
  ASSUME NEW list \in Seq(FileType)
  PROVE  /\ Recorded(SubSeq(list, 1, 0)) = 0
         /\ SubSeq(list, 1, Len(list)) = list
         /\ \A k \in 1..Len(list) :
              /\ Recorded(SubSeq(list, 1, k)) = Recorded(SubSeq(list, 1, k - 1)) + MboIn(list[k])
              /\ Recorded(SubSeq(list, 1, k)) \in Int /\ Recorded(SubSeq(list, 1, k - 1)) \in Int
<1>1. ASSUME NEW k \in 0..Len(list)
      PROVE  /\ Recorded(SubSeq(list, 1, k)) = SumOver(Held(list), 1..k)
             /\ IsFiniteSet(1..k) /\ Weighs(Held(list), 1..k)
  <2> DEFINE s == SubSeq(list, 1, k)
  <2>1. /\ s \in Seq(FileType) /\ DOMAIN s = 1..k /\ 1..k \subseteq DOMAIN list
        /\ \A i \in 1..k : s[i] = list[i]
    OBVIOUS
  <2> HIDE DEF s
  <2>2. /\ Recorded(s) = SumOver(Held(s), 1..k)
        /\ IsFiniteSet(1..k) /\ Weighs(Held(s), 1..k)
    BY <2>1, RecordedIs
  <2>3. \A i \in 1..k : Held(s)[i] = Held(list)[i]
    BY <2>1 DEF Held
  <2>4. SumOver(Held(s), 1..k) = SumOver(Held(list), 1..k)
    BY <2>2, <2>3, SumSame
  <2>5. Weighs(Held(list), 1..k)
    BY <2>2, <2>3 DEF Weighs
  <2> QED
    BY <2>2, <2>4, <2>5 DEF s
<1>2. Len(list) \in Nat /\ DOMAIN list = 1..Len(list)
  OBVIOUS
<1>3. SubSeq(list, 1, Len(list)) = list
  OBVIOUS
<1>4. Recorded(SubSeq(list, 1, 0)) = 0
  <2>1. 0 \in 0..Len(list) /\ 1..0 = {}
    BY <1>2
  <2> QED
    BY <1>1, <2>1, SumOfNone
<1>5. ASSUME NEW k \in 1..Len(list)
      PROVE  /\ Recorded(SubSeq(list, 1, k)) = Recorded(SubSeq(list, 1, k - 1)) + MboIn(list[k])
             /\ Recorded(SubSeq(list, 1, k)) \in Int /\ Recorded(SubSeq(list, 1, k - 1)) \in Int
  <2>1. k \in 0..Len(list) /\ k - 1 \in 0..Len(list) /\ k \in 1..k /\ 1..(k - 1) = (1..k) \ {k}
    BY <1>2
  <2> DEFINE T == 1..k
             R == 1..(k - 1)
  <2>2. /\ Recorded(SubSeq(list, 1, k)) = SumOver(Held(list), T)
        /\ Recorded(SubSeq(list, 1, k - 1)) = SumOver(Held(list), R)
        /\ IsFiniteSet(T) /\ Weighs(Held(list), T) /\ k \in T /\ R = T \ {k}
    BY <1>1, <2>1
  <2>3. Held(list)[k] = MboIn(list[k]) /\ MboIn(list[k]) \in Nat
    BY <1>2, RecordedIs DEF Held
  <2> HIDE DEF T, R
  <2>4. /\ SumOver(Held(list), T) = Held(list)[k] + SumOver(Held(list), R)
        /\ SumOver(Held(list), T) \in Int /\ SumOver(Held(list), R) \in Int
    BY <2>2, SumWithout
  <2> QED
    BY <2>2, <2>3, <2>4
<1> QED
  BY <1>3, <1>4, <1>5

---------------------------------------------------------------------------
(* The feed over shared memory. *)

Begun == producer \in {"push", "end", "exit"}

\* The messages sent that the engine has not been given.
Pending == sent - Len(received)

\* The ring holds the messages sent and not yet received, in order, and behind them
\* at most the end marker, and before it was constructed nothing.
Carries ==
  /\ received \in Seq(Nat) /\ \A k \in 1..Len(received) : received[k] = k
  /\ sent \in 0..NumMsgs /\ Len(received) <= sent
  /\ producer \in {"open", "truncate", "reset", "construct", "push", "end", "exit"}
  /\ ~Begun => sent = 0 /\ ring = <<>>
  /\ producer \in {"end", "exit"} => sent = NumMsgs
  /\ ring \in Seq(Nat) /\ Len(ring) \in {Pending, Pending + 1}
  /\ \A k \in 1..Pending : ring[k] = Len(received) + k
  /\ Len(ring) = Pending + 1 => producer = "exit" /\ ring[Pending + 1] = EndOfData

\* The engine is one over shared memory, and what it has been given.
Shares == /\ files = <<>>
          /\ consumer \in {"open", "wait", "poll", "unlink", "exit"}
          /\ Carries
          /\ consumer \in {"unlink", "exit"} => producer = "exit" /\ Pending = 0

\* A message, or the marker, goes into the ring.
LEMMA RingGrows ==
  ASSUME NEW r \in Seq(Nat), NEW d \in Nat
  PROVE  /\ Append(r, d) \in Seq(Nat) /\ Len(Append(r, d)) = Len(r) + 1
         /\ Append(r, d)[Len(r) + 1] = d
         /\ \A k \in 1..Len(r) : Append(r, d)[k] = r[k]
OBVIOUS

\* The oldest comes out.
LEMMA RingShrinks ==
  ASSUME NEW r \in Seq(Nat), r # <<>>
  PROVE  /\ Head(r) = r[1] /\ Head(r) \in Nat /\ Len(r) >= 1
         /\ Tail(r) \in Seq(Nat) /\ Len(Tail(r)) = Len(r) - 1
         /\ \A k \in 1..(Len(r) - 1) : Tail(r)[k] = r[k + 1]
OBVIOUS

\* The engine is given the oldest message, or the marker after the last.
LEMMA PollKeeps ==
  ASSUME Shares, ConsumerPoll, UNCHANGED files
  PROVE  Shares'
<1> DEFINE n == Len(received)
<1>1. /\ ring \in Seq(Nat) /\ received \in Seq(Nat) /\ n \in Nat /\ sent \in Nat
      /\ n <= sent /\ Len(ring) \in Nat /\ NumMsgs \in Nat
      /\ Len(ring) \in {sent - n, sent - n + 1}
      /\ \A k \in 1..(sent - n) : ring[k] = n + k
      /\ Len(ring) = sent - n + 1 => producer = "exit" /\ ring[sent - n + 1] = 0
      /\ \A k \in 1..n : received[k] = k
  BY FeedAssumption DEF Shares, Carries, Pending, EndOfData
<1>2. /\ ring # <<>> /\ ring' = Tail(ring) /\ consumer = "poll"
      /\ Head(ring) = 0 => consumer' = "unlink" /\ UNCHANGED received
      /\ Head(ring) # 0 => received' = Append(received, Head(ring)) /\ UNCHANGED consumer
      /\ UNCHANGED <<files, producer, sent>>
  BY DEF ConsumerPoll, EndOfData
<1>3. /\ Head(ring) = ring[1] /\ Len(ring) >= 1 /\ ring' \in Seq(Nat)
      /\ Len(ring') = Len(ring) - 1
      /\ \A k \in 1..(Len(ring) - 1) : ring'[k] = ring[k + 1]
  BY <1>1, <1>2, RingShrinks
<1>4. /\ ~Begun => FALSE
      /\ sent \in 0..NumMsgs
      /\ producer \in {"end", "exit"} => sent = NumMsgs
      /\ producer \in {"open", "truncate", "reset", "construct", "push", "end", "exit"}
      /\ files = <<>>
  BY <1>2 DEF Shares, Carries
<1>5. CASE sent - n >= 1
  <2>1. ring[1] = n + 1 /\ Head(ring) # 0
    BY <1>1, <1>3, <1>5
  <2>2. received' = Append(received, n + 1) /\ UNCHANGED consumer
    BY <1>2, <1>3, <2>1
  <2>3. /\ received' \in Seq(Nat) /\ Len(received') = n + 1 /\ received'[n + 1] = n + 1
        /\ \A k \in 1..n : received'[k] = received[k]
    BY <1>1, <2>2, RingGrows
  <2> HIDE DEF n
  <2>4. \A k \in 1..Len(received') : received'[k] = k
    BY <1>1, <2>3
  <2>5. ASSUME NEW k \in 1..(sent - (n + 1)) PROVE ring'[k] = (n + 1) + k
    <3>1. k \in Nat /\ k + 1 \in 1..(sent - n) /\ k \in 1..(Len(ring) - 1)
      BY <1>1
    <3>2. ring'[k] = ring[k + 1] /\ ring[k + 1] = n + (k + 1)
      BY <1>1, <1>3, <3>1
    <3> QED
      BY <1>1, <3>1, <3>2
  <2>6. /\ Len(ring') \in {sent - (n + 1), sent - (n + 1) + 1}
        /\ Len(ring') = sent - (n + 1) + 1 => producer = "exit" /\ ring'[sent - (n + 1) + 1] = 0
    <3> DEFINE p == sent - n
    <3>1. p \in Nat /\ p >= 1 /\ sent - (n + 1) = p - 1 /\ sent - (n + 1) + 1 = p
      BY <1>1, <1>5
    <3>2. Len(ring) \in {p, p + 1} /\ Len(ring') = Len(ring) - 1
      BY <1>1, <1>3
    <3>3. Len(ring) = p + 1 => producer = "exit" /\ ring[p + 1] = 0
      BY <1>1
    <3> HIDE DEF p
    <3>4. Len(ring) = p + 1 => ring'[p] = ring[p + 1]
      BY <1>3, <3>1
    <3> QED
      BY <3>1, <3>2, <3>3, <3>4
  <2>7. n + 1 <= sent
    BY <1>1, <1>5
  <2> QED
    BY <1>2, <1>3, <1>4, <2>2, <2>3, <2>4, <2>5, <2>6, <2>7
    DEF Shares, Carries, Begun, Pending, EndOfData
<1>6. CASE sent - n = 0
  <2>1. Len(ring) = 1 /\ producer = "exit" /\ ring[1] = 0 /\ Head(ring) = 0
    BY <1>1, <1>3, <1>6
  <2>2. consumer' = "unlink" /\ UNCHANGED received
    BY <1>2, <2>1
  <2>3. Len(ring') = 0 /\ Pending' = 0
    BY <1>2, <1>3, <1>6, <2>1, <2>2 DEF Pending
  <2>4. /\ \A k \in 1..0 : ring'[k] = Len(received') + k
        /\ Len(ring') \in {0, 0 + 1} /\ Len(ring') # 0 + 1
    BY <2>3
  <2>5. Carries'
    BY <1>1, <1>2, <1>3, <1>4, <2>2, <2>3, <2>4 DEF Carries, Begun
  <2> QED
    BY <1>2, <1>4, <2>1, <2>2, <2>3, <2>5 DEF Shares
<1>7. sent - n \in Nat
  BY <1>1
<1> QED
  BY <1>5, <1>6, <1>7

\* A step of either process keeps what the ring carries.
LEMMA SharesStep ==
  ASSUME Shares, Next, UNCHANGED files
  PROVE  Shares'
<1> USE DEF Shares
<1>1. CASE ProducerOpen \/ ProducerTruncate \/ ProducerReset \/ ProducerConstruct
  <2>1. /\ UNCHANGED <<sent, received, files, consumer>> /\ ring = <<>> /\ ring' = ring /\ sent = 0
        /\ producer' \in {"truncate", "reset", "construct", "push"} /\ ~Begun
    BY <1>1 DEF ProducerOpen, ProducerTruncate, ProducerReset, ProducerConstruct, Carries, Begun
  <2> QED
    BY <2>1 DEF Carries, Begun, Pending
<1>2. CASE ProducerPush
  <2> DEFINE n == Len(received)
  <2>1. /\ ring \in Seq(Nat) /\ n \in Nat /\ sent \in Nat /\ sent < NumMsgs /\ NumMsgs \in Nat
        /\ producer = "push" /\ Len(ring) = sent - n /\ n <= sent
        /\ \A k \in 1..(sent - n) : ring[k] = n + k
    BY <1>2, FeedAssumption DEF ProducerPush, Carries, Pending
  <2>2. /\ ring' = Append(ring, sent + 1) /\ sent' = sent + 1
        /\ UNCHANGED <<producer, consumer, received, files>>
    BY <1>2 DEF ProducerPush
  <2>3. /\ ring' \in Seq(Nat) /\ Len(ring') = Len(ring) + 1
        /\ ring'[Len(ring) + 1] = sent + 1
        /\ \A k \in 1..Len(ring) : ring'[k] = ring[k]
    BY <2>1, <2>2, RingGrows
  <2> HIDE DEF n
  <2>4. /\ Len(ring') = sent + 1 - n /\ sent + 1 \in 0..NumMsgs /\ n <= sent + 1
        /\ Len(ring') # sent + 1 - n + 1
    BY <2>1, <2>3
  <2>5. ASSUME NEW k \in 1..(sent + 1 - n) PROVE ring'[k] = n + k
    <3>1. CASE k = Len(ring) + 1
      BY <2>1, <2>3, <3>1
    <3>2. CASE k # Len(ring) + 1
      <4>1. k \in 1..Len(ring) /\ k \in 1..(sent - n)
        BY <2>1, <3>2
      <4> QED
        BY <2>1, <2>3, <4>1
    <3> QED
      BY <3>1, <3>2
  <2> QED
    BY <2>1, <2>2, <2>3, <2>4, <2>5 DEF Carries, Begun, Pending, n
<1>3. CASE ProducerDataDone
  <2>1. /\ UNCHANGED <<sent, received, files, consumer, ring>> /\ sent = NumMsgs
        /\ producer = "push" /\ producer' = "end" /\ Len(ring) # Pending + 1
    BY <1>3 DEF ProducerDataDone, segment, Carries
  <2> QED
    BY <2>1 DEF Carries, Begun, Pending
<1>4. CASE ProducerSignalEnd
  <2> DEFINE n == Len(received)
  <2>1. /\ ring \in Seq(Nat) /\ n \in Nat /\ sent \in Nat
        /\ producer = "end" /\ Len(ring) = sent - n /\ n <= sent
        /\ \A k \in 1..(sent - n) : ring[k] = n + k
    BY <1>4 DEF ProducerSignalEnd, Carries, Pending
  <2>2. /\ ring' \in {ring, Append(ring, 0)} /\ producer' = "exit"
        /\ UNCHANGED <<sent, consumer, received, files>>
    BY <1>4 DEF ProducerSignalEnd, EndOfData
  <2>3. CASE ring' = ring
    BY <2>1, <2>2, <2>3 DEF Carries, Begun, Pending
  <2>4. CASE ring' = Append(ring, 0)
    <3>1. /\ ring' \in Seq(Nat) /\ Len(ring') = Len(ring) + 1 /\ ring'[Len(ring) + 1] = 0
          /\ \A k \in 1..Len(ring) : ring'[k] = ring[k]
      BY <2>1, <2>4, RingGrows
    <3> HIDE DEF n
    <3>2. /\ Len(ring') = sent - n + 1 /\ ring'[sent - n + 1] = 0
          /\ \A k \in 1..(sent - n) : ring'[k] = n + k
      BY <2>1, <3>1
    <3> QED
      BY <2>1, <2>2, <3>1, <3>2 DEF Carries, Begun, Pending, EndOfData, n
  <2> QED
    BY <2>2, <2>3, <2>4
<1>5. CASE ConsumerOpen \/ ConsumerWait \/ ConsumerUnlink
  <2>1. /\ UNCHANGED <<sent, received, files, producer, ring>>
        /\ \/ consumer' \in {"wait", "poll"}
           \/ consumer = "unlink" /\ consumer' = "exit"
    BY <1>5 DEF ConsumerOpen, ConsumerWait, ConsumerUnlink, segment
  <2> QED
    BY <2>1 DEF Carries, Begun, Pending
<1>6. CASE ConsumerPoll
  BY <1>6, PollKeeps
<1> QED
  BY <1>1, <1>2, <1>3, <1>4, <1>5, <1>6 DEF Next, Producer, Consumer

---------------------------------------------------------------------------
(* The feed from files. *)

IsMapping(m) == m = [next |-> m.next, base |-> m.base, sized |-> m.sized, at |-> m.at]

\* All messages of the files before number j are those the engine has been given.
Passed(list, j, n) == j \in 1..(Len(list) + 1) /\ n = Recorded(SubSeq(list, 1, j - 1))

\* The engine has been given n messages when the consumer stands in the file it has
\* mapped, or behind a file it has not.
Position(list, m, n) ==
  /\ IsMapping(m) /\ m.base \in {Unmapped, Failed} \cup DOMAIN list
  /\ m.base \in DOMAIN list =>
       /\ list[m.base].kind = "regular" /\ m.next = m.base + 1
       /\ m.at \in 0..Len(list[m.base].records)
       /\ n = Recorded(SubSeq(list, 1, m.base - 1)) + MboCount(SubSeq(list[m.base].records, 1, m.at))
  /\ m.base \in {Unmapped, Failed} => Passed(list, m.next, n)
  /\ m.base = Unmapped /\ m.next <= Len(list) =>
       \E k \in DOMAIN list : list[k].kind = "missing" /\ (k > 1 => list[k - 1].kind = "regular")

\* The next file is opened when the one before is done, or failed, or at first.
LEMMA OpensNext ==
  ASSUME NEW list \in Seq(FileType), NEW m, IsMapping(m), NEW n, Passed(list, m.next, n),
         \/ m.base = Unmapped /\ m.next = 1 /\ list # <<>>
         \/ m.base = Failed
         \/ m.base \in DOMAIN list /\ list[m.base].kind = "regular" /\ m.next = m.base + 1
  PROVE  Position(list, OpenNextFile(list, m), n)
<1> DEFINE o == OpenNextFile(list, m)
           u == UnmappedCurrent(m)
           next == m.next
<1>1. /\ Len(list) \in Nat /\ DOMAIN list = 1..Len(list) /\ next \in 1..(Len(list) + 1)
      /\ n = Recorded(SubSeq(list, 1, next - 1))
      /\ Unmapped \notin DOMAIN list /\ Failed \notin DOMAIN list /\ Unmapped # Failed
  BY DEF Passed, Unmapped, Failed
<1>2. /\ IsMapping(u) /\ u.next = next
      /\ u.base = IF m.base = Failed THEN Failed ELSE Unmapped
  BY DEF UnmappedCurrent, IsMapping
<1>3. CASE next > Len(list)
  <2>1. o = u /\ ~(next <= Len(list))
    BY <1>1, <1>3 DEF OpenNextFile
  <2> HIDE DEF o, u
  <2> QED
    BY <1>1, <1>2, <2>1 DEF Position, o
<1>4. CASE next <= Len(list) /\ list[next].kind = "regular"
  <2>1. o = [next |-> next + 1, base |-> next, sized |-> TRUE, at |-> 0]
    BY <1>1, <1>4 DEF OpenNextFile
  <2>2. next \in DOMAIN list /\ list[next] \in FileType /\ next \notin {Unmapped, Failed}
    BY <1>1, <1>4
  <2>3. list[next].records \in Seq(STRING)
    BY <2>2 DEF FileType
  <2>4. MboCount(SubSeq(list[next].records, 1, 0)) = 0 /\ Len(list[next].records) \in Nat
    BY <2>3, CountNext
  <2>5. n \in Int
    BY <1>1, <2>2, RecordedNext
  <2>6. o.next = next + 1 /\ o.base = next /\ o.at = 0 /\ IsMapping(o)
    BY <2>1 DEF IsMapping
  <2> HIDE DEF o, next
  <2>7. 0 \in 0..Len(list[next].records)
        /\ n = Recorded(SubSeq(list, 1, next - 1)) + MboCount(SubSeq(list[next].records, 1, 0))
    BY <1>1, <2>4, <2>5
  <2> QED
    BY <1>4, <2>2, <2>6, <2>7 DEF Position, o
<1>5. CASE next <= Len(list) /\ list[next].kind # "regular"
  <2>1. next \in DOMAIN list /\ next + 1 \in 1..(Len(list) + 1) /\ (next + 1) - 1 = next
    BY <1>1, <1>5
  <2>2. Passed(list, next + 1, n)
    <3>1. /\ Recorded(SubSeq(list, 1, next)) = Recorded(SubSeq(list, 1, next - 1)) + MboIn(list[next])
          /\ Recorded(SubSeq(list, 1, next - 1)) \in Int
      BY <1>1, <2>1, RecordedNext
    <3>2. MboIn(list[next]) = 0
      BY <1>5 DEF MboIn
    <3> QED
      BY <1>1, <2>1, <3>1, <3>2 DEF Passed
  <2>3. CASE list[next].kind = "missing"
    <3>1. o = [u EXCEPT !.next = @ + 1]
      BY <1>1, <1>5, <2>3 DEF OpenNextFile
    <3>2. IsMapping(o) /\ o.next = next + 1 /\ o.base = u.base
      BY <1>2, <3>1 DEF IsMapping
    <3>3. u.base = Unmapped => (next > 1 => list[next - 1].kind = "regular")
      BY <1>1, <1>2
    <3> HIDE DEF o, u, next
    <3> QED
      BY <1>1, <1>2, <2>1, <2>2, <2>3, <3>2, <3>3 DEF Position, o
  <2>4. CASE list[next].kind # "missing"
    <3>1. o = [m EXCEPT !.next = @ + 1, !.base = Failed, !.sized = list[next].kind # "empty"]
      BY <1>1, <1>5, <2>4 DEF OpenNextFile
    <3>2. IsMapping(o) /\ o.next = next + 1 /\ o.base = Failed
      BY <3>1 DEF IsMapping
    <3> HIDE DEF o, next
    <3> QED
      BY <1>1, <2>2, <3>2 DEF Position, o
  <2> QED
    BY <2>3, <2>4
<1> QED
  BY <1>1, <1>3, <1>4, <1>5

\* The engine is one that reads files, and what it has been given.
Maps == /\ producer = "exit" /\ consumer \in {"read", "exit", "crash"}
        /\ files \in Seq(FileType) \ {<<>>}
        /\ received \in Seq(Nat) /\ \A k \in 1..Len(received) : received[k] = k
        /\ Position(files, mapping, Len(received))
        /\ consumer = "exit" => mapping.base = Unmapped

\* A record is read.
LEMMA ReadKeeps ==
  ASSUME Maps, ReadRecord
  PROVE  Maps'
<1> DEFINE base == mapping.base
           at == mapping.at
           n == Len(received)
           records == files[base].records
           before == Recorded(SubSeq(files, 1, base - 1))
<1>1. /\ base \in DOMAIN files /\ files[base].kind = "regular" /\ mapping.next = base + 1
      /\ at \in 0..Len(records) /\ at < Len(records)
      /\ n = before + MboCount(SubSeq(records, 1, at))
      /\ IsMapping(mapping) /\ base \notin {Unmapped, Failed}
  <2>1. base \in DOMAIN files /\ at < Len(records) /\ files \in Seq(FileType)
    BY DEF Maps, ReadRecord, AtRecord
  <2>2. base \notin {Unmapped, Failed}
    BY <2>1 DEF Unmapped, Failed
  <2> QED
    BY <2>1, <2>2 DEF Maps, Position
<1>2. /\ mapping' = [mapping EXCEPT !.at = @ + 1]
      /\ received' = IF IsMbo(records[at + 1]) THEN Append(received, NumberAt(files, mapping))
                     ELSE received
      /\ UNCHANGED <<files, consumer, producer>>
  BY DEF ReadRecord, Reads, segment
<1>3. files \in Seq(FileType) /\ files[base] \in FileType /\ DOMAIN files = 1..Len(files)
  BY <1>1 DEF Maps
<1>4. records \in Seq(STRING) /\ Len(records) \in Nat
  BY <1>3 DEF FileType
<1>5. at \in Nat /\ at + 1 \in 1..Len(records) /\ (at + 1) - 1 = at
  BY <1>1, <1>4
<1>6. MboCount(SubSeq(records, 1, at + 1))
        = MboCount(SubSeq(records, 1, at)) + (IF IsMbo(records[at + 1]) THEN 1 ELSE 0)
  BY <1>4, <1>5, CountNext
<1>7. before \in Int /\ MboCount(SubSeq(records, 1, at)) \in Int
  <2>1. SubSeq(records, 1, at) \in Seq(STRING)
    BY <1>4, <1>5
  <2>2. base \in 1..Len(files)
    BY <1>1, <1>3
  <2>3. before \in Int
    BY <1>3, <2>2, RecordedNext
  <2>4. MboCount(SubSeq(records, 1, at)) \in Nat
    BY <2>1, CountNext
  <2> QED
    BY <2>3, <2>4
<1>8. NumberAt(files, mapping) = before + MboCount(SubSeq(records, 1, at + 1))
  BY DEF NumberAt
<1>9. received \in Seq(Nat) /\ n \in Nat /\ \A k \in 1..n : received[k] = k
  BY DEF Maps
<1>10. /\ IsMapping(mapping') /\ mapping'.next = mapping.next /\ mapping'.base = base
       /\ mapping'.at = at + 1
  BY <1>1, <1>2 DEF IsMapping
<1> HIDE DEF before
<1>11. /\ received' \in Seq(Nat) /\ \A k \in 1..Len(received') : received'[k] = k
       /\ Len(received') = before + MboCount(SubSeq(records, 1, at + 1))
  <2>1. CASE IsMbo(records[at + 1])
    <3>1. NumberAt(files, mapping) = n + 1
      BY <1>1, <1>6, <1>7, <1>8, <2>1
    <3>2. received' = Append(received, n + 1)
      BY <1>2, <2>1, <3>1
    <3>3. /\ received' \in Seq(Nat) /\ Len(received') = n + 1 /\ received'[n + 1] = n + 1
          /\ \A k \in 1..n : received'[k] = received[k]
      BY <1>9, <3>2, RingGrows
    <3> HIDE DEF n
    <3>4. \A k \in 1..Len(received') : received'[k] = k
      BY <1>9, <3>3
    <3> QED
      BY <1>8, <3>1, <3>3, <3>4
  <2>2. CASE ~IsMbo(records[at + 1])
    BY <1>1, <1>2, <1>6, <1>7, <1>9, <2>2
  <2> QED
    BY <2>1, <2>2
<1>12. at + 1 \in 0..Len(records)
  BY <1>4, <1>5
<1>13. Position(files, mapping', Len(received'))
  BY <1>1, <1>10, <1>11, <1>12 DEF Position, before
<1>14. consumer = "read"
  BY DEF ReadRecord, Reads
<1> QED
  BY <1>2, <1>11, <1>13, <1>14 DEF Maps

\* The file is done, or could not be mapped: the next one is opened.
LEMMA NextKeeps ==
  ASSUME Maps, ReadNextFile
  PROVE  Maps'
<1> DEFINE base == mapping.base
           n == Len(received)
           records == files[base].records
<1>1. /\ files \in Seq(FileType) /\ IsMapping(mapping) /\ Position(files, mapping, n)
      /\ mapping' = OpenNextFile(files, mapping) /\ consumer = "read"
      /\ UNCHANGED <<files, consumer, producer, received>>
  BY DEF Maps, Position, ReadNextFile, Reads, segment
<1>2. CASE base \in DOMAIN files
  <2>1. /\ files[base].kind = "regular" /\ mapping.next = base + 1
        /\ base \in 1..Len(files) /\ Len(files) \in Nat
        /\ base \notin {Unmapped, Failed} /\ files[base] \in FileType
    BY <1>1, <1>2 DEF Position, Unmapped, Failed
  <2>2. /\ n = Recorded(SubSeq(files, 1, base - 1)) + MboCount(SubSeq(records, 1, mapping.at))
        /\ mapping.at = Len(records)
    BY <1>1, <1>2, <2>1 DEF Position, ReadNextFile, AtFileEnd
  <2>3. records \in Seq(STRING)
    BY <2>1 DEF FileType
  <2>4. SubSeq(records, 1, mapping.at) = records /\ MboIn(files[base]) = MboCount(records)
    BY <2>1, <2>2, <2>3, CountNext DEF MboIn
  <2>5. n = Recorded(SubSeq(files, 1, base))
    BY <1>1, <2>1, <2>2, <2>4, RecordedNext
  <2>6. Passed(files, mapping.next, n)
    <3>1. mapping.next \in 1..(Len(files) + 1) /\ mapping.next - 1 = base
      BY <2>1
    <3> QED
      BY <2>5, <3>1 DEF Passed
  <2>7. Position(files, mapping', n)
    BY <1>1, <1>2, <2>1, <2>6, OpensNext
  <2> QED
    BY <1>1, <2>7 DEF Maps
<1>3. CASE base = Failed
  <2>1. Passed(files, mapping.next, n)
    BY <1>1, <1>3 DEF Position
  <2>2. Position(files, mapping', n)
    BY <1>1, <1>3, <2>1, OpensNext
  <2> QED
    BY <1>1, <2>2 DEF Maps
<1> QED
  BY <1>2, <1>3 DEF ReadNextFile, AtFileEnd

---------------------------------------------------------------------------
(* Either feed. *)

FeedInv == Shares \/ Maps

\* The two feeds do not mix: the steps of one are none of the other's.
LEMMA FeedInductive == FeedInv /\ [EitherNext]_allVars => FeedInv'
<1> SUFFICES ASSUME FeedInv, [EitherNext]_allVars PROVE FeedInv'
  OBVIOUS
<1>1. CASE Shares
  <2>1. CASE Mapped
    BY <1>1, <2>1 DEF Shares, Mapped, ReadRecord, ReadNextFile, ReadEof, ReadNoMemory, Reads
  <2>2. CASE Next /\ UNCHANGED <<files, mapping>>
    BY <1>1, <2>2, SharesStep DEF FeedInv
  <2>3. CASE UNCHANGED allVars
    BY <1>1, <2>3 DEF allVars, vars, FeedInv, Shares, Carries, Begun, Pending
  <2> QED
    BY <2>1, <2>2, <2>3 DEF EitherNext
<1>2. CASE Maps
  <2>1. CASE ReadRecord
    BY <1>2, <2>1, ReadKeeps DEF FeedInv
  <2>2. CASE ReadNextFile
    BY <1>2, <2>2, NextKeeps DEF FeedInv
  <2>3. CASE ReadEof \/ ReadNoMemory
    <3>1. /\ UNCHANGED <<files, mapping, received, producer>>
          /\ consumer' \in {"crash", "exit"}
          /\ consumer' = "exit" => mapping.base = Unmapped
      BY <2>3 DEF ReadEof, ReadNoMemory, Reads, AtEof
    <3> QED
      BY <1>2, <3>1 DEF FeedInv, Maps
  <2>4. ~Next
    BY <1>2 DEF Maps, Next, Producer, Consumer, ProducerOpen, ProducerTruncate, ProducerReset,
         ProducerConstruct, ProducerPush, ProducerDataDone, ProducerSignalEnd,
         ConsumerOpen, ConsumerWait, ConsumerPoll, ConsumerUnlink
  <2>5. CASE UNCHANGED allVars
    BY <1>2, <2>5 DEF allVars, vars, FeedInv, Maps
  <2> QED
    BY <2>1, <2>2, <2>3, <2>4, <2>5 DEF EitherNext, Mapped
<1> QED
  BY <1>1, <1>2 DEF FeedInv

\* The feeds begin with nothing received, unless an earlier run left messages.
LEMMA FeedStarts ==
  ASSUME Leftovers \subseteq {<<>>}
  PROVE  EitherInit => FeedInv
<1>1. ASSUME InitShared PROVE Shares
  <2>1. /\ ring = <<>> /\ received = <<>> /\ sent = 0 /\ producer = "open" /\ consumer = "open"
        /\ files = <<>>
    BY <1>1 DEF InitShared, Init
  <2>2. received \in Seq(Nat) /\ ring \in Seq(Nat) /\ Len(received) = 0 /\ Len(ring) = 0
    BY <2>1
  <2>3. Pending = 0 /\ sent \in 0..NumMsgs
    <3>1. sent = 0 /\ Len(received) = 0
      BY <2>1, <2>2
    <3>2. 0 \in 0..NumMsgs
      BY FeedAssumption
    <3> QED
      BY <3>1, <3>2 DEF Pending
  <2>4. Carries
    BY <2>1, <2>2, <2>3 DEF Carries, Begun
  <2> QED
    BY <2>1, <2>4 DEF Shares
<1>2. ASSUME InitMapped PROVE Maps
  <2> DEFINE start == [next |-> 1, base |-> Unmapped, sized |-> FALSE, at |-> NoPointer]
  <2>1. /\ received = <<>> /\ producer = "exit" /\ consumer = "read"
        /\ files \in Seq(FileType) \ {<<>>} /\ mapping = OpenNextFile(files, start)
    BY <1>2, FileAssumption DEF InitMapped, Opened
  <2>2. Len(received) = 0 /\ Len(files) \in Nat /\ 1 \in 1..(Len(files) + 1) /\ 1 - 1 = 0
    BY <2>1
  <2>3. IsMapping(start) /\ start.next = 1 /\ start.base = Unmapped
    BY DEF IsMapping
  <2> HIDE DEF start
  <2>4. Passed(files, start.next, 0)
    BY <2>1, <2>2, <2>3, RecordedNext DEF Passed
  <2>5. Position(files, mapping, 0)
    BY <2>1, <2>3, <2>4, OpensNext
  <2> QED
    BY <2>1, <2>2, <2>5 DEF Maps
<1> QED
  BY <1>1, <1>2 DEF EitherInit, FeedInv

\* The engine that has ended has been given everything, or was stopped by a file that
\* could not be opened.
LEMMA EndsAfter == FeedInv => EndIsAfterData
<1> SUFFICES ASSUME FeedInv, consumer \in {"unlink", "exit"}
             PROVE  \/ Len(received) = RecordingLength
                    \/ \E k \in DOMAIN files :
                         IsKind(k, "missing") /\ (k > 1 => IsKind(k - 1, "regular"))
  BY DEF EndIsAfterData
<1>1. CASE Shares
  <2>1. files = <<>> /\ sent = NumMsgs /\ sent - Len(received) = 0 /\ Len(received) \in Nat
        /\ NumMsgs \in Nat
    BY <1>1, FeedAssumption DEF Shares, Carries, Pending
  <2> QED
    BY <2>1 DEF RecordingLength
<1>2. CASE Maps
  <2>1. /\ files \in Seq(FileType) \ {<<>>} /\ mapping.base = Unmapped
        /\ Position(files, mapping, Len(received))
    BY <1>2 DEF Maps
  <2>2. CASE mapping.next <= Len(files)
    BY <2>1, <2>2 DEF Position, IsKind
  <2>3. CASE ~(mapping.next <= Len(files))
    <3>1. Passed(files, mapping.next, Len(received))
      BY <2>1 DEF Position
    <3>2. Len(files) \in Nat /\ mapping.next - 1 = Len(files)
      BY <2>1, <2>3, <3>1 DEF Passed
    <3>3. Len(received) = Recorded(files)
      BY <2>1, <3>1, <3>2, RecordedNext DEF Passed
    <3> QED
      BY <2>1, <3>3 DEF RecordingLength
  <2> QED
    BY <2>2, <2>3
<1> QED
  BY <1>1, <1>2 DEF FeedInv

\* What the engine has been given is at any time the beginning of the recording, over
\* shared memory and from any list of files (ReceivesRecording), if no earlier run has
\* left messages in the ring.
THEOREM RecordingSafety ==
  ASSUME Leftovers \subseteq {<<>>}
  PROVE  EitherSpec => []ReceivesRecording
<1>1. FeedInv => ReceivesRecording
  BY DEF FeedInv, Shares, Carries, Maps, ReceivesRecording
<1> QED
  BY <1>1, FeedStarts, FeedInductive, PTL DEF EitherSpec

\* The engine ends after the recording; only a file that cannot be opened, the first
\* or right after one that was mapped, ends it before (EndIsAfterData).
THEOREM EndSafety ==
  ASSUME Leftovers \subseteq {<<>>}
  PROVE  EitherSpec => []EndIsAfterData
BY FeedStarts, FeedInductive, EndsAfter, PTL DEF EitherSpec

\* With no segment of an earlier run the magic number is that of this producer's ring.
Constructed == (magic => Begun) /\ (consumer = "poll" => Begun)

\* The engine polls only a ring that this producer has constructed
\* (PollsConstructedRing), if no earlier run has left its segment behind.
THEOREM ConstructionSafety ==
  ASSUME Leftovers = {}
  PROVE  EitherSpec => []PollsConstructedRing
<1>1. EitherInit => Constructed
  BY DEF EitherInit, InitShared, InitMapped, Init, Constructed, Begun
<1>2. Constructed /\ [EitherNext]_allVars => Constructed'
  <2> SUFFICES ASSUME Constructed, [EitherNext]_allVars PROVE Constructed'
    OBVIOUS
  <2> USE DEF Constructed, Begun
  <2>0. CASE ProducerOpen
    <3>1. (magic' => magic) /\ consumer' = consumer /\ producer = "open"
      BY <2>0 DEF ProducerOpen
    <3> QED
      BY <3>1
  <2>1. CASE Producer /\ ~ProducerOpen
    BY <2>1 DEF Producer, ProducerTruncate, ProducerReset, ProducerConstruct,
         ProducerPush, ProducerDataDone, ProducerSignalEnd, segment
  <2>2. CASE Consumer
    BY <2>2 DEF Consumer, ConsumerOpen, ConsumerWait, ConsumerPoll, ConsumerUnlink, segment
  <2>3. CASE Mapped
    BY <2>3 DEF Mapped, ReadRecord, ReadNextFile, ReadEof, ReadNoMemory, Reads, segment
  <2>4. CASE UNCHANGED allVars
    BY <2>4 DEF allVars, vars
  <2> QED
    BY <2>0, <2>1, <2>2, <2>3, <2>4 DEF EitherNext, Next
<1>3. Constructed => PollsConstructedRing
  BY DEF Constructed, Begun, PollsConstructedRing
<1> QED
  BY <1>1, <1>2, <1>3, PTL DEF EitherSpec
====
