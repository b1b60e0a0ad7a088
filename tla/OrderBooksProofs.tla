---- MODULE OrderBooksProofs ----
(* The optimized book under any messages of a legal feed.  A book is whole when its
   nodes, free nodes and id map are a shelf of the market's orders (ContainerFacts)
   and its levels on either side are a ladder: sorted, one for every price at which
   orders rest, each counting them and linking the first and the last.  Every
   operation of the book keeps it whole, for the market's book after the same
   message, with the orders in its lists as they came.  The market's turns are those
   arrivals but for the orders that have grown.  The properties of OrderBooks follow. *)
EXTENDS OrderBooks, ContainerFacts

---------------------------------------------------------------------------
(* The operators of the models, in the words of the shelf. *)

\* The constants that the pool and the hash map need.
LEMMA ConstantsAre ==
  MaxOrders \in Nat /\ IdMapCapacity \in Nat \ {0} /\ MaxOrders < IdMapCapacity
  BY LobAssumption

\* The pool of nodes, and what the model writes where there is none.
LEMMA PoolIs ==
  /\ Pool!Indices = 0..(MaxOrders - 1) /\ None = NoLink /\ NoNode = BareNode
  /\ \A free : /\ Pool!Exhausted(free) <=> free = <<>>
               /\ Pool!Allocated(free) = Last(free) /\ Pool!AfterAllocate(free) = Front(free)
               /\ \A n : Pool!AfterDeallocate(free, n) = Append(free, n)
  BY DEF Pool!Indices, Pool!Last, Pool!Front, Last, Front, None, NoLink, NoNode, BareNode, Pool!Exhausted, Pool!Allocated,
         Pool!AfterAllocate, Pool!AfterDeallocate

\* find, insert and erase of the id map, and the empty map, are those of the hash map.
LEMMA FindIsHash ==
  \A map, key : IdMap!Find(map, key) = Hash(IdMapCapacity)!Find(map, key)
  BY DEF IdMap!Find, Hash!Find, IdMap!Ends, Hash!Ends, IdMap!Min, Hash!Min, IdMap!NotFound, Hash!NotFound, IdMap!ProbeAt, Hash!ProbeAt,
         IdMap!Occupied, Hash!Occupied, IdMap!Unoccupied, Hash!Unoccupied, IdMap!Buckets, Hash!Buckets

\* Insert of the id map.
LEMMA InsertIsHash ==
  \A map, key, value : IdMap!Insert(map, key, value) = Hash(IdMapCapacity)!Insert(map, key, value)
  BY DEF IdMap!Insert, Hash!Insert, IdMap!Ends, Hash!Ends, IdMap!Min, Hash!Min, IdMap!NotFound, Hash!NotFound, IdMap!ProbeAt, Hash!ProbeAt,
         IdMap!Occupied, Hash!Occupied, IdMap!Unoccupied, Hash!Unoccupied, IdMap!Buckets, Hash!Buckets

\* Erase of the id map.
LEMMA EraseIsHash ==
  \A map, key : IdMap!Erase(map, key) = Hash(IdMapCapacity)!Erase(map, key)
<1>1. \A map, start : IdMap!RehashCluster(map, start) = Hash(IdMapCapacity)!RehashCluster(map, start)
  BY InsertIsHash, Zenon DEF IdMap!RehashCluster, Hash!RehashCluster,
       IdMap!Occupied, Hash!Occupied, IdMap!Unoccupied, Hash!Unoccupied, IdMap!Insert, Hash!Insert, IdMap!Ends, Hash!Ends, IdMap!Min, Hash!Min, IdMap!ProbeAt, Hash!ProbeAt, IdMap!Buckets, Hash!Buckets
<1>2. \A map, key : IdMap!BucketOf(map, key) = Hash(IdMapCapacity)!BucketOf(map, key)
  BY DEF IdMap!BucketOf, Hash!BucketOf, IdMap!Ends, Hash!Ends, IdMap!Min, Hash!Min, IdMap!ProbeAt, Hash!ProbeAt,
         IdMap!Occupied, Hash!Occupied, IdMap!Unoccupied, Hash!Unoccupied, IdMap!Buckets, Hash!Buckets
<1> QED
  BY <1>1, <1>2, FindIsHash DEF IdMap!Erase, Hash!Erase, IdMap!NotFound, Hash!NotFound, IdMap!Unoccupied, Hash!Unoccupied

\* The empty id map.
LEMMA EmptyMapIsHash == IdMap!EmptyMap = Hash(IdMapCapacity)!EmptyMap
  BY DEF IdMap!EmptyMap, Hash!EmptyMap, IdMap!Unoccupied, Hash!Unoccupied, IdMap!Buckets, Hash!Buckets

\* The ids that stay in a queue are the kept ones.
LEMMA ThoseIs == \A q, ids : Those(q, ids) = KeptIn(q, ids)
  BY DEF Those, KeptIn, FoldLeft, MapThenFoldSet

\* The nodes of a level are those met from its head on.
LEMMA QueueIs ==
  ASSUME NEW side, NEW i
  PROVE  Queue(side, i) = NodesMet(MaxOrders, lob.nodes, lob.levels[side][i].head_idx)
  BY Zenon DEF Queue, NodesMet, None, NoLink

---------------------------------------------------------------------------
(* The levels of a side. *)

LevelType == [price : Nat, total_qty : Nat, head_idx : Int, tail_idx : Int]

Sorted(side, lv) == \A i, j \in 1..Len(lv) : i < j => Worse(side, lv[i].price, lv[j].price)

BareLevel(price) == [price |-> price, total_qty |-> 0, head_idx |-> NoLink, tail_idx |-> NoLink]

\* Places with all those before them are the first ones.
LEMMA InitialSegment ==
  ASSUME NEW n \in Nat, NEW K \in SUBSET (1..n), \A i \in K, j \in 1..n : j < i => j \in K
  PROVE  Cardinality(K) \in 0..n /\ K = 1..Cardinality(K)
<1>1. IsFiniteSet(1..n) /\ IsFiniteSet(K)
  <2>1. IsFiniteSet(1..n)
    BY FS_Interval
  <2> QED
    BY <2>1, FS_Subset
<1>2. CASE K = {}
  <2>1. Cardinality(K) = 0
    BY <1>2, FS_EmptySet
  <2>2. 1..0 = {}
    OBVIOUS
  <2> QED
    BY <1>2, <2>1, <2>2
<1>3. CASE K # {}
  <2> DEFINE k == Max(K)
  <2>1. k \in K /\ \A y \in K : k >= y
    <3>1. K \in SUBSET Int
      OBVIOUS
    <3> QED
      BY <1>1, <1>3, <3>1, GreatestElement
  <2> HIDE DEF k
  <2>2. k \in 1..n
    BY <2>1
  <2>3. K = 1..k
    <3>1. ASSUME NEW y \in K PROVE y \in 1..k
      BY <2>1, <2>2
    <3>2. ASSUME NEW y \in 1..k PROVE y \in K
      <4>1. y = k \/ (y < k /\ y \in 1..n)
        BY <2>2
      <4> QED
        BY <2>1, <4>1
    <3> QED
      BY <3>1, <3>2
  <2>4. Cardinality(1..k) = k
    <3>1. 1 \in Int /\ k \in Int
      BY <2>2
    <3>2. Cardinality(1..k) = IF 1 > k THEN 0 ELSE k - 1 + 1
      BY <3>1, FS_Interval
    <3> QED
      BY <2>2, <3>2
  <2> QED
    BY <2>2, <2>3, <2>4
<1> QED
  BY <1>2, <1>3

\* The place of a price is behind the levels with a worse one.
LEMMA PlaceIs ==
  ASSUME NEW side \in Sides, NEW lv \in Seq(LevelType), Sorted(side, lv), NEW price \in Nat
  PROVE  /\ PlaceOf(lv, side, price) \in 1..(Len(lv) + 1)
         /\ \A j \in 1..Len(lv) : j < PlaceOf(lv, side, price) <=> Worse(side, lv[j].price, price)
         /\ \A j \in 1..Len(lv) : lv[j].price = price => PlaceOf(lv, side, price) = j
<1> DEFINE n == Len(lv)
           K == {i \in 1..n : Worse(side, lv[i].price, price)}
           c == Cardinality(K)
<1>1. n \in Nat /\ DOMAIN lv = 1..n /\ \A i \in 1..n : lv[i].price \in Nat
  <2>1. n \in Nat /\ DOMAIN lv = 1..n /\ \A i \in 1..n : lv[i] \in LevelType
    BY ElementOfSeq, LenProperties
  <2> QED
    BY <2>1 DEF LevelType
<1>2. PlaceOf(lv, side, price) = 1 + c
  BY <1>1 DEF PlaceOf
<1>3. \A i, j \in 1..n : i < j => Worse(side, lv[i].price, lv[j].price)
  BY DEF Sorted
<1> HIDE DEF n
<1>4. \A i \in K, j \in 1..n : j < i => j \in K
  BY <1>1, <1>3 DEF Worse
<1>5. c \in 0..n /\ K = 1..c
  <2> HIDE DEF K
  <2> QED
    BY <1>1, <1>4, InitialSegment DEF K
<1>6. \A j \in 1..n : j \in K <=> Worse(side, lv[j].price, price)
  OBVIOUS
<1> HIDE DEF K, c
<1>7. \A j \in 1..n : j < 1 + c <=> Worse(side, lv[j].price, price)
  <2>1. \A j \in 1..n : j < 1 + c <=> j \in 1..c
    BY <1>1, <1>5
  <2> QED
    BY <1>5, <1>6, <2>1
<1>8. ASSUME NEW j \in 1..n, lv[j].price = price PROVE 1 + c = j
  <2>1. ~Worse(side, lv[j].price, price)
    BY <1>1, <1>8 DEF Worse
  <2>2. \A i \in 1..n : i < j => Worse(side, lv[i].price, price)
    BY <1>3, <1>8
  <2>3. ~(j < 1 + c)
    BY <1>7, <2>1
  <2>4. \A i \in 1..n : i < j => i < 1 + c
    BY <1>7, <2>2
  <2>5. CASE j = 1
    BY <1>1, <1>5, <2>3, <2>5
  <2>6. CASE j # 1
    <3>1. j - 1 \in 1..n /\ j - 1 < j
      BY <1>1, <2>6
    <3>2. j - 1 < 1 + c
      BY <2>4, <3>1
    <3> QED
      BY <1>1, <1>5, <2>3, <3>2
  <2> QED
    BY <2>5, <2>6
<1>9. 1 + c \in 1..(n + 1)
  BY <1>1, <1>5
<1> QED
  BY <1>2, <1>7, <1>8, <1>9 DEF n

\* What find_price_level makes of the levels lv: lv2, in which the price has its place i.
LevelFound(lv, lv2, price, i) ==
  /\ i \in 1..Len(lv2) /\ lv2[i].price = price
  /\ \A k \in 1..Len(lv2) : \/ \E j \in 1..Len(lv) : lv2[k] = lv[j]
                            \/ k = i /\ lv2[k] = BareLevel(price) /\ \A j \in 1..Len(lv) : lv[j].price # price
  /\ \A j \in 1..Len(lv) : \E k \in 1..Len(lv2) : lv2[k] = lv[j]
  /\ i # Len(lv2) => lv # <<>> /\ lv2[Len(lv2)] = lv[Len(lv)]

\* With a level for its price the levels of a side stay levels and sorted, and the price's is found.
LEMMA WithLevelIs ==
  ASSUME NEW side \in Sides, NEW lv \in Seq(LevelType), Sorted(side, lv), NEW price \in Nat
  PROVE  /\ WithLevel(lv, side, price) \in Seq(LevelType) /\ Sorted(side, WithLevel(lv, side, price))
         /\ LevelFound(lv, WithLevel(lv, side, price), price, PlaceOf(WithLevel(lv, side, price), side, price))
<1> DEFINE n == Len(lv)
           r == WithLevel(lv, side, price)
<1>1. n \in Nat /\ DOMAIN lv = 1..n /\ \A i \in 1..n : lv[i].price \in Nat
  <2>1. n \in Nat /\ DOMAIN lv = 1..n /\ \A i \in 1..n : lv[i] \in LevelType
    BY ElementOfSeq, LenProperties
  <2> QED
    BY <2>1 DEF LevelType
<1>2. n # 0 => lv # <<>>
  BY EmptySeq
<1>3. CASE \E j \in 1..n : lv[j].price = price
  <2>1. PICK j \in 1..n : lv[j].price = price
    BY <1>3
  <2>2. r = lv
    BY <1>1, <1>3 DEF WithLevel
  <2>3. PlaceOf(lv, side, price) = j
    BY <2>1, PlaceIs
  <2>4. n # 0
    BY <1>1
  <2>5. LevelFound(lv, lv, price, j)
    BY <1>1, <1>2, <2>1, <2>4 DEF LevelFound
  <2> QED
    BY <2>2, <2>3, <2>5
<1>4. CASE ~\E j \in 1..n : lv[j].price = price
  <2> DEFINE p == PlaceOf(lv, side, price)
             e == BareLevel(price)
             s == InsertAt(lv, p, e)
  <2>1. r = s
    BY <1>1, <1>4 DEF WithLevel, BareLevel, None, NoLink
  <2>2. p \in 1..(n + 1) /\ \A j \in 1..n : j < p <=> Worse(side, lv[j].price, price)
    BY PlaceIs
  <2>3. e \in LevelType /\ e.price = price
    BY DEF BareLevel, LevelType, NoLink
  <2> HIDE DEF p, e
  <2>4. /\ s \in Seq(LevelType) /\ Len(s) = n + 1
        /\ \A k \in 1..(n + 1) : s[k] = IF k < p THEN lv[k] ELSE IF k = p THEN e ELSE lv[k - 1]
    BY <2>2, <2>3, InsertAtIs
  <2> HIDE DEF s, r, n
  <2>5. s[p] = e
    BY <1>1, <2>2, <2>4
  <2>6. \A i, j \in 1..n : i < j => Worse(side, lv[i].price, lv[j].price)
    BY DEF Sorted, n
  <2>7. Sorted(side, s)
    <3> SUFFICES ASSUME NEW i \in 1..(n + 1), NEW j \in 1..(n + 1), i < j
                 PROVE  Worse(side, s[i].price, s[j].price)
      BY <1>1, <2>4 DEF Sorted
    <3>1. CASE j < p
      <4>1. i \in 1..n /\ j \in 1..n /\ i < p
        BY <1>1, <2>2, <3>1
      <4> QED
        BY <2>4, <2>6, <3>1, <4>1
    <3>2. CASE j = p
      <4>1. i \in 1..n /\ i < p
        BY <1>1, <2>2, <3>2
      <4> QED
        BY <2>2, <2>3, <2>4, <2>5, <3>2, <4>1
    <3>3. CASE p < j /\ i < p
      <4>1. i \in 1..n /\ j - 1 \in 1..n /\ i < j - 1 /\ ~(j < p) /\ j # p
        BY <1>1, <2>2, <3>3
      <4>2. s[i] = lv[i] /\ s[j] = lv[j - 1]
        BY <2>4, <3>3, <4>1
      <4> QED
        BY <2>6, <4>1, <4>2
    <3>4. CASE p < j /\ i = p
      <4>1. j - 1 \in 1..n /\ ~(j - 1 < p) /\ ~(j < p) /\ j # p
        BY <1>1, <2>2, <3>4
      <4>2. s[i] = e /\ s[j] = lv[j - 1]
        BY <2>4, <2>5, <3>4, <4>1
      <4>3. lv[j - 1].price \in Nat /\ lv[j - 1].price # price /\ ~Worse(side, lv[j - 1].price, price)
        BY <1>1, <1>4, <2>2, <4>1
      <4> QED
        BY <2>3, <4>2, <4>3 DEF Worse
    <3>5. CASE p < i
      <4>1. i - 1 \in 1..n /\ j - 1 \in 1..n /\ i - 1 < j - 1 /\ ~(i < p) /\ i # p /\ ~(j < p) /\ j # p
        BY <1>1, <2>2, <3>5
      <4>2. s[i] = lv[i - 1] /\ s[j] = lv[j - 1]
        BY <2>4, <4>1
      <4> QED
        BY <2>6, <4>1, <4>2
    <3> QED
      BY <1>1, <2>2, <3>1, <3>2, <3>3, <3>4, <3>5
  <2>8. PlaceOf(s, side, price) = p
    <3>1. p \in 1..Len(s) /\ s[p].price = price
      BY <2>2, <2>3, <2>4, <2>5
    <3> QED
      BY <2>4, <2>7, <3>1, PlaceIs
  <2>9. ASSUME NEW k \in 1..(n + 1)
        PROVE  (\E j \in 1..n : s[k] = lv[j]) \/ (k = p /\ s[k] = e)
    <3>1. k < p => k \in 1..n /\ s[k] = lv[k]
      BY <1>1, <2>2, <2>4
    <3>2. p < k => k - 1 \in 1..n /\ s[k] = lv[k - 1]
      <4>1. p < k => k - 1 \in 1..n /\ ~(k < p) /\ k # p
        BY <1>1, <2>2
      <4> QED
        BY <2>4, <4>1
    <3>3. k < p \/ k = p \/ p < k
      BY <1>1, <2>2
    <3> QED
      BY <2>5, <3>1, <3>2, <3>3
  <2>10. ASSUME NEW j \in 1..n PROVE \E k \in 1..(n + 1) : s[k] = lv[j]
    <3>1. CASE j < p
      <4>1. j \in 1..(n + 1)
        BY <1>1
      <4> QED
        BY <2>4, <3>1, <4>1
    <3>2. CASE ~(j < p)
      <4>1. j + 1 \in 1..(n + 1) /\ ~(j + 1 < p) /\ j + 1 # p /\ (j + 1) - 1 = j
        BY <1>1, <2>2, <3>2
      <4>2. s[j + 1] = lv[j]
        BY <2>4, <4>1
      <4> QED
        BY <4>1, <4>2
    <3> QED
      BY <3>1, <3>2
  <2>11. p # n + 1 => lv # <<>> /\ s[n + 1] = lv[n]
    <3>1. p # n + 1 => n # 0 /\ n + 1 \in 1..(n + 1) /\ ~(n + 1 < p) /\ n + 1 # p /\ (n + 1) - 1 = n
      BY <1>1, <2>2
    <3> QED
      BY <1>2, <2>4, <3>1
  <2>12. LevelFound(lv, s, price, p)
    <3>1. Len(s) = n + 1 /\ p \in 1..(n + 1) /\ s[p].price = price /\ Len(lv) = n
      BY <2>2, <2>3, <2>4, <2>5 DEF n
    <3> QED
      BY <1>4, <2>9, <2>10, <2>11, <3>1 DEF LevelFound, e
  <2> QED
    BY <2>1, <2>4, <2>7, <2>8, <2>12 DEF r
<1> QED
  BY <1>3, <1>4

\* The levels of a side: they are sorted, each has the record of the orders at its price,
\* and every price at which orders rest has one.
Ladder(side, lv, bk, q, loc) ==
  /\ lv \in Seq(LevelType) /\ Sorted(side, lv)
  /\ \A i \in 1..Len(lv) : lv[i].price \in PricesOf(side) /\ lv[i] = LevelRecord(bk, q, loc, <<side, lv[i].price>>)
  /\ \A price \in PricesOf(side) : q[<<side, price>>] # <<>> => \E i \in 1..Len(lv) : lv[i].price = price

Tidy(lv) == lv # <<>> => lv[Len(lv)].total_qty > 0

IsSpot(at, side, price) == at = <<side, price>>
IsLevel(level, bk, q, loc, at) == level = LevelRecord(bk, q, loc, at) /\ level \in LevelType
OneElse(lv, lv2, i, level) ==
  Len(lv2) = Len(lv) /\ lv2[i] = level /\ \A k \in 1..Len(lv) : k # i => lv2[k] = lv[k]
Replaced(lv, lv2, i, level) == lv2 = [lv EXCEPT ![i] = level]

OnSpots(q) == DOMAIN q = Sides \X Prices

\* A price of the feed is a price of the market, and has a queue on its side.
LEMMA PricesAre ==
  ASSUME NEW side \in Sides, NEW price \in PricesOf(side)
  PROVE  price \in Nat \ {0} /\ price \in Prices /\ <<side, price>> \in Sides \X Prices
  BY FeedAssumption DEF PricesOf, Prices, Sides

\* What a level of a price of the feed records.
LEMMA RecordIs ==
  ASSUME NEW b, NEW bk, NEW q, NEW loc, Shelf(MaxOrders, IdMapCapacity, b, bk, q, loc), OnSpots(q),
         NEW side \in Sides, NEW price \in PricesOf(side), NEW at, at = <<side, price>>
  PROVE  /\ at \in DOMAIN q /\ at[1] = side /\ at[2] = price
         /\ LevelRecord(bk, q, loc, at) \in LevelType /\ LevelRecord(bk, q, loc, at).price = price
         /\ LevelRecord(bk, q, loc, at).total_qty = TotalAt(bk, at)
         /\ LevelRecord(bk, q, loc, at).head_idx = HeadOf(loc, q[at])
         /\ LevelRecord(bk, q, loc, at).tail_idx = TailOf(loc, q[at])
         /\ TotalAt(bk, at) \in Nat /\ (TotalAt(bk, at) = 0 <=> q[at] = <<>>)
         /\ q[at] = <<>> => LevelRecord(bk, q, loc, at) = BareLevel(price)
<1>1. price \in Nat /\ at \in DOMAIN q /\ at[1] = side /\ at[2] = price
  BY PricesAre DEF OnSpots
<1>2. TotalAt(bk, at) \in Nat /\ (TotalAt(bk, at) = 0 <=> q[at] = <<>>)
  BY <1>1, TotalIs DEF Shelf
<1>3. HeadOf(loc, q[at]) \in Int /\ TailOf(loc, q[at]) \in Int
  <2> DEFINE s == q[at]
             m == Len(s)
  <2>1. \A k \in 1..m : loc[s[k]] \in Int
    <3>1. \A k \in 1..m : loc[s[k]] \in 0..(MaxOrders - 1)
      BY <1>1, PlacesDiffer DEF Shelf
    <3> QED
      BY <3>1, ConstantsAre
  <2>2. s # <<>> => 1 \in 1..m /\ m \in 1..m
    <3>1. s \in Seq(DOMAIN bk)
      BY <1>1 DEF Shelf, Queues
    <3>2. s # <<>> => m \in Nat \ {0}
      BY <3>1, EmptySeq
    <3> QED
      BY <3>2
  <2> HIDE DEF s
  <2>3. HeadOf(loc, s) \in Int /\ TailOf(loc, s) \in Int
    BY <2>1, <2>2 DEF HeadOf, TailOf, NoLink
  <2> QED
    BY <2>3 DEF s
<1>4. q[at] = <<>> => HeadOf(loc, q[at]) = NoLink /\ TailOf(loc, q[at]) = NoLink
  BY DEF HeadOf, TailOf
<1>5. LevelRecord(bk, q, loc, at) = [price |-> price, total_qty |-> TotalAt(bk, at),
         head_idx |-> HeadOf(loc, q[at]), tail_idx |-> TailOf(loc, q[at])]
  BY <1>1 DEF LevelRecord
<1> DEFINE r == LevelRecord(bk, q, loc, at)
           tot == TotalAt(bk, at)
           h == HeadOf(loc, q[at])
           t == TailOf(loc, q[at])
<1>6. r = [price |-> price, total_qty |-> tot, head_idx |-> h, tail_idx |-> t]
      /\ tot \in Nat /\ h \in Int /\ t \in Int
  BY <1>2, <1>3, <1>5
<1>7. q[at] = <<>> => tot = 0 /\ h = NoLink /\ t = NoLink
  BY <1>2, <1>4
<1> HIDE DEF r, tot, h, t
<1>8. r \in LevelType /\ r.price = price /\ r.total_qty = tot /\ r.head_idx = h /\ r.tail_idx = t
  BY <1>1, <1>6 DEF LevelType
<1>9. q[at] = <<>> => r = BareLevel(price)
  BY <1>6, <1>7 DEF BareLevel
<1> QED
  BY <1>1, <1>2, <1>8, <1>9 DEF r, tot, h, t

\* A level that is made for a price has no orders yet.
LEMMA LadderWider ==
  ASSUME NEW b, NEW bk, NEW q, NEW loc, Shelf(MaxOrders, IdMapCapacity, b, bk, q, loc), OnSpots(q),
         NEW side \in Sides, NEW lv, Ladder(side, lv, bk, q, loc), NEW price \in PricesOf(side)
  PROVE  /\ Ladder(side, WithLevel(lv, side, price), bk, q, loc)
         /\ LevelFound(lv, WithLevel(lv, side, price), price, PlaceOf(WithLevel(lv, side, price), side, price))
<1> DEFINE r == WithLevel(lv, side, price)
           i == PlaceOf(r, side, price)
<1>1. lv \in Seq(LevelType) /\ Sorted(side, lv) /\ price \in Nat
  BY PricesAre DEF Ladder
<1>2. r \in Seq(LevelType) /\ Sorted(side, r) /\ LevelFound(lv, r, price, i)
  BY <1>1, WithLevelIs
<1> HIDE DEF r, i
<1>3. ASSUME NEW k \in 1..Len(r)
      PROVE  r[k].price \in PricesOf(side) /\ r[k] = LevelRecord(bk, q, loc, <<side, r[k].price>>)
  <2>1. CASE \E j \in 1..Len(lv) : r[k] = lv[j]
    BY <2>1 DEF Ladder
  <2>2. CASE r[k] = BareLevel(price) /\ \A j \in 1..Len(lv) : lv[j].price # price
    <3>1. q[<<side, price>>] = <<>>
      BY <2>2 DEF Ladder
    <3> DEFINE at == <<side, price>>
    <3>2. at = <<side, price>> /\ q[at] = <<>>
      BY <3>1
    <3> HIDE DEF at
    <3>3. BareLevel(price) = LevelRecord(bk, q, loc, at)
      BY <3>2, RecordIs
    <3>4. BareLevel(price).price = price
      BY DEF BareLevel
    <3> QED
      BY <2>2, <3>2, <3>3, <3>4
  <2> QED
    BY <1>2, <2>1, <2>2 DEF LevelFound
<1>4. ASSUME NEW p \in PricesOf(side), q[<<side, p>>] # <<>> PROVE \E k \in 1..Len(r) : r[k].price = p
  <2>1. PICK j \in 1..Len(lv) : lv[j].price = p
    BY <1>4 DEF Ladder
  <2>2. PICK k \in 1..Len(r) : r[k] = lv[j]
    BY <1>2 DEF LevelFound
  <2> QED
    BY <2>1, <2>2
<1>5. Ladder(side, r, bk, q, loc)
  BY <1>2, <1>3, <1>4 DEF Ladder
<1> QED
  BY <1>2, <1>5 DEF r, i

\* The level at place i follows the orders at its price.
LEMMA LadderChanged ==
  ASSUME NEW bk, NEW q, NEW loc, OnSpots(q),
         NEW side \in Sides, NEW lv, Ladder(side, lv, bk, q, loc), NEW i \in 1..Len(lv),
         NEW at, IsSpot(at, side, lv[i].price), NEW bk2, NEW q2, NEW loc2, SameElse(at, bk, q, loc, bk2, q2, loc2),
         NEW e, IsLevel(e, bk2, q2, loc2, at), NEW lv2, Replaced(lv, lv2, i, e)
  PROVE  Ladder(side, lv2, bk2, q2, loc2) /\ OneElse(lv, lv2, i, e)
<1>0. at = <<side, lv[i].price>>
  BY DEF IsSpot
<1> USE <1>0
<1> DEFINE n == Len(lv)
<1>1. lv \in Seq(LevelType) /\ e \in LevelType /\ i \in 1..n /\ e.price = lv[i].price /\ n \in Nat
  <2>1. e.price = at[2]
    BY DEF LevelRecord, IsLevel
  <2> QED
    BY <2>1, LenProperties DEF Ladder, IsLevel
<1>2. lv2 = [lv EXCEPT ![i] = e]
  BY DEF Replaced
<1> HIDE DEF n
<1>3. /\ lv2 \in Seq(LevelType) /\ Len(lv2) = n
      /\ \A k \in 1..n : lv2[k] = IF k = i THEN e ELSE lv[k]
  BY <1>1, <1>2, ExceptSeq DEF n
<1>4. \A k \in 1..n : lv2[k].price = lv[k].price
  BY <1>1, <1>3
<1>5. Sorted(side, lv2)
  BY <1>3, <1>4 DEF Sorted, Ladder, n
<1>6. ASSUME NEW j \in 1..n, NEW k \in 1..n, lv[j].price = lv[k].price PROVE j = k
  <2>1. Sorted(side, lv) /\ lv[j] \in LevelType /\ lv[k] \in LevelType
    BY <1>1, ElementOfSeq DEF Ladder, n
  <2>2. lv[j].price \in Nat /\ lv[k].price \in Nat
    BY <2>1 DEF LevelType
  <2>3. ~(j < k) /\ ~(k < j)
    BY <1>6, <2>1, <2>2 DEF Sorted, Worse, n
  <2> QED
    BY <1>1, <2>3
<1>7. ASSUME NEW k \in 1..n
      PROVE  lv2[k].price \in PricesOf(side) /\ lv2[k] = LevelRecord(bk2, q2, loc2, <<side, lv2[k].price>>)
  <2>1. lv[k].price \in PricesOf(side) /\ lv[k] = LevelRecord(bk, q, loc, <<side, lv[k].price>>)
    BY DEF Ladder, n
  <2>2. CASE k = i
    BY <1>3, <1>4, <2>1, <2>2 DEF IsLevel
  <2>3. CASE k # i
    <3>1. lv[k].price # lv[i].price
      BY <1>1, <1>6, <2>3
    <3>2. <<side, lv[k].price>> # at /\ <<side, lv[k].price>> \in DOMAIN q
      BY <2>1, <3>1, PricesAre DEF OnSpots
    <3>3. LevelRecord(bk2, q2, loc2, <<side, lv[k].price>>) = LevelRecord(bk, q, loc, <<side, lv[k].price>>)
      BY <3>2 DEF SameElse
    <3> QED
      BY <1>3, <2>1, <2>3, <3>3
  <2> QED
    BY <2>2, <2>3
<1>8. ASSUME NEW p \in PricesOf(side), q2[<<side, p>>] # <<>> PROVE \E k \in 1..n : lv2[k].price = p
  <2>1. CASE <<side, p>> = at
    <3>1. p = lv[i].price
      BY <2>1
    <3> QED
      BY <1>1, <1>4, <3>1
  <2>2. CASE <<side, p>> # at
    <3>1. <<side, p>> \in DOMAIN q
      BY PricesAre DEF OnSpots
    <3>2. q[<<side, p>>] # <<>>
      BY <1>8, <2>2, <3>1 DEF SameElse
    <3>3. PICK k \in 1..n : lv[k].price = p
      BY <3>2 DEF Ladder, n
    <3> QED
      BY <1>4, <3>3
  <2> QED
    BY <2>1, <2>2
<1>9. Ladder(side, lv2, bk2, q2, loc2)
  BY <1>3, <1>5, <1>7, <1>8 DEF Ladder
<1> QED
  BY <1>1, <1>3, <1>9 DEF OneElse, n

\* The levels of the other side stay.
LEMMA LadderOther ==
  ASSUME NEW bk, NEW q, NEW loc, OnSpots(q),
         NEW side \in Sides, NEW lv, Ladder(side, lv, bk, q, loc),
         NEW at, at[1] # side, NEW bk2, NEW q2, NEW loc2, SameElse(at, bk, q, loc, bk2, q2, loc2)
  PROVE  Ladder(side, lv, bk2, q2, loc2)
<1>1. ASSUME NEW p \in PricesOf(side)
      PROVE  LevelRecord(bk2, q2, loc2, <<side, p>>) = LevelRecord(bk, q, loc, <<side, p>>)
             /\ q2[<<side, p>>] = q[<<side, p>>]
  <2>1. <<side, p>> \in DOMAIN q /\ <<side, p>> # at
    BY PricesAre DEF OnSpots
  <2> QED
    BY <2>1 DEF SameElse
<1> QED
  BY <1>1 DEF Ladder

\* Trim drops levels without orders, and leaves none at the end.
LEMMA TrimIs ==
  ASSUME NEW b, NEW bk, NEW q, NEW loc, Shelf(MaxOrders, IdMapCapacity, b, bk, q, loc), OnSpots(q),
         NEW side \in Sides, NEW lv, Ladder(side, lv, bk, q, loc)
  PROVE  Ladder(side, Trim(lv), bk, q, loc) /\ Tidy(Trim(lv))
<1> DEFINE n == Len(lv)
           Stops(k) == /\ k > 0 => lv[k].total_qty # 0
                       /\ \A i \in (k + 1)..n : lv[i].total_qty = 0
           k0 == CHOOSE k \in 0..n : Stops(k)
           r == SubSeq(lv, 1, k0)
<1>1. lv \in Seq(LevelType) /\ n \in Nat /\ \A i \in 1..n : lv[i] \in LevelType
  BY LenProperties, ElementOfSeq DEF Ladder
<1>2. Trim(lv) = r
  BY DEF Trim
<1>3. \E k \in 0..n : Stops(k)
  <2> DEFINE K == {i \in 1..n : lv[i].total_qty # 0}
  <2>1. CASE K = {}
    <3>1. 0 \in 0..n /\ \A i \in (0 + 1)..n : i \in 1..n
      BY <1>1
    <3>2. Stops(0)
      BY <2>1, <3>1
    <3> QED
      BY <3>1, <3>2
  <2>2. CASE K # {}
    <3>1. K \in SUBSET Int /\ IsFiniteSet(K)
      <4>1. IsFiniteSet(1..n)
        BY <1>1, FS_Interval
      <4> QED
        BY <4>1, FS_Subset
    <3> DEFINE k == Max(K)
    <3>2. k \in K /\ \A y \in K : k >= y
      <4> HIDE DEF K
      <4> QED
        BY <2>2, <3>1, GreatestElement
    <3> HIDE DEF k
    <3>3. k \in 0..n /\ lv[k].total_qty # 0
      BY <1>1, <3>2
    <3>4. \A i \in (k + 1)..n : i \in 1..n /\ ~(k >= i)
      BY <1>1, <3>3
    <3>5. Stops(k)
      BY <3>2, <3>3, <3>4
    <3> QED
      BY <3>3, <3>5
  <2> QED
    BY <2>1, <2>2
<1>4. k0 \in 0..n /\ Stops(k0)
  <2> HIDE DEF Stops
  <2> QED
    BY <1>3
<1> HIDE DEF k0
<1>5. r \in Seq(LevelType) /\ Len(r) = k0 /\ \A i \in 1..k0 : r[i] = lv[i]
  <2>1. 1 \in Int /\ k0 \in Int /\ \A i \in 1..k0 : lv[i] \in LevelType
    BY <1>1, <1>4
  <2>2. r \in Seq(LevelType) /\ Len(r) = (IF 1 <= k0 THEN k0 - 1 + 1 ELSE 0) /\ \A i \in 1..(k0 - 1 + 1) : r[i] = lv[1 + i - 1]
    BY <2>1, SubSeqProperties
  <2> HIDE DEF r, n
  <2>3. Len(r) = k0
    BY <1>4, <2>2
  <2>4. ASSUME NEW i \in 1..k0 PROVE r[i] = lv[i]
    <3>1. i \in 1..(k0 - 1 + 1) /\ 1 + i - 1 = i
      BY <1>4
    <3> QED
      BY <2>2, <3>1
  <2> QED
    BY <2>2, <2>3, <2>4
<1> HIDE DEF r, n
<1>6. \A i \in 1..k0 : i \in 1..n
  BY <1>1, <1>4
<1>7. Sorted(side, r)
  BY <1>5, <1>6 DEF Sorted, Ladder, n
<1>8. ASSUME NEW p \in PricesOf(side), q[<<side, p>>] # <<>> PROVE \E i \in 1..k0 : r[i].price = p
  <2>1. PICK j \in 1..n : lv[j].price = p
    BY <1>8 DEF Ladder, n
  <2>2. lv[j] = LevelRecord(bk, q, loc, <<side, p>>)
    BY <2>1 DEF Ladder, n
  <2>3. lv[j].total_qty # 0
    <3> DEFINE at == <<side, p>>
    <3>1. at = <<side, p>> /\ q[at] # <<>> /\ lv[j] = LevelRecord(bk, q, loc, at)
      BY <1>8, <2>2
    <3> HIDE DEF at
    <3>2. LevelRecord(bk, q, loc, at).total_qty # 0
      BY <3>1, RecordIs
    <3> QED
      BY <3>1, <3>2
  <2>4. j \in 1..k0
    <3>1. j \notin (k0 + 1)..n
      BY <1>4, <2>3
    <3> QED
      BY <1>1, <1>4, <3>1
  <2> QED
    BY <1>5, <2>1, <2>4
<1>9. Ladder(side, r, bk, q, loc)
  BY <1>5, <1>6, <1>7, <1>8 DEF Ladder, n
<1>10. Tidy(r)
  <2> SUFFICES ASSUME r # <<>> PROVE r[k0].total_qty > 0
    BY <1>5 DEF Tidy
  <2>1. k0 \in 1..k0
    <3>1. Len(r) \in Nat \ {0}
      BY <1>5, EmptySeq
    <3> QED
      BY <1>4, <1>5, <3>1
  <2>2. r[k0] = lv[k0] /\ lv[k0].total_qty # 0 /\ lv[k0] \in LevelType
    <3>1. k0 > 0
      BY <1>4, <2>1
    <3> QED
      BY <1>1, <1>4, <1>5, <1>6, <2>1, <3>1
  <2> QED
    BY <2>2 DEF LevelType
<1> QED
  BY <1>2, <1>9, <1>10

---------------------------------------------------------------------------
(* The invariant: the book is a shelf of the market's orders, its levels are those of
   the orders on the shelf, and the last level of a side has orders. *)

\* The orders are the feed's.
FromFeed(bk) == \A id \in DOMAIN bk : id \in Ids /\ bk[id].side \in Sides /\ bk[id].price \in PricesOf(bk[id].side)

IsLob(b) ==
  /\ b = [nodes |-> b.nodes, free |-> b.free, id_map |-> b.id_map, levels |-> b.levels, error |-> b.error]
  /\ b.levels = [side \in Sides |-> b.levels[side]]

Whole(b, bk, q, loc) ==
  /\ IsLob(b) /\ b.error \in {"none", "ObjectPool exhausted"}
  /\ OnSpots(q) /\ FromFeed(bk)
  /\ Shelf(MaxOrders, IdMapCapacity, b, bk, q, loc)
  /\ \A side \in Sides : Ladder(side, b.levels[side], bk, q, loc)
  /\ b.error = "none" => \A side \in Sides : Tidy(b.levels[side])

\* The parts of a book after a change of one side's levels.
Becomes(b, b2, nodes, free, map, side, lv, error) ==
  b2 = [nodes |-> nodes, free |-> free, id_map |-> map, levels |-> [b.levels EXCEPT ![side] = lv], error |-> error]

\* The parts of a book after a change of one side.
LEMMA BecomesIs ==
  ASSUME NEW b, IsLob(b), NEW side \in Sides, NEW nodes, NEW free, NEW map, NEW lv, NEW error,
         NEW b2, Becomes(b, b2, nodes, free, map, side, lv, error)
  PROVE  /\ IsLob(b2) /\ b2.nodes = nodes /\ b2.free = free /\ b2.id_map = map /\ b2.error = error
         /\ b2.levels[side] = lv /\ \A s \in Sides : s # side => b2.levels[s] = b.levels[s]
<1> DEFINE ls == b.levels
           ls2 == [ls EXCEPT ![side] = lv]
<1>1. ls = [s \in Sides |-> ls[s]]
  BY DEF IsLob
<1>2. b2 = [nodes |-> nodes, free |-> free, id_map |-> map, levels |-> ls2, error |-> error]
  BY DEF Becomes
<1> HIDE DEF ls
<1>3. ls2 = [s \in Sides |-> ls2[s]] /\ ls2[side] = lv /\ \A s \in Sides : s # side => ls2[s] = ls[s]
  BY <1>1
<1> HIDE DEF ls2
<1>4. b2.nodes = nodes /\ b2.free = free /\ b2.id_map = map /\ b2.error = error /\ b2.levels = ls2
  BY <1>2
<1>5. b2 = [nodes |-> b2.nodes, free |-> b2.free, id_map |-> b2.id_map, levels |-> b2.levels, error |-> b2.error]
  BY <1>2
<1>6. b2.levels = [s \in Sides |-> b2.levels[s]]
  BY <1>3, <1>4
<1> QED
  BY <1>3, <1>4, <1>5, <1>6 DEF IsLob, ls

\* The book is whole again when its shelf and the changed side are.
LEMMA WholeAgain ==
  ASSUME NEW b, NEW bk, NEW q, NEW loc, Whole(b, bk, q, loc), b.error = "none",
         NEW side \in Sides, NEW nodes, NEW free, NEW map, NEW lv,
         NEW b2, Becomes(b, b2, nodes, free, map, side, lv, "none"),
         NEW bk2, NEW q2, NEW loc2, OnSpots(q2), FromFeed(bk2),
         Shelf(MaxOrders, IdMapCapacity, b2, bk2, q2, loc2),
         NEW at, at[1] = side, SameElse(at, bk, q, loc, bk2, q2, loc2),
         Ladder(side, lv, bk2, q2, loc2), Tidy(lv)
  PROVE  Whole(b2, bk2, q2, loc2) /\ b2.error = "none"
<1>1. /\ IsLob(b2) /\ b2.error = "none" /\ b2.levels[side] = lv
      /\ \A s \in Sides : s # side => b2.levels[s] = b.levels[s]
  <2>1. IsLob(b)
    BY DEF Whole
  <2> QED
    BY <2>1, BecomesIs
<1>2. ASSUME NEW s \in Sides, s # side
      PROVE  Ladder(s, b2.levels[s], bk2, q2, loc2) /\ Tidy(b2.levels[s])
  <2> DEFINE l == b.levels[s]
  <2>1. Ladder(s, l, bk, q, loc) /\ Tidy(l) /\ OnSpots(q) /\ b2.levels[s] = l
    BY <1>1, <1>2 DEF Whole
  <2> HIDE DEF l
  <2>2. Ladder(s, l, bk2, q2, loc2)
    BY <1>2, <2>1, LadderOther
  <2> QED
    BY <2>1, <2>2
<1> QED
  BY <1>1, <1>2 DEF Whole

\* The orders that an add changes.
LEMMA AddedElse ==
  ASSUME NEW b, NEW bk, NEW q, NEW loc, Whole(b, bk, q, loc),
         NEW id \in Ids, id \notin DOMAIN bk, NEW side \in Sides, NEW price \in PricesOf(side), NEW size \in Nat \ {0},
         NEW o, IsOrderOf(o, side, price, size), NEW at, at = <<side, price>>, NEW n
  PROVE  /\ id \in Nat \ {0} /\ at \in DOMAIN q /\ SpotOf(o) = at
         /\ OnSpots(LinedUp(q, at, id)) /\ FromFeed(Widened(bk, id, o))
         /\ SameElse(at, bk, q, loc, Widened(bk, id, o), LinedUp(q, at, id), Widened(loc, id, n))
         /\ LevelRecord(Widened(bk, id, o), LinedUp(q, at, id), Widened(loc, id, n), at) =
              [price |-> price, total_qty |-> TotalAt(bk, at) + size,
               head_idx |-> IF HeadOf(loc, q[at]) = NoLink THEN n ELSE HeadOf(loc, q[at]), tail_idx |-> n]
<1>1. id \in Nat \ {0} /\ at \in DOMAIN q /\ at[2] = price
  BY PricesAre, FeedAssumption DEF Whole, OnSpots
<1>2. IsRest(o) /\ SpotOf(o) = at /\ o.size = size /\ o.side = side /\ o.price = price
  BY OrderIs
<1> DEFINE q2 == LinedUp(q, at, id)
           bk2 == Widened(bk, id, o)
           loc2 == Widened(loc, id, n)
<1>3. q2 = LinedUp(q, at, id)
  OBVIOUS
<1>4. Shelf(MaxOrders, IdMapCapacity, b, bk, q, loc)
  BY DEF Whole
<1> HIDE DEF q2
<1>5. /\ LevelRecord(bk2, q2, loc2, at) =
              [price |-> at[2], total_qty |-> TotalAt(bk, at) + o.size,
               head_idx |-> IF HeadOf(loc, q[at]) = NoLink THEN n ELSE HeadOf(loc, q[at]), tail_idx |-> n]
      /\ \A a \in DOMAIN q : a # at => LevelRecord(bk2, q2, loc2, a) = LevelRecord(bk, q, loc, a)
  BY <1>1, <1>2, <1>3, <1>4, ConstantsAre, LevelWith
<1>6. DOMAIN q2 = DOMAIN q /\ \A a \in DOMAIN q : a # at => q2[a] = q[a]
  <2>1. Queues(bk, q)
    BY <1>4 DEF Shelf
  <2>2. q2 = [q EXCEPT ![at] = Append(q[at], id)]
    BY <1>3 DEF LinedUp
  <2> QED
    BY <1>1, <2>1, <2>2, QueueChanged
<1>7. OnSpots(q2)
  BY <1>6 DEF OnSpots, Whole
<1>8. FromFeed(bk2)
  BY <1>2 DEF FromFeed, Whole, Widened
<1>9. SameElse(at, bk, q, loc, bk2, q2, loc2)
  BY <1>5, <1>6 DEF SameElse
<1> HIDE DEF bk2, loc2
<1>10. LevelRecord(bk2, q2, loc2, at) =
         [price |-> price, total_qty |-> TotalAt(bk, at) + size,
          head_idx |-> IF HeadOf(loc, q[at]) = NoLink THEN n ELSE HeadOf(loc, q[at]), tail_idx |-> n]
  BY <1>1, <1>2, <1>5
<1> QED
  BY <1>1, <1>2, <1>7, <1>8, <1>9, <1>10 DEF bk2, loc2, q2

\* The node a message makes, and the nodes with it.
NodeFor(id, o, prev) ==
  [order_id |-> id, side |-> o.side, price |-> o.price, size |-> o.size, next_idx |-> NoLink, prev_idx |-> prev]
NodesWith(nodes, n, tail, node) ==
  [(IF tail = NoLink THEN nodes ELSE [nodes EXCEPT ![tail].next_idx = n]) EXCEPT ![n] = node]

\* What add_order does to the nodes.
LEMMA AddedNodes ==
  ASSUME NEW P \in Nat, NEW b, NEW bk, NEW q, NEW loc, Holding(P, b, bk, q, loc),
         NEW n \in 0..(P - 1), NEW tail, tail = NoLink \/ tail \in 0..(P - 1) \ {n}, NEW id, NEW o,
         NEW b2, b2.nodes = NodesWith(b.nodes, n, tail, NodeFor(id, o, tail))
  PROVE  NodeAdded(P, b, b2, id, o, n, tail)
<1> DEFINE f == b.nodes
           node == NodeFor(id, o, tail)
           g == IF tail = NoLink THEN f ELSE [f EXCEPT ![tail].next_idx = n]
<1>0. f = [k \in 0..(P - 1) |-> f[k]]
  BY DEF Holding
<1>2. b2.nodes = [g EXCEPT ![n] = node]
  BY DEF NodesWith
<1> HIDE DEF f, node
<1>1. g = [k \in 0..(P - 1) |-> IF k = tail THEN LinkedOn(f[k], n) ELSE f[k]]
  <2>1. CASE tail = NoLink
    <3>1. \A k \in 0..(P - 1) : k # tail
      BY <2>1 DEF NoLink
    <3> QED
      BY <1>0, <2>1, <3>1
  <2>2. CASE tail # NoLink
    <3>1. g = [f EXCEPT ![tail] = LinkedOn(f[tail], n)]
      BY <2>2 DEF LinkedOn
    <3>2. tail \in 0..(P - 1)
      BY <2>2
    <3> HIDE DEF g
    <3> QED
      BY <1>0, <3>1, <3>2
  <2> QED
    BY <2>1, <2>2
<1> HIDE DEF g
<1>3. b2.nodes = [k \in 0..(P - 1) |-> IF k = n THEN node ELSE g[k]]
  BY <1>1, <1>2
<1>4. \A k \in 0..(P - 1) : (IF k = n THEN node ELSE g[k]) = (IF k = n THEN node ELSE IF k = tail THEN LinkedOn(f[k], n) ELSE f[k])
  BY <1>1
<1>5. b2.nodes = [k \in 0..(P - 1) |-> IF k = n THEN node ELSE IF k = tail THEN LinkedOn(f[k], n) ELSE f[k]]
  BY <1>3, <1>4
<1> QED
  BY <1>5 DEF NodeAdded, f, node, NodeFor
---------------------------------------------------------------------------
(* An order is added. *)

\* A level has four parts.
LEMMA LevelParts ==
  ASSUME NEW r \in LevelType
  PROVE  r = [price |-> r.price, total_qty |-> r.total_qty, head_idx |-> r.head_idx, tail_idx |-> r.tail_idx]
  BY DEF LevelType

\* A level that takes a new tail, and the levels with it.
LevelLonger(level, old, n, size) ==
  level = [price |-> old.price, total_qty |-> old.total_qty + size,
           head_idx |-> IF old.head_idx = NoLink THEN n ELSE old.head_idx, tail_idx |-> n]
LevelsLonger(lv, i, n, size) ==
  [lv EXCEPT ![i].head_idx = IF @ = None THEN n ELSE @, ![i].tail_idx = n, ![i].total_qty = @ + size]

\* A level that is longer replaces the one it was.
LEMMA LevelGrown ==
  ASSUME NEW lv \in Seq(LevelType), NEW i \in 1..Len(lv), NEW n, NEW size,
         NEW level, LevelLonger(level, lv[i], n, size)
  PROVE  Replaced(lv, LevelsLonger(lv, i, n, size), i, level)
<1> DEFINE h == IF lv[i].head_idx = NoLink THEN n ELSE lv[i].head_idx
           r == lv[i]
           r1 == [r EXCEPT !.head_idx = h]
           r2 == [r1 EXCEPT !.tail_idx = n]
           r3 == [r2 EXCEPT !.total_qty = r.total_qty + size]
           l1 == [lv EXCEPT ![i] = r1]
           l2 == [l1 EXCEPT ![i] = r2]
           l3 == [l2 EXCEPT ![i] = r3]
<1>1. r = [price |-> r.price, total_qty |-> r.total_qty, head_idx |-> r.head_idx, tail_idx |-> r.tail_idx]
  BY LevelParts
<1>2. r3 = level
  <2>1. r1 = [price |-> r.price, total_qty |-> r.total_qty, head_idx |-> h, tail_idx |-> r.tail_idx]
    BY <1>1
  <2> HIDE DEF r1, r, h
  <2>2. r2 = [price |-> r.price, total_qty |-> r.total_qty, head_idx |-> h, tail_idx |-> n]
    BY <2>1
  <2> HIDE DEF r2
  <2>3. r3 = [price |-> r.price, total_qty |-> r.total_qty + size, head_idx |-> h, tail_idx |-> n]
    BY <2>2
  <2> QED
    BY <2>3 DEF r, h, LevelLonger
<1>3. l1[i] = r1 /\ l2[i] = r2 /\ DOMAIN l1 = DOMAIN lv /\ DOMAIN l2 = DOMAIN lv /\ i \in DOMAIN lv
  <2> HIDE DEF r1, r2
  <2>1. lv = [k \in 1..Len(lv) |-> lv[k]] /\ DOMAIN lv = 1..Len(lv)
    OBVIOUS
  <2> QED
    BY <2>1
<1>4. [lv EXCEPT ![i].head_idx = IF @ = None THEN n ELSE @, ![i].tail_idx = n, ![i].total_qty = @ + size]
        = [[l1 EXCEPT ![i] = [l1[i] EXCEPT !.tail_idx = n]]
             EXCEPT ![i] = [[l1 EXCEPT ![i] = [l1[i] EXCEPT !.tail_idx = n]][i]
                              EXCEPT !.total_qty = [l1 EXCEPT ![i] = [l1[i] EXCEPT !.tail_idx = n]][i].total_qty + size]]
  BY PoolIs
<1>5. r2.total_qty = r.total_qty
  BY <1>1
<1>6. [lv EXCEPT ![i].head_idx = IF @ = None THEN n ELSE @, ![i].tail_idx = n, ![i].total_qty = @ + size] = l3
  BY <1>3, <1>4, <1>5
<1> HIDE DEF r3, r2, r1
<1>7. l3 = [lv EXCEPT ![i] = r3]
  OBVIOUS
<1> QED
  BY <1>2, <1>6, <1>7 DEF Replaced, LevelsLonger

\* add_order, by its parts.
LEMMA AddIs ==
  ASSUME NEW b, IsLob(b), b.error = "none", NEW id, NEW side \in Sides, NEW price, NEW size, NEW m, AsksFor(m, id, side, price, size),
         NEW o, IsOrderOf(o, side, price, size),
         NEW lv, lv = WithLevel(b.levels[side], side, price), NEW i, i = PlaceOf(lv, side, price),
         NEW tail, tail = lv[i].tail_idx, NEW n, n = Last(b.free)
  PROVE  /\ b.free = <<>> => Becomes(b, AddOrder(b, m), b.nodes, b.free, b.id_map, side, lv, "ObjectPool exhausted")
         /\ b.free # <<>> =>
              Becomes(b, AddOrder(b, m), NodesWith(b.nodes, n, tail, NodeFor(id, o, tail)), Front(b.free),
                      Hash(IdMapCapacity)!Insert(b.id_map, id, n), side,
                      LevelsLonger(lv, i, n, size),
                      "none")
<1>1. m.order_id = id /\ m.side = side /\ m.price = price /\ m.size = size
  BY DEF AsksFor
<1>2. NodeFor(id, o, tail) = [order_id |-> id, side |-> side, price |-> price, size |-> size, next_idx |-> None, prev_idx |-> tail]
  BY PoolIs DEF NodeFor, IsOrderOf
<1> DEFINE add == AddOrder(b, m)
           map2 == IdMap!Insert(b.id_map, id, n)
           nodes2 == NodesWith(b.nodes, n, tail, NodeFor(id, o, tail))
           lv2 == LevelsLonger(lv, i, n, size)
<1>3. map2 = Hash(IdMapCapacity)!Insert(b.id_map, id, n)
  BY InsertIsHash
<1>4. CASE b.free = <<>>
  <2>1. add = [b EXCEPT !.levels[side] = lv, !.error = "ObjectPool exhausted"]
    BY <1>1, <1>4, PoolIs DEF AddOrder
  <2> QED
    BY <1>4, <2>1 DEF Becomes, IsLob
<1>5. CASE b.free # <<>>
  <2>0. nodes2 = [(IF tail = None THEN b.nodes ELSE [b.nodes EXCEPT ![tail].next_idx = n]) EXCEPT ![n] =
                      [order_id |-> id, side |-> side, price |-> price, size |-> size, next_idx |-> None, prev_idx |-> tail]]
    BY <1>2, PoolIs DEF NodesWith
  <2> HIDE DEF nodes2, map2, lv2
  <2>1. add = [b EXCEPT !.nodes = nodes2, !.free = Front(b.free), !.id_map = map2, !.levels[side] = lv2]
    BY <1>1, <1>5, <2>0, PoolIs DEF AddOrder, map2, lv2, LevelsLonger
  <2> HIDE DEF add
  <2>2. Becomes(b, add, nodes2, Front(b.free), map2, side, lv2, "none")
    BY <2>1 DEF Becomes, IsLob
  <2> QED
    BY <1>3, <1>5, <2>2 DEF nodes2, map2, lv2, add
<1> QED
  BY <1>4, <1>5

\* What an order at a side and price finds there: the levels with its price's, and the place of that.
LEMMA LevelReady ==
  ASSUME NEW b, NEW bk, NEW q, NEW loc, Whole(b, bk, q, loc),
         NEW side \in Sides, NEW price \in PricesOf(side), NEW at, at = <<side, price>>,
         NEW lv, lv = WithLevel(b.levels[side], side, price), NEW i, i = PlaceOf(lv, side, price)
  PROVE  /\ lv \in Seq(LevelType) /\ Ladder(side, lv, bk, q, loc) /\ LevelFound(b.levels[side], lv, price, i)
         /\ i \in 1..Len(lv) /\ lv[i].price = price /\ lv[i].total_qty = TotalAt(bk, at)
         /\ lv[i].head_idx = HeadOf(loc, q[at]) /\ lv[i].tail_idx = TailOf(loc, q[at])
<1>1. OnSpots(q) /\ Shelf(MaxOrders, IdMapCapacity, b, bk, q, loc) /\ Ladder(side, b.levels[side], bk, q, loc)
  BY DEF Whole
<1>2. Ladder(side, lv, bk, q, loc) /\ LevelFound(b.levels[side], lv, price, i)
  BY <1>1, LadderWider
<1>3. i \in 1..Len(lv) /\ lv[i].price = price
  BY <1>2 DEF LevelFound
<1>4. lv[i] = LevelRecord(bk, q, loc, at) /\ lv \in Seq(LevelType)
  BY <1>2, <1>3 DEF Ladder
<1>5. /\ LevelRecord(bk, q, loc, at).total_qty = TotalAt(bk, at)
      /\ LevelRecord(bk, q, loc, at).head_idx = HeadOf(loc, q[at])
      /\ LevelRecord(bk, q, loc, at).tail_idx = TailOf(loc, q[at])
  BY <1>1, RecordIs
<1> QED
  BY <1>2, <1>3, <1>4, <1>5

\* No node is left: there is a level more, perhaps, and no order.
LEMMA AddFull ==
  ASSUME NEW b, NEW bk, NEW q, NEW loc, Whole(b, bk, q, loc), b.error = "none", Pool!Exhausted(b.free),
         NEW id \in Ids, NEW side \in Sides, NEW price \in PricesOf(side), NEW size \in Nat \ {0},
         NEW m, AsksFor(m, id, side, price, size)
  PROVE  Whole(AddOrder(b, m), bk, q, loc) /\ AddOrder(b, m).error = Thrown
<1> DEFINE lv == WithLevel(b.levels[side], side, price)
           i == PlaceOf(lv, side, price)
           tail == lv[i].tail_idx
           n == Last(b.free)
           o == [side |-> side, price |-> price, size |-> size]
           b2 == AddOrder(b, m)
           at == <<side, price>>
<1>0. b.free = <<>>
  BY PoolIs
<1>1. IsOrderOf(o, side, price, size)
  BY DEF IsOrderOf
<1>2. at = <<side, price>> /\ lv = WithLevel(b.levels[side], side, price) /\ i = PlaceOf(lv, side, price)
      /\ tail = lv[i].tail_idx /\ n = Last(b.free)
  OBVIOUS
<1>3. IsLob(b) /\ Shelf(MaxOrders, IdMapCapacity, b, bk, q, loc) /\ OnSpots(q) /\ FromFeed(bk)
      /\ \A s \in Sides : Ladder(s, b.levels[s], bk, q, loc)
  BY DEF Whole
<1> HIDE DEF o, b2, at, n, tail, i, lv
<1>4. Becomes(b, b2, b.nodes, b.free, b.id_map, side, lv, "ObjectPool exhausted")
  BY <1>0, <1>1, <1>2, <1>3, AddIs DEF b2
<1>5. /\ IsLob(b2) /\ b2.nodes = b.nodes /\ b2.free = b.free /\ b2.id_map = b.id_map
      /\ b2.error = "ObjectPool exhausted" /\ b2.levels[side] = lv /\ \A s \in Sides : s # side => b2.levels[s] = b.levels[s]
  <2> DEFINE err == "ObjectPool exhausted"
  <2>1. Becomes(b, b2, b.nodes, b.free, b.id_map, side, lv, err)
    BY <1>4
  <2> HIDE DEF err
  <2>2. /\ IsLob(b2) /\ b2.nodes = b.nodes /\ b2.free = b.free /\ b2.id_map = b.id_map
        /\ b2.error = err /\ b2.levels[side] = lv /\ \A s \in Sides : s # side => b2.levels[s] = b.levels[s]
    BY <1>3, <2>1, BecomesIs
  <2> QED
    BY <2>2 DEF err
<1>6. Ladder(side, lv, bk, q, loc)
  BY <1>2, LevelReady
<1>7. Shelf(MaxOrders, IdMapCapacity, b2, bk, q, loc)
  BY <1>3, <1>5, ShelfSame
<1>8. \A s \in Sides : Ladder(s, b2.levels[s], bk, q, loc)
  BY <1>3, <1>5, <1>6
<1> QED
  BY <1>3, <1>5, <1>7, <1>8 DEF Whole, Thrown, b2

\* A node is left: the order lines up in it.
LEMMA AddGood ==
  ASSUME NEW b, NEW bk, NEW q, NEW loc, Whole(b, bk, q, loc), b.error = "none", b.free # <<>>,
         NEW id \in Ids, id \notin DOMAIN bk, NEW side \in Sides, NEW price \in PricesOf(side), NEW size \in Nat \ {0},
         NEW m, AsksFor(m, id, side, price, size), NEW o, IsOrderOf(o, side, price, size),
         NEW at, at = <<side, price>>
  PROVE  /\ Whole(AddOrder(b, m), Widened(bk, id, o), LinedUp(q, at, id), Widened(loc, id, Last(b.free)))
         /\ AddOrder(b, m).error = "none"
<1> DEFINE lv == WithLevel(b.levels[side], side, price)
           i == PlaceOf(lv, side, price)
           tail == lv[i].tail_idx
           n == Last(b.free)
           b2 == AddOrder(b, m)
           bk2 == Widened(bk, id, o)
           q2 == LinedUp(q, at, id)
           loc2 == Widened(loc, id, n)
           nodes2 == NodesWith(b.nodes, n, tail, NodeFor(id, o, tail))
           lv2 == LevelsLonger(lv, i, n, size)
           level == LevelRecord(bk2, q2, loc2, at)
<1>2. lv = WithLevel(b.levels[side], side, price) /\ i = PlaceOf(lv, side, price)
      /\ tail = lv[i].tail_idx /\ n = Last(b.free)
  OBVIOUS
<1>3. IsLob(b) /\ Shelf(MaxOrders, IdMapCapacity, b, bk, q, loc) /\ OnSpots(q) /\ FromFeed(bk)
      /\ \A s \in Sides : Ladder(s, b.levels[s], bk, q, loc) /\ Tidy(b.levels[s])
  BY DEF Whole
<1> HIDE DEF b2, n, tail, i, lv
<1>4. Becomes(b, b2, nodes2, Front(b.free), Hash(IdMapCapacity)!Insert(b.id_map, id, n), side, lv2, "none")
  BY <1>2, <1>3, AddIs DEF b2
<1>5. /\ b2.nodes = nodes2 /\ b2.free = Front(b.free) /\ b2.id_map = Hash(IdMapCapacity)!Insert(b.id_map, id, n)
  <2> HIDE DEF nodes2, lv2
  <2> QED
    BY <1>3, <1>4, BecomesIs
<1>6. /\ lv \in Seq(LevelType) /\ Ladder(side, lv, bk, q, loc) /\ LevelFound(b.levels[side], lv, price, i)
      /\ i \in 1..Len(lv) /\ lv[i].price = price /\ lv[i].total_qty = TotalAt(bk, at)
      /\ lv[i].head_idx = HeadOf(loc, q[at]) /\ lv[i].tail_idx = TailOf(loc, q[at])
  BY <1>2, LevelReady
<1>7. /\ id \in Nat \ {0} /\ at \in DOMAIN q /\ SpotOf(o) = at
      /\ OnSpots(q2) /\ FromFeed(bk2)
      /\ SameElse(at, bk, q, loc, bk2, q2, loc2)
      /\ level = [price |-> price, total_qty |-> TotalAt(bk, at) + size,
                  head_idx |-> IF HeadOf(loc, q[at]) = NoLink THEN n ELSE HeadOf(loc, q[at]), tail_idx |-> n]
  BY AddedElse
<1>8. IsRest(o) /\ o.size = size
  BY OrderIs
<1>9. Located(MaxOrders, b, bk, loc) /\ Queues(bk, q) /\ Holding(MaxOrders, b, bk, q, loc) /\ IsBook(bk)
  BY <1>3 DEF Shelf
<1>10. n \in 0..(MaxOrders - 1) /\ \A x \in DOMAIN bk : loc[x] # n
  BY <1>2, <1>5, <1>9, ConstantsAre, SpotsWith
<1>11. tail = TailOf(loc, q[at]) /\ (tail = NoLink \/ tail \in 0..(MaxOrders - 1) \ {n})
  <2>1. tail = TailOf(loc, q[at])
    BY <1>2, <1>6
  <2>2. CASE q[at] = <<>>
    BY <2>1, <2>2 DEF TailOf
  <2>3. CASE q[at] # <<>>
    <3>1. q[at] \in Seq(DOMAIN bk)
      BY <1>7, <1>9 DEF Queues
    <3>2. q[at][Len(q[at])] \in DOMAIN bk
      BY <2>3, <3>1
    <3>3. loc[q[at][Len(q[at])]] \in 0..(MaxOrders - 1)
      BY <1>9, <3>2 DEF Located
    <3> QED
      BY <1>10, <2>1, <2>3, <3>2, <3>3 DEF TailOf
  <2> QED
    BY <2>2, <2>3
<1>12. NodeAdded(MaxOrders, b, b2, id, o, n, TailOf(loc, q[at]))
  <2>5. NodeAdded(MaxOrders, b, b2, id, o, n, tail)
    BY <1>5, <1>9, <1>10, <1>11, ConstantsAre, AddedNodes
  <2> QED
    BY <1>11, <2>5
<1> HIDE DEF nodes2
<1>13. Shelf(MaxOrders, IdMapCapacity, b2, bk2, q2, loc2)
  <2>1. SpotOf(o) \in DOMAIN q /\ NodeAdded(MaxOrders, b, b2, id, o, n, TailOf(loc, q[SpotOf(o)])) /\ q2 = LinedUp(q, SpotOf(o), id)
    BY <1>7, <1>12
  <2> HIDE DEF q2
  <2>2. Shelf(MaxOrders, IdMapCapacity, b2, Widened(bk, id, o), LinedUp(q, SpotOf(o), id), Widened(loc, id, n))
    BY <1>2, <1>3, <1>5, <1>7, <1>8, <2>1, ConstantsAre, ShelfWith
  <2> QED
    BY <2>1, <2>2
<1>14. Replaced(lv, lv2, i, level)
  <2>1. LevelLonger(level, lv[i], n, size)
    BY <1>6, <1>7 DEF LevelLonger
  <2> HIDE DEF level, lv2
  <2> QED
    BY <1>6, <2>1, LevelGrown DEF lv2
<1>15. level \in LevelType /\ level.total_qty > 0
  <2>1. /\ level \in LevelType /\ level.total_qty = TotalAt(bk2, at)
        /\ TotalAt(bk2, at) \in Nat /\ (TotalAt(bk2, at) = 0 <=> q2[at] = <<>>)
    <3> HIDE DEF bk2, q2, loc2
    <3> QED
      BY <1>7, <1>13, RecordIs
  <2>2. level.total_qty = TotalAt(bk, at) + size /\ TotalAt(bk, at) \in Nat
    BY <1>7, <1>9, TotalIs
  <2> QED
    BY <2>1, <2>2
<1> HIDE DEF level, lv2, bk2, q2, loc2
<1>16. Ladder(side, lv2, bk2, q2, loc2) /\ OneElse(lv, lv2, i, level)
  <2>1. IsSpot(at, side, lv[i].price)
    BY <1>6 DEF IsSpot
  <2>2. IsLevel(level, bk2, q2, loc2, at)
    BY <1>15 DEF level, IsLevel
  <2>3. OnSpots(q) /\ Ladder(side, lv, bk, q, loc) /\ i \in 1..Len(lv) /\ SameElse(at, bk, q, loc, bk2, q2, loc2)
    BY <1>3, <1>6, <1>7
  <2> QED
    BY <1>14, <2>1, <2>2, <2>3, LadderChanged
<1>17. Tidy(lv2)
  <2>1. CASE i = Len(lv)
    BY <1>15, <1>16, <2>1 DEF Tidy, OneElse
  <2>2. CASE i # Len(lv)
    <3>1. b.levels[side] # <<>> /\ lv[Len(lv)] = b.levels[side][Len(b.levels[side])]
      BY <1>6, <2>2 DEF LevelFound
    <3>2. lv[Len(lv)].total_qty > 0
      BY <1>3, <3>1 DEF Tidy
    <3>3. Len(lv) \in 1..Len(lv)
      BY <1>6
    <3> QED
      BY <1>16, <2>2, <3>2, <3>3 DEF Tidy, OneElse
  <2> QED
    BY <2>1, <2>2
<1>18. at[1] = side
  OBVIOUS
<1>19. Whole(b2, bk2, q2, loc2) /\ b2.error = "none"
  BY <1>4, <1>7, <1>13, <1>16, <1>17, <1>18, WholeAgain
<1> QED
  BY <1>2, <1>19 DEF b2, bk2, q2, loc2
---------------------------------------------------------------------------
(* An order that rests changes or leaves. *)

\* Where the order at place p of the queue at a side and price stands in the book: in node n,
\* and its level at place i.
Stands(b, bk, q, loc, id, side, price, p, n, i) ==
  /\ side \in Sides /\ price \in PricesOf(side) /\ bk[id].side = side /\ bk[id].price = price
  /\ SpotOf(bk[id]) = <<side, price>> /\ <<side, price>> \in DOMAIN q
  /\ p \in 1..Len(q[<<side, price>>]) /\ q[<<side, price>>][p] = id
  /\ n = loc[id] /\ n \in 0..(MaxOrders - 1) /\ NodeOf(b, id) = n /\ n # None
  /\ b.nodes[n] = LinkedNode(bk, loc, q[<<side, price>>], p)
  /\ i = PlaceOf(b.levels[side], side, price) /\ i \in 1..Len(b.levels[side])
  /\ b.levels[side][i] = LevelRecord(bk, q, loc, <<side, price>>)
  /\ b.levels[side][i].price = price

\* Every order of the book stands at a place of its queue, in a node and under a level.
LEMMA StandsSomewhere ==
  ASSUME NEW b, NEW bk, NEW q, NEW loc, Whole(b, bk, q, loc), NEW id \in DOMAIN bk
  PROVE  \E p \in Nat : Stands(b, bk, q, loc, id, bk[id].side, bk[id].price, p, loc[id],
                               PlaceOf(b.levels[bk[id].side], bk[id].side, bk[id].price))
<1> DEFINE side == bk[id].side
           price == bk[id].price
           at == <<side, price>>
           n == loc[id]
           lv == b.levels[side]
           i == PlaceOf(lv, side, price)
<1>1. side \in Sides /\ price \in PricesOf(side)
  BY DEF Whole, FromFeed
<1>2. Ladder(side, lv, bk, q, loc) /\ Shelf(MaxOrders, IdMapCapacity, b, bk, q, loc) /\ OnSpots(q)
  BY <1>1 DEF Whole
<1>3. SpotOf(bk[id]) = at
  BY DEF SpotOf
<1>4. at \in DOMAIN q /\ \E p \in 1..Len(q[at]) : q[at][p] = id
  <2>1. SpotOf(bk[id]) \in DOMAIN q /\ \E k \in 1..Len(q[SpotOf(bk[id])]) : q[SpotOf(bk[id])][k] = id
    BY <1>2 DEF Shelf, Queues
  <2> QED
    BY <1>3, <2>1
<1>5. PICK p \in 1..Len(q[at]) : q[at][p] = id
  BY <1>4
<1>6. q[at] \in Seq(DOMAIN bk)
  BY <1>2, <1>4 DEF Shelf, Queues
<1>7. p \in Nat /\ q[at] # <<>>
  BY <1>5, <1>6
<1>8. b.nodes[n] = LinkedNode(bk, loc, q[at], p)
  BY <1>2, <1>4, <1>5 DEF Shelf, Holding
<1>9. n \in 0..(MaxOrders - 1)
  BY <1>2 DEF Shelf, Located
<1>10. NodeOf(b, id) = n /\ n # None
  <2>1. Hash(IdMapCapacity)!Find(b.id_map, id) = loc[id] /\ loc[id] # -1
    BY <1>2, ConstantsAre, FindsOrders DEF Shelf
  <2> QED
    BY <2>1, FindIsHash DEF NodeOf, None
<1> HIDE DEF lv
<1>11. PICK k \in 1..Len(lv) : lv[k].price = price
  BY <1>1, <1>2, <1>7 DEF Ladder
<1>12. i = k
  <2>1. price \in Nat /\ lv \in Seq(LevelType) /\ Sorted(side, lv)
    BY <1>1, <1>2, PricesAre DEF Ladder
  <2> QED
    BY <1>1, <1>11, <2>1, PlaceIs
<1>13. lv[i] = LevelRecord(bk, q, loc, at)
  <2>1. lv[k] = LevelRecord(bk, q, loc, <<side, lv[k].price>>)
    BY <1>2 DEF Ladder
  <2> QED
    BY <1>11, <1>12, <2>1
<1>14. Stands(b, bk, q, loc, id, side, price, p, n, i)
  BY <1>1, <1>3, <1>4, <1>5, <1>8, <1>9, <1>10, <1>11, <1>12, <1>13 DEF Stands, lv
<1> QED
  BY <1>7, <1>14 DEF lv

\* The level that an order of another size makes, and the levels with it.
LevelResized(level, old, total) ==
  level = [price |-> old.price, total_qty |-> total, head_idx |-> old.head_idx, tail_idx |-> old.tail_idx]
LevelsResized(lv, i, total) == [lv EXCEPT ![i].total_qty = total]
NodesResized(nodes, n, size) == [nodes EXCEPT ![n].size = size]

\* A level that counts another quantity replaces the one it was.
LEMMA LevelOther ==
  ASSUME NEW lv \in Seq(LevelType), NEW i \in 1..Len(lv), NEW total,
         NEW level, LevelResized(level, lv[i], total)
  PROVE  Replaced(lv, LevelsResized(lv, i, total), i, level)
<1> DEFINE r == lv[i]
<1>1. r = [price |-> r.price, total_qty |-> r.total_qty, head_idx |-> r.head_idx, tail_idx |-> r.tail_idx]
  BY LevelParts
<1> HIDE DEF r
<1>2. [r EXCEPT !.total_qty = total] = level
  BY <1>1 DEF LevelResized, r
<1> QED
  BY <1>2 DEF Replaced, LevelsResized, r

\* An order has another size: its level counts it.
LEMMA ResizedGood ==
  ASSUME NEW b, NEW bk, NEW q, NEW loc, Whole(b, bk, q, loc), b.error = "none", NEW id \in DOMAIN bk,
         NEW side, NEW price, NEW p, NEW n, NEW i, Stands(b, bk, q, loc, id, side, price, p, n, i),
         NEW size \in Nat \ {0}, NEW total, total = TotalAt(bk, SpotOf(bk[id])) - bk[id].size + size,
         NEW b2, Becomes(b, b2, NodesResized(b.nodes, n, size), b.free, b.id_map, side,
                         LevelsResized(b.levels[side], i, total), "none")
  PROVE  Whole(b2, Sized(bk, id, size), q, loc) /\ b2.error = "none" /\ b2.free = b.free
<1> DEFINE at == <<side, price>>
           bk2 == Sized(bk, id, size)
           lv == b.levels[side]
           nodes2 == NodesResized(b.nodes, n, size)
           lv2 == LevelsResized(lv, i, total)
           level == LevelRecord(bk2, q, loc, at)
<1>1. /\ side \in Sides /\ price \in PricesOf(side) /\ at = <<side, price>> /\ SpotOf(bk[id]) = at /\ at \in DOMAIN q
      /\ n = loc[id] /\ i \in 1..Len(lv) /\ lv[i] = LevelRecord(bk, q, loc, at) /\ lv[i].price = price
      /\ p \in 1..Len(q[at])
  BY DEF Stands
<1>2. IsLob(b) /\ Shelf(MaxOrders, IdMapCapacity, b, bk, q, loc) /\ OnSpots(q) /\ FromFeed(bk)
      /\ Ladder(side, lv, bk, q, loc) /\ Tidy(lv)
  BY <1>1 DEF Whole
<1>3. b2.nodes = nodes2 /\ b2.free = b.free /\ b2.id_map = b.id_map
  <2> HIDE DEF nodes2, lv2
  <2> QED
    BY <1>1, <1>2, BecomesIs DEF nodes2, lv2
<1>4. NodeSized(b, b2, loc[id], size)
  BY <1>1, <1>3 DEF NodeSized, NodesResized
<1>5. Shelf(MaxOrders, IdMapCapacity, b2, bk2, q, loc)
  BY <1>2, <1>3, <1>4, ConstantsAre, ShelfSized
<1>6. IsBook(bk)
  BY <1>2 DEF Shelf
<1>7. /\ level = [price |-> at[2], total_qty |-> total, head_idx |-> HeadOf(loc, q[at]), tail_idx |-> TailOf(loc, q[at])]
      /\ \A a : a # at => LevelRecord(bk2, q, loc, a) = LevelRecord(bk, q, loc, a)
  <2> HIDE DEF at, bk2
  <2>1. LevelRecord(Sized(bk, id, size), q, loc, at) =
              [price |-> at[2], total_qty |-> TotalAt(bk, at) - bk[id].size + size,
               head_idx |-> HeadOf(loc, q[at]), tail_idx |-> TailOf(loc, q[at])]
    BY <1>1, <1>6, LevelSized
  <2>2. \A a : a # at => LevelRecord(Sized(bk, id, size), q, loc, a) = LevelRecord(bk, q, loc, a)
    BY <1>1, <1>6, LevelSized
  <2> QED
    BY <1>1, <2>1, <2>2 DEF bk2
<1>8. SameElse(at, bk, q, loc, bk2, q, loc)
  BY <1>7 DEF SameElse
<1>9. FromFeed(bk2)
  <2>1. DOMAIN bk2 = DOMAIN bk /\ \A x \in DOMAIN bk : bk2[x].side = bk[x].side /\ bk2[x].price = bk[x].price
    BY <1>6, RestingSized
  <2> HIDE DEF bk2
  <2> QED
    BY <1>2, <2>1 DEF FromFeed
<1> HIDE DEF at, bk2, lv
<1>10. level \in LevelType /\ level.total_qty > 0
  <2>1. level \in LevelType /\ level.total_qty = TotalAt(bk2, at)
        /\ TotalAt(bk2, at) \in Nat /\ (TotalAt(bk2, at) = 0 <=> q[at] = <<>>)
    BY <1>1, <1>2, <1>5, RecordIs
  <2>2. q[at] \in Seq(DOMAIN bk)
    BY <1>1, <1>2 DEF Shelf, Queues
  <2>3. q[at] # <<>>
    BY <1>1, <2>2
  <2> QED
    BY <2>1, <2>3
<1>11. Replaced(lv, lv2, i, level)
  <2>1. /\ lv[i].price = price /\ lv[i].head_idx = HeadOf(loc, q[at]) /\ lv[i].tail_idx = TailOf(loc, q[at])
    BY <1>1, <1>2, RecordIs
  <2>2. at[2] = price
    BY <1>1
  <2>3. LevelResized(level, lv[i], total)
    BY <1>7, <2>1, <2>2 DEF LevelResized
  <2>4. lv \in Seq(LevelType)
    BY <1>2 DEF Ladder
  <2> HIDE DEF level
  <2> QED
    BY <1>1, <2>3, <2>4, LevelOther
<1>12. Ladder(side, lv2, bk2, q, loc) /\ OneElse(lv, lv2, i, level)
  <2>1. IsSpot(at, side, lv[i].price)
    BY <1>1 DEF IsSpot
  <2>2. IsLevel(level, bk2, q, loc, at)
    BY <1>10 DEF IsLevel
  <2> HIDE DEF level, lv2
  <2> QED
    BY <1>1, <1>2, <1>8, <1>11, <2>1, <2>2, LadderChanged
<1>13. Tidy(lv2)
  <2>1. lv \in Seq(LevelType) /\ lv2 \in Seq(LevelType)
    BY <1>2, <1>12 DEF Ladder
  <2>2. Len(lv2) = Len(lv) /\ lv2[i] = level /\ \A k \in 1..Len(lv) : k # i => lv2[k] = lv[k]
    BY <1>12 DEF OneElse
  <2> HIDE DEF lv2, level
  <2>3. ASSUME lv2 # <<>> PROVE lv2[Len(lv2)].total_qty > 0
    <3>1. Len(lv) \in 1..Len(lv) /\ lv # <<>>
      BY <2>1, <2>2, <2>3
    <3>2. CASE i = Len(lv)
      BY <1>10, <2>2, <3>2
    <3>3. CASE i # Len(lv)
      BY <1>2, <2>2, <3>1, <3>3 DEF Tidy
    <3> QED
      BY <3>2, <3>3
  <2> QED
    BY <2>3 DEF Tidy
<1>14. at[1] = side
  BY <1>1
<1>15. Becomes(b, b2, nodes2, b.free, b.id_map, side, lv2, "none")
  BY DEF lv
<1> HIDE DEF nodes2, lv2, level
<1> QED
  BY <1>1, <1>2, <1>3, <1>5, <1>8, <1>9, <1>12, <1>13, <1>14, <1>15, WholeAgain DEF bk2

\* cancel_order first takes what it can from the order and its level.
LEMMA CancelIs ==
  ASSUME NEW b, IsLob(b), b.error = "none", NEW id, NEW n, NodeOf(b, id) = n, n # None,
         NEW side \in Sides, b.nodes[n].side = side, NEW price, b.nodes[n].price = price,
         NEW size, b.nodes[n].size = size,
         NEW i, i = PlaceOf(b.levels[side], side, price), NEW asked, NEW taken, taken = Taken(size, asked)
  PROVE  \E left : /\ Becomes(b, left, NodesResized(b.nodes, n, size - taken), b.free, b.id_map, side,
                              LevelsResized(b.levels[side], i, b.levels[side][i].total_qty - taken), "none")
                   /\ CancelOrder(b, id, asked) = IF size = taken THEN RemoveNode(left, n, i) ELSE left
<1> DEFINE left == [b EXCEPT !.nodes[n].size = @ - taken, !.levels[side][i].total_qty = @ - taken]
           nodes2 == NodesResized(b.nodes, n, size - taken)
           lv2 == LevelsResized(b.levels[side], i, b.levels[side][i].total_qty - taken)
<1>1. CancelOrder(b, id, asked) = IF size = taken THEN RemoveNode(left, n, i) ELSE left
  BY DEF CancelOrder
<1>2. nodes2 = [b.nodes EXCEPT ![n].size = b.nodes[n].size - taken]
  BY DEF NodesResized
<1>3. lv2 = [b.levels[side] EXCEPT ![i].total_qty = b.levels[side][i].total_qty - taken]
  BY DEF LevelsResized
<1> DEFINE b1 == [b EXCEPT !.nodes = nodes2]
           lv1 == [b1.levels[side] EXCEPT ![i].total_qty = b1.levels[side][i].total_qty - taken]
<1>4. left = [b1 EXCEPT !.levels[side] = lv1]
  BY <1>2
<1>5. b1.levels = b.levels /\ b1 = [nodes |-> nodes2, free |-> b.free, id_map |-> b.id_map, levels |-> b.levels, error |-> b.error]
  BY DEF IsLob
<1> HIDE DEF nodes2, b1
<1>6. lv1 = lv2
  BY <1>3, <1>5
<1> HIDE DEF lv2, lv1, left
<1>7. Becomes(b, left, nodes2, b.free, b.id_map, side, lv2, "none")
  BY <1>4, <1>5, <1>6 DEF IsLob, Becomes
<1> QED
  BY <1>1, <1>7 DEF nodes2, lv2

\* Two changes of one side are one.
LEMMA BecomesTwice ==
  ASSUME NEW b, IsLob(b), NEW side \in Sides,
         NEW nodes1, NEW free1, NEW map1, NEW lv1, NEW error1,
         NEW b1, Becomes(b, b1, nodes1, free1, map1, side, lv1, error1),
         NEW nodes2, NEW free2, NEW map2, NEW lv2, NEW error2,
         NEW b2, Becomes(b1, b2, nodes2, free2, map2, side, lv2, error2)
  PROVE  Becomes(b, b2, nodes2, free2, map2, side, lv2, error2)
<1> DEFINE ls == b.levels
<1>1. b1.levels = [ls EXCEPT ![side] = lv1]
  BY DEF Becomes
<1>2. ls = [s \in Sides |-> ls[s]]
  BY DEF IsLob
<1> HIDE DEF ls
<1>3. [b1.levels EXCEPT ![side] = lv2] = [ls EXCEPT ![side] = lv2]
  BY <1>1, <1>2
<1> QED
  BY <1>3 DEF Becomes, ls

\* The level an order leaves.
LevelShorter(level, old, total, next, prev) ==
  level = [price |-> old.price, total_qty |-> total,
           head_idx |-> IF prev = NoLink THEN next ELSE old.head_idx,
           tail_idx |-> IF next = NoLink THEN prev ELSE old.tail_idx]
NodesWithout(nodes, n) == [Unlink(nodes, n) EXCEPT ![n] = NoNode]

\* RemoveNode, by its parts.
LEMMA RemoveIs ==
  ASSUME NEW b, IsLob(b), b.error = "none", NEW n, NEW side \in Sides, b.nodes[n].side = side,
         NEW lv \in Seq(LevelType), b.levels[side] = lv, NEW i \in 1..Len(lv), NEW total, lv[i].total_qty = total,
         NEW next, NEW prev, b.nodes[n].next_idx = next, b.nodes[n].prev_idx = prev,
         NEW id, b.nodes[n].order_id = id,
         NEW level, LevelShorter(level, lv[i], total, next, prev)
  PROVE  \E lv2 : /\ Replaced(lv, lv2, i, level)
                  /\ Becomes(b, RemoveNode(b, n, i), NodesWithout(b.nodes, n), Append(b.free, n),
                             Hash(IdMapCapacity)!Erase(b.id_map, id), side,
                             IF level.head_idx = NoLink THEN Trim(lv2) ELSE lv2, "none")
<1> DEFINE lv2 == [lv EXCEPT ![i] = level]
           nodes2 == NodesWithout(b.nodes, n)
           map2 == IdMap!Erase(b.id_map, id)
           left == [lv[i] EXCEPT !.head_idx = IF prev = None THEN next ELSE @,
                                 !.tail_idx = IF next = None THEN prev ELSE @]
           b2 == RemoveNode(b, n, i)
<1>1. left = level
  <2> DEFINE r == lv[i]
             h == IF prev = None THEN next ELSE r.head_idx
             r1 == [r EXCEPT !.head_idx = h]
  <2>1. r = [price |-> r.price, total_qty |-> r.total_qty, head_idx |-> r.head_idx, tail_idx |-> r.tail_idx]
    BY LevelParts
  <2>2. left = [r1 EXCEPT !.tail_idx = IF next = None THEN prev ELSE r1.tail_idx]
    OBVIOUS
  <2>3. level = [price |-> r.price, total_qty |-> r.total_qty, head_idx |-> h,
                 tail_idx |-> IF next = None THEN prev ELSE r.tail_idx]
    BY PoolIs DEF LevelShorter
  <2> HIDE DEF left, r, h
  <2>4. r1 = [price |-> r.price, total_qty |-> r.total_qty, head_idx |-> h, tail_idx |-> r.tail_idx]
    BY <2>1
  <2> HIDE DEF r1
  <2>5. left = [price |-> r.price, total_qty |-> r.total_qty, head_idx |-> h,
                tail_idx |-> IF next = None THEN prev ELSE r1.tail_idx]
    BY <2>2, <2>4
  <2>6. r1.tail_idx = r.tail_idx
    BY <2>4
  <2> QED
    BY <2>3, <2>5, <2>6
<1>2. nodes2 = [Unlink(b.nodes, n) EXCEPT ![n] = NoNode] /\ map2 = Hash(IdMapCapacity)!Erase(b.id_map, id)
  BY EraseIsHash DEF NodesWithout
<1>3. b2 = [b EXCEPT !.nodes = nodes2, !.free = Append(b.free, n), !.id_map = map2,
                     !.levels[side] = IF left.head_idx = None THEN Trim([lv EXCEPT ![i] = left]) ELSE [lv EXCEPT ![i] = left]]
  <2> HIDE DEF map2
  <2> QED
    BY <1>2, PoolIs DEF RemoveNode, map2
<1> HIDE DEF left, nodes2, map2, b2
<1>4. b2 = [b EXCEPT !.nodes = nodes2, !.free = Append(b.free, n), !.id_map = map2,
                     !.levels[side] = IF level.head_idx = NoLink THEN Trim(lv2) ELSE lv2]
  BY <1>1, <1>3, PoolIs
<1> HIDE DEF lv2
<1>5. Becomes(b, b2, nodes2, Append(b.free, n), map2, side, IF level.head_idx = NoLink THEN Trim(lv2) ELSE lv2, "none")
  BY <1>4 DEF IsLob, Becomes
<1>6. Replaced(lv, lv2, i, level)
  BY DEF Replaced, lv2
<1> QED
  BY <1>2, <1>5, <1>6 DEF b2, nodes2

\* The node of an order that leaves is bare, and its neighbours are linked to each other.
LEMMA TakenNodes ==
  ASSUME NEW P \in Nat, NEW b, NEW bk, NEW q, NEW loc, Holding(P, b, bk, q, loc),
         NEW n \in 0..(P - 1), NEW size, NEW next, NEW prev,
         b.nodes[n].next_idx = next, b.nodes[n].prev_idx = prev,
         NEW nodes, nodes = NodesResized(b.nodes, n, size),
         nodes[n].next_idx = next, nodes[n].prev_idx = prev,
         NEW b2, b2.nodes = NodesWithout(nodes, n)
  PROVE  NodeTaken(P, b, b2, n, next, prev)
<1> DEFINE f == b.nodes
           u == Unlink(nodes, n)
<1>1. f = [k \in 0..(P - 1) |-> f[k]]
  BY DEF Holding
<1>2. nodes = [f EXCEPT ![n] = [f[n] EXCEPT !.size = size]]
  BY DEF NodesResized
<1> HIDE DEF f
<1>3. DOMAIN nodes = 0..(P - 1) /\ \A k \in 0..(P - 1) : k # n => nodes[k] = f[k]
  BY <1>1, <1>2
<1>4. u = [k \in 0..(P - 1) |-> IF k = prev THEN LinkedOn(nodes[k], next)
                               ELSE IF k = next THEN LinkedBack(nodes[k], prev) ELSE nodes[k]]
  BY <1>3 DEF Unlink, LinkedOn, LinkedBack
<1>5. b2.nodes = [u EXCEPT ![n] = BareNode]
  BY PoolIs DEF NodesWithout
<1> HIDE DEF u
<1>6. b2.nodes = [k \in 0..(P - 1) |-> IF k = n THEN BareNode ELSE u[k]]
  BY <1>4, <1>5
<1>7. \A k \in 0..(P - 1) : (IF k = n THEN BareNode ELSE u[k]) =
         (IF k = n THEN BareNode ELSE IF k = prev THEN LinkedOn(f[k], next)
          ELSE IF k = next THEN LinkedBack(f[k], prev) ELSE f[k])
  BY <1>3, <1>4
<1>8. b2.nodes = [k \in 0..(P - 1) |-> IF k = n THEN BareNode ELSE IF k = prev THEN LinkedOn(f[k], next)
                                       ELSE IF k = next THEN LinkedBack(f[k], prev) ELSE f[k]]
  BY <1>6, <1>7
<1> QED
  BY <1>8 DEF NodeTaken, f

\* An order that leaves: its level records the others at its side and price.
LEMMA LeftElse ==
  ASSUME NEW b, NEW bk, NEW q, NEW loc, Whole(b, bk, q, loc), NEW id \in DOMAIN bk,
         NEW side, NEW price, NEW p, NEW n, NEW i, Stands(b, bk, q, loc, id, side, price, p, n, i),
         NEW at, at = <<side, price>>, NEW next, NEW prev,
         next = b.nodes[n].next_idx, prev = b.nodes[n].prev_idx,
         NEW total, total = TotalAt(bk, at) - bk[id].size
  PROVE  /\ OnSpots(Unlined(q, at, p)) /\ FromFeed(Shrunk(bk, id))
         /\ SameElse(at, bk, q, loc, Shrunk(bk, id), Unlined(q, at, p), Shrunk(loc, id))
         /\ LevelShorter(LevelRecord(Shrunk(bk, id), Unlined(q, at, p), Shrunk(loc, id), at), b.levels[side][i], total, next, prev)
<1> DEFINE bk2 == Shrunk(bk, id)
           q2 == Unlined(q, at, p)
           loc2 == Shrunk(loc, id)
           level == LevelRecord(bk2, q2, loc2, at)
           old == b.levels[side][i]
<1>1. /\ side \in Sides /\ price \in PricesOf(side) /\ at \in DOMAIN q /\ at[2] = price
      /\ p \in 1..Len(q[at]) /\ id = q[at][p] /\ n = loc[id]
      /\ old = LevelRecord(bk, q, loc, at)
  BY DEF Stands
<1>2. Shelf(MaxOrders, IdMapCapacity, b, bk, q, loc) /\ OnSpots(q) /\ FromFeed(bk) /\ Queues(bk, q)
  BY DEF Whole, Shelf
<1>3. q2 = Unlined(q, at, p)
  OBVIOUS
<1>4. next = b.nodes[loc[id]].next_idx /\ prev = b.nodes[loc[id]].prev_idx
  BY <1>1
<1>5. DOMAIN q2 = DOMAIN q /\ \A a \in DOMAIN q : a # at => q2[a] = q[a]
  <2>1. q2 = [q EXCEPT ![at] = RemoveAt(q[at], p)]
    BY DEF Unlined
  <2> HIDE DEF q2
  <2> QED
    BY <1>1, <1>2, <2>1, QueueChanged
<1> HIDE DEF q2, old
<1>6. /\ level = [price |-> at[2], total_qty |-> TotalAt(bk, at) - bk[id].size,
                  head_idx |-> IF prev = NoLink THEN next ELSE HeadOf(loc, q[at]),
                  tail_idx |-> IF next = NoLink THEN prev ELSE TailOf(loc, q[at])]
      /\ \A a \in DOMAIN q : a # at => LevelRecord(bk2, q2, loc2, a) = LevelRecord(bk, q, loc, a)
  <2>1. /\ MaxOrders \in Nat /\ Shelf(MaxOrders, IdMapCapacity, b, bk, q, loc) /\ at \in DOMAIN q
        /\ p \in 1..Len(q[at]) /\ id = q[at][p] /\ q2 = Unlined(q, at, p)
        /\ next = b.nodes[loc[id]].next_idx /\ prev = b.nodes[loc[id]].prev_idx
    BY <1>1, <1>2, <1>3, <1>4, ConstantsAre
  <2> QED
    BY ONLY <2>1, LevelWithout
<1>7. SameElse(at, bk, q, loc, bk2, q2, loc2)
  BY <1>5, <1>6 DEF SameElse
<1>8. OnSpots(q2)
  BY <1>2, <1>5 DEF OnSpots
<1>9. FromFeed(bk2)
  BY <1>2 DEF FromFeed, Shrunk
<1>10. old.price = price /\ old.head_idx = HeadOf(loc, q[at]) /\ old.tail_idx = TailOf(loc, q[at])
  BY <1>1, <1>2, RecordIs
<1> HIDE DEF level, bk2, loc2
<1>11. LevelShorter(level, old, total, next, prev)
  BY <1>1, <1>6, <1>10 DEF LevelShorter
<1> QED
  BY <1>3, <1>7, <1>8, <1>9, <1>11 DEF level, bk2, loc2, old

\* An order of which all is cancelled is gone: its node is free.
LEMMA LeavesGood ==
  ASSUME NEW b, NEW bk, NEW q, NEW loc, Whole(b, bk, q, loc), b.error = "none", NEW id \in DOMAIN bk,
         NEW side, NEW price, NEW p, NEW n, NEW i, Stands(b, bk, q, loc, id, side, price, p, n, i),
         NEW at, at = <<side, price>>, NEW asked \in Nat, bk[id].size <= asked,
         NEW b2, b2 = CancelOrder(b, id, asked)
  PROVE  /\ Whole(b2, Shrunk(bk, id), Unlined(q, at, p), Shrunk(loc, id))
         /\ b2.error = "none" /\ b2.free = Append(b.free, n)
<1> DEFINE bk2 == Shrunk(bk, id)
           q2 == Unlined(q, at, p)
           loc2 == Shrunk(loc, id)
           lv == b.levels[side]
           size == bk[id].size
           next == b.nodes[n].next_idx
           prev == b.nodes[n].prev_idx
           total == TotalAt(bk, at) - size
           nodes1 == NodesResized(b.nodes, n, 0)
           lv1 == LevelsResized(lv, i, total)
           level1 == [lv[i] EXCEPT !.total_qty = total]
           level == LevelRecord(bk2, q2, loc2, at)
<1>1. /\ side \in Sides /\ price \in PricesOf(side) /\ at = <<side, price>> /\ SpotOf(bk[id]) = at /\ at \in DOMAIN q
      /\ p \in 1..Len(q[at]) /\ id = q[at][p]
      /\ n = loc[id] /\ n \in 0..(MaxOrders - 1) /\ NodeOf(b, id) = n /\ n # None
      /\ b.nodes[n] = LinkedNode(bk, loc, q[at], p)
      /\ i = PlaceOf(lv, side, price) /\ i \in 1..Len(lv)
      /\ lv[i] = LevelRecord(bk, q, loc, at) /\ lv[i].price = price /\ bk[id].side = side /\ bk[id].price = price
  BY DEF Stands
<1>2. /\ IsLob(b) /\ Shelf(MaxOrders, IdMapCapacity, b, bk, q, loc) /\ OnSpots(q) /\ FromFeed(bk)
      /\ Ladder(side, lv, bk, q, loc) /\ Tidy(lv)
      /\ IsBook(bk) /\ Queues(bk, q) /\ Holding(MaxOrders, b, bk, q, loc)
  BY <1>1 DEF Whole, Shelf
<1>3. size \in Nat \ {0} /\ Taken(size, asked) = size
  BY <1>2 DEF IsBook, Taken
<1>4. /\ b.nodes[n].order_id = id /\ b.nodes[n].side = side /\ b.nodes[n].price = price /\ b.nodes[n].size = size
      /\ b.nodes[n] = [order_id |-> id, side |-> side, price |-> price, size |-> size, next_idx |-> next, prev_idx |-> prev]
  BY <1>1 DEF LinkedNode
<1>5. lv[i].total_qty = TotalAt(bk, at) /\ TotalAt(bk, at) \in Nat /\ lv \in Seq(LevelType) /\ lv[i] \in LevelType
  <2>1. lv[i].total_qty = TotalAt(bk, at) /\ TotalAt(bk, at) \in Nat /\ lv[i] \in LevelType
    BY <1>1, <1>2, RecordIs
  <2> QED
    BY <1>2, <2>1 DEF Ladder
<1>6. total \in Nat
  <2>1. size <= TotalAt(bk, at)
    BY <1>1, <1>2, TotalIs DEF HoldersAt
  <2> QED
    BY <1>3, <1>5, <2>1
<1> HIDE DEF lv, next, prev, size
<1>7. PICK left : /\ Becomes(b, left, nodes1, b.free, b.id_map, side, lv1, "none")
                  /\ b2 = RemoveNode(left, n, i)
  <2>1. size - size = 0 /\ lv[i].total_qty - size = total
    BY <1>3, <1>5 DEF total
  <2>2. \E left : /\ Becomes(b, left, NodesResized(b.nodes, n, size - size), b.free, b.id_map, side,
                             LevelsResized(b.levels[side], i, b.levels[side][i].total_qty - size), "none")
                  /\ CancelOrder(b, id, asked) = IF size = size THEN RemoveNode(left, n, i) ELSE left
    <3>1. /\ IsLob(b) /\ b.error = "none" /\ NodeOf(b, id) = n /\ n # None
          /\ side \in Sides /\ b.nodes[n].side = side /\ b.nodes[n].price = price /\ b.nodes[n].size = size
          /\ i = PlaceOf(b.levels[side], side, price) /\ asked \in Nat /\ size = Taken(size, asked)
      BY <1>1, <1>2, <1>3, <1>4 DEF lv
    <3> QED
      BY ONLY <3>1, CancelIs
  <2>3. NodesResized(b.nodes, n, size - size) = nodes1
    BY <2>1
  <2>4. LevelsResized(b.levels[side], i, b.levels[side][i].total_qty - size) = lv1
    BY <2>1 DEF lv
  <2> HIDE DEF nodes1, lv1
  <2>5. PICK left : /\ Becomes(b, left, nodes1, b.free, b.id_map, side, lv1, "none")
                    /\ CancelOrder(b, id, asked) = IF size = size THEN RemoveNode(left, n, i) ELSE left
    BY <2>2, <2>3, <2>4
  <2>6. CancelOrder(b, id, asked) = RemoveNode(left, n, i)
    BY <2>5
  <2> QED
    BY <2>5, <2>6
<1>8. /\ IsLob(left) /\ left.nodes = nodes1 /\ left.free = b.free /\ left.id_map = b.id_map /\ left.error = "none"
      /\ left.levels[side] = lv1
  <2> HIDE DEF nodes1, lv1
  <2> QED
    BY <1>1, <1>2, <1>7, BecomesIs
<1>9. /\ left.nodes[n].order_id = id /\ left.nodes[n].side = side
      /\ left.nodes[n].next_idx = next /\ left.nodes[n].prev_idx = prev
  <2> DEFINE f == b.nodes
  <2>1. f = [k \in 0..(MaxOrders - 1) |-> f[k]]
    BY <1>2 DEF Holding
  <2>2. left.nodes = [f EXCEPT ![n] = [f[n] EXCEPT !.size = 0]]
    BY <1>8 DEF NodesResized
  <2>3. f[n] = [order_id |-> id, side |-> side, price |-> price, size |-> size, next_idx |-> next, prev_idx |-> prev]
    BY <1>4
  <2> HIDE DEF f
  <2>4. left.nodes[n] = [f[n] EXCEPT !.size = 0]
    BY <1>1, <2>1, <2>2
  <2> QED
    BY <2>3, <2>4
<1>10. /\ lv1 \in Seq(LevelType) /\ Len(lv1) = Len(lv) /\ lv1[i] = level1
       /\ level1.price = lv[i].price /\ level1.total_qty = total
       /\ level1.head_idx = lv[i].head_idx /\ level1.tail_idx = lv[i].tail_idx
       /\ lv1 = [lv EXCEPT ![i] = level1]
  <2> DEFINE r == lv[i]
  <2>1. r = [price |-> r.price, total_qty |-> r.total_qty, head_idx |-> r.head_idx, tail_idx |-> r.tail_idx] /\ r \in LevelType
    BY <1>5, LevelParts
  <2>2. lv1 = [lv EXCEPT ![i] = level1] /\ level1 = [r EXCEPT !.total_qty = total]
    BY DEF LevelsResized
  <2> HIDE DEF r, level1, lv1, total
  <2>3. level1 = [price |-> r.price, total_qty |-> total, head_idx |-> r.head_idx, tail_idx |-> r.tail_idx]
    BY <2>1, <2>2
  <2>4. level1 \in LevelType
    BY <1>6, <2>1, <2>3 DEF LevelType
  <2>5. lv1 \in Seq(LevelType) /\ Len(lv1) = Len(lv) /\ lv1[i] = level1
    BY <1>1, <1>5, <2>2, <2>4
  <2> QED
    BY <2>2, <2>3, <2>5 DEF r
<1>11. /\ OnSpots(q2) /\ FromFeed(bk2) /\ SameElse(at, bk, q, loc, bk2, q2, loc2)
       /\ LevelShorter(level, lv[i], total, next, prev)
  BY LeftElse DEF next, prev, lv, size
<1> HIDE DEF nodes1, lv1, level1, bk2, q2, loc2, level, total
<1>12. LevelShorter(level, lv1[i], total, next, prev)
  BY <1>10, <1>11 DEF LevelShorter
<1>13. PICK lv2 : /\ Replaced(lv1, lv2, i, level)
                  /\ Becomes(left, b2, NodesWithout(nodes1, n), Append(b.free, n),
                             Hash(IdMapCapacity)!Erase(b.id_map, id), side,
                             IF level.head_idx = NoLink THEN Trim(lv2) ELSE lv2, "none")
  <2>1. i \in 1..Len(lv1) /\ lv1[i].total_qty = total
    BY <1>1, <1>10
  <2>2. \E lv2 : /\ Replaced(lv1, lv2, i, level)
                 /\ Becomes(left, RemoveNode(left, n, i), NodesWithout(left.nodes, n), Append(left.free, n),
                            Hash(IdMapCapacity)!Erase(left.id_map, id), side,
                            IF level.head_idx = NoLink THEN Trim(lv2) ELSE lv2, "none")
    BY <1>1, <1>8, <1>9, <1>10, <1>12, <2>1, RemoveIs
  <2> QED
    BY <1>7, <1>8, <2>2
<1> DEFINE lv3 == IF level.head_idx = NoLink THEN Trim(lv2) ELSE lv2
           nodes2 == NodesWithout(nodes1, n)
<1>14. /\ Becomes(b, b2, nodes2, Append(b.free, n), Hash(IdMapCapacity)!Erase(b.id_map, id), side, lv3, "none")
       /\ b2.nodes = nodes2 /\ b2.free = Append(b.free, n) /\ b2.id_map = Hash(IdMapCapacity)!Erase(b.id_map, id)
  <2> HIDE DEF lv3, nodes2
  <2>1. Becomes(left, b2, nodes2, Append(b.free, n), Hash(IdMapCapacity)!Erase(b.id_map, id), side, lv3, "none")
    BY <1>13 DEF lv3, nodes2
  <2>2. Becomes(b, b2, nodes2, Append(b.free, n), Hash(IdMapCapacity)!Erase(b.id_map, id), side, lv3, "none")
    BY <1>1, <1>2, <1>7, <2>1, BecomesTwice
  <2>3. /\ b2.nodes = nodes2 /\ b2.free = Append(b.free, n) /\ b2.id_map = Hash(IdMapCapacity)!Erase(b.id_map, id)
    <3> DEFINE free2 == Append(b.free, n)
               map2 == Hash(IdMapCapacity)!Erase(b.id_map, id)
    <3>1. IsLob(b) /\ side \in Sides /\ Becomes(b, b2, nodes2, free2, map2, side, lv3, "none")
      BY <1>1, <1>2, <2>2
    <3> HIDE DEF free2, map2
    <3>2. b2.nodes = nodes2 /\ b2.free = free2 /\ b2.id_map = map2
      BY <3>1, BecomesIs
    <3> QED
      BY <3>2 DEF free2, map2
  <2> QED
    BY <2>2, <2>3
<1>15. NodeTaken(MaxOrders, b, b2, n, next, prev)
  <2>1. /\ nodes1 = NodesResized(b.nodes, n, 0) /\ nodes1[n].next_idx = next /\ nodes1[n].prev_idx = prev
        /\ b.nodes[n].next_idx = next /\ b.nodes[n].prev_idx = prev
    BY <1>8, <1>9 DEF nodes1, next, prev
  <2>2. b2.nodes = NodesWithout(nodes1, n)
    BY <1>14
  <2> QED
    BY <1>1, <1>2, <2>1, <2>2, ConstantsAre, TakenNodes
<1> HIDE DEF nodes2, lv3
<1>16. Shelf(MaxOrders, IdMapCapacity, b2, bk2, q2, loc2)
  <2>1. next = b.nodes[n].next_idx /\ prev = b.nodes[n].prev_idx
    BY DEF next, prev
  <2>2. Shelf(MaxOrders, IdMapCapacity, b2, Shrunk(bk, id), Unlined(q, at, p), Shrunk(loc, id))
    BY <1>1, <1>2, <1>14, <1>15, <2>1, ConstantsAre, ShelfWithout
  <2> QED
    BY <2>2 DEF bk2, q2, loc2
<1>17. /\ level \in LevelType /\ level.head_idx = HeadOf(loc2, q2[at]) /\ level.total_qty = TotalAt(bk2, at)
       /\ TotalAt(bk2, at) \in Nat /\ (TotalAt(bk2, at) = 0 <=> q2[at] = <<>>)
  BY <1>1, <1>11, <1>16, RecordIs DEF level
<1>18. Ladder(side, lv2, bk2, q2, loc2) /\ OneElse(lv, lv2, i, level)
  <2>1. Replaced(lv, lv2, i, level)
    <3>1. lv2 = [lv1 EXCEPT ![i] = level] /\ lv1 = [lv EXCEPT ![i] = level1]
      BY <1>10, <1>13 DEF Replaced
    <3>2. lv2 = [lv EXCEPT ![i] = level]
      BY <3>1
    <3> QED
      BY <3>2 DEF Replaced
  <2>2. IsSpot(at, side, lv[i].price)
    BY <1>1 DEF IsSpot
  <2>3. IsLevel(level, bk2, q2, loc2, at)
    BY <1>17 DEF IsLevel, level
  <2> QED
    BY <1>1, <1>2, <1>11, <2>1, <2>2, <2>3, LadderChanged
<1>19. Ladder(side, lv3, bk2, q2, loc2) /\ Tidy(lv3)
  <2>1. CASE level.head_idx = NoLink
    <3>1. Ladder(side, Trim(lv2), bk2, q2, loc2) /\ Tidy(Trim(lv2))
      BY <1>1, <1>11, <1>16, <1>18, TrimIs
    <3> QED
      BY <2>1, <3>1 DEF lv3
  <2>2. CASE level.head_idx # NoLink
    <3>1. level.total_qty > 0
      BY <1>17, <2>2 DEF HeadOf
    <3>2. Tidy(lv2)
      <4>1. lv \in Seq(LevelType) /\ lv2 \in Seq(LevelType)
        BY <1>2, <1>18 DEF Ladder
      <4>2. Len(lv2) = Len(lv) /\ lv2[i] = level /\ \A k \in 1..Len(lv) : k # i => lv2[k] = lv[k]
        BY <1>18 DEF OneElse
      <4>3. ASSUME lv2 # <<>> PROVE lv2[Len(lv2)].total_qty > 0
        <5>1. Len(lv) \in 1..Len(lv) /\ lv # <<>>
          BY <4>1, <4>2, <4>3
        <5>2. CASE i = Len(lv)
          BY <3>1, <4>2, <5>2
        <5>3. CASE i # Len(lv)
          BY <1>2, <4>2, <5>1, <5>3 DEF Tidy
        <5> QED
          BY <5>2, <5>3
      <4> QED
        BY <4>3 DEF Tidy
    <3> QED
      BY <1>18, <2>2, <3>2 DEF lv3
  <2> QED
    BY <2>1, <2>2
<1>20. at[1] = side
  BY <1>1
<1>21. Whole(b2, bk2, q2, loc2) /\ b2.error = "none"
  BY <1>1, <1>2, <1>11, <1>14, <1>16, <1>19, <1>20, WholeAgain
<1> QED
  BY <1>14, <1>21 DEF bk2, q2, loc2

\* An order of which a part is cancelled stays.
LEMMA PartGood ==
  ASSUME NEW b, NEW bk, NEW q, NEW loc, Whole(b, bk, q, loc), b.error = "none", NEW id \in DOMAIN bk,
         NEW asked \in Nat, asked < bk[id].size, NEW size, size = bk[id].size - asked,
         NEW b2, b2 = CancelOrder(b, id, asked)
  PROVE  Whole(b2, Sized(bk, id, size), q, loc) /\ b2.error = "none"
<1> DEFINE side == bk[id].side
           price == bk[id].price
           at == <<side, price>>
           old == bk[id].size
           n == loc[id]
           lv == b.levels[side]
           i == PlaceOf(lv, side, price)
           total == TotalAt(bk, SpotOf(bk[id])) - bk[id].size + size
<1>1. PICK p \in Nat : Stands(b, bk, q, loc, id, side, price, p, n, i)
  BY StandsSomewhere
<1>2. IsBook(bk) /\ IsLob(b) /\ Shelf(MaxOrders, IdMapCapacity, b, bk, q, loc) /\ OnSpots(q)
  BY DEF Whole, Shelf
<1>3. old \in Nat \ {0} /\ Taken(old, asked) = asked /\ size \in Nat \ {0} /\ old # asked
  BY <1>2 DEF IsBook, Taken
<1>4. /\ side \in Sides /\ price \in PricesOf(side) /\ NodeOf(b, id) = n /\ n # None /\ SpotOf(bk[id]) = at
      /\ b.nodes[n] = LinkedNode(bk, loc, q[at], p) /\ q[at][p] = id
      /\ lv[i] = LevelRecord(bk, q, loc, at)
  BY <1>1 DEF Stands
<1>5. b.nodes[n].side = side /\ b.nodes[n].price = price /\ b.nodes[n].size = old
  BY <1>4 DEF LinkedNode
<1>6. lv[i].total_qty = TotalAt(bk, at) /\ TotalAt(bk, at) \in Nat
  BY <1>2, <1>4, RecordIs
<1>7. lv[i].total_qty - asked = total
  BY <1>3, <1>4, <1>6
<1> HIDE DEF old, lv, side, price, n, at, i, total
<1>8. \E left : /\ Becomes(b, left, NodesResized(b.nodes, n, old - asked), b.free, b.id_map, side,
                           LevelsResized(b.levels[side], i, b.levels[side][i].total_qty - asked), "none")
                /\ CancelOrder(b, id, asked) = IF old = asked THEN RemoveNode(left, n, i) ELSE left
  <2>1. i = PlaceOf(b.levels[side], side, price)
    BY DEF i, lv
  <2> QED
    BY <1>2, <1>3, <1>4, <1>5, <2>1, CancelIs
<1>9. old - asked = size /\ b.levels[side][i].total_qty - asked = total
  BY <1>7 DEF old, lv
<1>10. Becomes(b, b2, NodesResized(b.nodes, n, size), b.free, b.id_map, side, LevelsResized(b.levels[side], i, total), "none")
  BY <1>3, <1>8, <1>9
<1>11. total = TotalAt(bk, SpotOf(bk[id])) - bk[id].size + size
  BY DEF total
<1> QED
  BY <1>1, <1>3, <1>10, <1>11, ResizedGood

\* An order is modified where it stands.
LEMMA ResizeGood ==
  ASSUME NEW b, NEW bk, NEW q, NEW loc, Whole(b, bk, q, loc), b.error = "none", NEW id \in DOMAIN bk,
         NEW size \in Nat \ {0}, NEW b2, b2 = Resize(b, loc[id], size)
  PROVE  Whole(b2, Sized(bk, id, size), q, loc) /\ b2.error = "none"
<1> DEFINE side == bk[id].side
           price == bk[id].price
           at == <<side, price>>
           n == loc[id]
           lv == b.levels[side]
           i == PlaceOf(lv, side, price)
           total == TotalAt(bk, SpotOf(bk[id])) - bk[id].size + size
           nodes2 == NodesResized(b.nodes, n, size)
           lv2 == LevelsResized(lv, i, total)
<1>1. PICK p \in Nat : Stands(b, bk, q, loc, id, side, price, p, n, i)
  BY StandsSomewhere
<1>2. IsBook(bk) /\ IsLob(b) /\ Shelf(MaxOrders, IdMapCapacity, b, bk, q, loc) /\ OnSpots(q)
  BY DEF Whole, Shelf
<1>4. /\ side \in Sides /\ price \in PricesOf(side) /\ SpotOf(bk[id]) = at
      /\ b.nodes[n] = LinkedNode(bk, loc, q[at], p) /\ q[at][p] = id
      /\ lv[i] = LevelRecord(bk, q, loc, at)
  BY <1>1 DEF Stands
<1>5. b.nodes[n].side = side /\ b.nodes[n].price = price /\ b.nodes[n].size = bk[id].size
  BY <1>4 DEF LinkedNode
<1>6. lv[i].total_qty = TotalAt(bk, at)
  BY <1>2, <1>4, RecordIs
<1>7. total = lv[i].total_qty - bk[id].size + size
  BY <1>4, <1>6
<1> DEFINE b1 == [b EXCEPT !.nodes = nodes2]
           lv1 == [b1.levels[side] EXCEPT ![i].total_qty = b1.levels[side][i].total_qty - bk[id].size + size]
<1>8. b2 = [b1 EXCEPT !.levels[side] = lv1]
  <2> HIDE DEF side, price
  <2>1. i = PlaceOf(b.levels[side], side, price)
    OBVIOUS
  <2>2. nodes2 = [b.nodes EXCEPT ![n].size = size]
    BY DEF NodesResized
  <2> HIDE DEF n, i, nodes2
  <2>3. b2 = Resize(b, n, size)
    BY DEF n
  <2> QED
    BY <1>5, <2>1, <2>2, <2>3 DEF Resize
<1>9. b1.levels = b.levels /\ b1 = [nodes |-> nodes2, free |-> b.free, id_map |-> b.id_map, levels |-> b.levels, error |-> b.error]
  BY <1>2 DEF IsLob
<1> HIDE DEF nodes2, b1, side, price, n, i
<1>10. lv1 = lv2
  BY <1>7, <1>9 DEF LevelsResized
<1> HIDE DEF lv1, lv2
<1>11. Becomes(b, b2, nodes2, b.free, b.id_map, side, lv2, "none")
  BY <1>8, <1>9, <1>10 DEF Becomes
<1>12. Becomes(b, b2, NodesResized(b.nodes, n, size), b.free, b.id_map, side, LevelsResized(b.levels[side], i, total), "none")
  BY <1>11 DEF nodes2, lv2
<1>13. total = TotalAt(bk, SpotOf(bk[id])) - bk[id].size + size
  OBVIOUS
<1>14. Stands(b, bk, q, loc, id, side, price, p, n, i)
  BY <1>1 DEF side, price, n, i
<1> HIDE DEF total
<1> QED
  BY <1>12, <1>13, <1>14, ResizedGood

\* An order the book does not know.
LEMMA UnknownIs ==
  ASSUME NEW b, NEW bk, NEW q, NEW loc, Whole(b, bk, q, loc), NEW id \in Ids, id \notin DOMAIN bk
  PROVE  NodeOf(b, id) = None /\ \A asked : CancelOrder(b, id, asked) = b
<1>1. IsBook(bk) /\ Located(MaxOrders, b, bk, loc) /\ Indexed(IdMapCapacity, b, bk, loc)
  BY DEF Whole, Shelf
<1>2. id \in Nat \ {0}
  BY FeedAssumption
<1>3. Hash(IdMapCapacity)!Find(b.id_map, id) = -1
  BY <1>1, <1>2, ConstantsAre, FindsOrders
<1>4. NodeOf(b, id) = None
  BY <1>3, FindIsHash DEF NodeOf, None
<1> QED
  BY <1>4 DEF CancelOrder

NoQueues == [at \in Sides \X Prices |-> <<>>]

\* A book without orders, whatever its free nodes.
LEMMA BareGood ==
  ASSUME NEW b, b.nodes = EmptyLob.nodes, b.id_map = IdMap!EmptyMap, b.levels = EmptyLob.levels, b.error = "none",
         b = [nodes |-> b.nodes, free |-> b.free, id_map |-> b.id_map, levels |-> b.levels, error |-> b.error],
         b.free \in Seq(0..(MaxOrders - 1)), \A j, k \in 1..Len(b.free) : b.free[j] = b.free[k] => j = k
  PROVE  Whole(b, NoOrders, NoQueues, NoOrders)
<1>1. b.nodes = [n \in 0..(MaxOrders - 1) |-> BareNode]
  BY PoolIs DEF EmptyLob
<1>2. b.levels = [side \in Sides |-> <<>>]
  BY DEF EmptyLob, Sides
<1>3. Shelf(MaxOrders, IdMapCapacity, b, NoOrders, NoQueues, NoOrders)
  <2> DEFINE bk == NoOrders
             q == NoQueues
             ats == Sides \X Prices
  <2>1. bk = [id \in {} |-> 0] /\ q = [at \in ats |-> <<>>]
    BY DEF NoOrders, NoQueues
  <2>2. b.id_map = Hash(IdMapCapacity)!EmptyMap
    BY EmptyMapIsHash
  <2> HIDE DEF bk, q, ats
  <2>3. Shelf(MaxOrders, IdMapCapacity, b, bk, q, bk)
    BY <1>1, <2>1, <2>2, ConstantsAre, ShelfEmpty
  <2> QED
    BY <2>3 DEF bk, q
<1>4. OnSpots(NoQueues) /\ FromFeed(NoOrders)
  BY DEF OnSpots, NoQueues, FromFeed, NoOrders
<1>5. IsLob(b)
  BY <1>2 DEF IsLob
<1>6. ASSUME NEW side \in Sides PROVE Ladder(side, b.levels[side], NoOrders, NoQueues, NoOrders) /\ Tidy(b.levels[side])
  <2>1. b.levels[side] = <<>>
    BY <1>2
  <2>2. \A price \in PricesOf(side) : NoQueues[<<side, price>>] = <<>>
    BY PricesAre DEF NoQueues
  <2>3. <<>> \in Seq(LevelType) /\ Len(<<>>) = 0
    OBVIOUS
  <2> HIDE DEF NoQueues
  <2> QED
    BY <2>1, <2>2, <2>3 DEF Ladder, Sorted, Tidy
<1> QED
  BY <1>3, <1>4, <1>5, <1>6 DEF Whole

\* A clear leaves a book without orders.
LEMMA ClearGood ==
  ASSUME NEW b, NEW bk, NEW q, NEW loc, Whole(b, bk, q, loc), b.error = "none"
  PROVE  Whole(ClearBook(b), NoOrders, NoQueues, NoOrders) /\ ClearBook(b).error = "none"
<1> DEFINE b2 == ClearBook(b)
<1>1. IsLob(b) /\ b.free \in Seq(0..(MaxOrders - 1)) /\ \A j, k \in 1..Len(b.free) : b.free[j] = b.free[k] => j = k
  BY DEF Whole, Shelf, Located
<1>2. b2 = [nodes |-> EmptyLob.nodes, free |-> b.free, id_map |-> IdMap!EmptyMap, levels |-> EmptyLob.levels, error |-> "none"]
  <2> DEFINE e == EmptyLob
             map == IdMap!EmptyMap
  <2>1. b = [nodes |-> b.nodes, free |-> b.free, id_map |-> b.id_map, levels |-> b.levels, error |-> "none"]
    BY <1>1 DEF IsLob
  <2>2. b2 = [b EXCEPT !.nodes = e.nodes, !.id_map = map, !.levels = e.levels]
    BY DEF ClearBook
  <2> HIDE DEF e, b2, map
  <2>3. b2 = [nodes |-> e.nodes, free |-> b.free, id_map |-> map, levels |-> e.levels, error |-> "none"]
    BY <2>1, <2>2
  <2> QED
    BY <2>3 DEF e, map
<1> HIDE DEF b2
<1>3. /\ b2.nodes = EmptyLob.nodes /\ b2.id_map = IdMap!EmptyMap /\ b2.levels = EmptyLob.levels /\ b2.error = "none"
      /\ b2 = [nodes |-> b2.nodes, free |-> b2.free, id_map |-> b2.id_map, levels |-> b2.levels, error |-> b2.error]
      /\ b2.free = b.free
  BY <1>2
<1>4. Whole(b2, NoOrders, NoQueues, NoOrders)
  BY <1>1, <1>3, BareGood
<1> QED
  BY <1>3, <1>4 DEF b2

\* The empty book has no orders.
LEMMA EmptyGood == Whole(EmptyLob, NoOrders, NoQueues, NoOrders) /\ EmptyLob.error = "none"
<1> DEFINE b == EmptyLob
           free == Pool!AllFree
<1>1. /\ b.nodes = EmptyLob.nodes /\ b.id_map = IdMap!EmptyMap /\ b.levels = EmptyLob.levels /\ b.error = "none"
      /\ b = [nodes |-> b.nodes, free |-> b.free, id_map |-> b.id_map, levels |-> b.levels, error |-> b.error]
      /\ b.free = free
  BY DEF EmptyLob
<1>2. free \in Seq(0..(MaxOrders - 1)) /\ \A j, k \in 1..Len(free) : free[j] = free[k] => j = k
  <2>1. free = [k \in 1..MaxOrders |-> MaxOrders - k]
    BY DEF Pool!AllFree
  <2>2. \A k \in 1..MaxOrders : MaxOrders - k \in 0..(MaxOrders - 1)
    BY ConstantsAre
  <2>3. Len(free) = MaxOrders
    BY <2>1, ConstantsAre
  <2> HIDE DEF free
  <2>4. free \in Seq(0..(MaxOrders - 1))
    BY <2>1, <2>2, ConstantsAre
  <2>5. ASSUME NEW j \in 1..Len(free), NEW k \in 1..Len(free), free[j] = free[k] PROVE j = k
    <3>1. free[j] = MaxOrders - j /\ free[k] = MaxOrders - k
      BY <2>1, <2>3
    <3>2. j \in 1..MaxOrders /\ k \in 1..MaxOrders /\ MaxOrders - j = MaxOrders - k
      BY <2>3, <2>5, <3>1
    <3> QED
      BY <3>2, ConstantsAre
  <2> QED
    BY <2>4, <2>5
<1> HIDE DEF free, b
<1>3. Whole(b, NoOrders, NoQueues, NoOrders)
  BY <1>1, <1>2, BareGood
<1> QED
  BY <1>1, <1>3 DEF b
---------------------------------------------------------------------------
(* The market's book and its queues. *)

\* The orders at every price as they came there, after a message: an order that grows keeps
\* its place among them.  This is how the lists of the book stand.
Arrivals(came, m, next) ==
  [at \in Sides \X Prices |-> Waiting(came[at], HoldersAt(next, at), m.order_id)]

\* The arrivals after a message, place by place.
LEMMA ArrivalsAre ==
  \A came, m, next : Arrivals(came, m, next) = [at \in Sides \X Prices |-> Waiting(came[at], HoldersAt(next, at), m.order_id)]
  BY DEF Arrivals

\* A new order: it lines up, and the others stay.
LEMMA ArrivalsNew ==
  ASSUME NEW came, NEW bk, Queues(bk, came), OnSpots(came), NEW id, id \notin DOMAIN bk,
         NEW o, NEW at, SpotOf(o) = at, at \in Sides \X Prices,
         NEW m, m.order_id = id
  PROVE  Arrivals(came, m, Widened(bk, id, o)) = LinedUp(came, at, id)
<1> DEFINE bk2 == Widened(bk, id, o)
           H(a) == HoldersAt(bk2, a)
<1>1. DOMAIN bk2 = DOMAIN bk \cup {id} /\ bk2[id] = o /\ \A x \in DOMAIN bk : bk2[x] = bk[x]
  BY DEF Widened
<1> HIDE DEF bk2
<1>2. ASSUME NEW a \in Sides \X Prices
      PROVE  Waiting(came[a], H(a), id) = IF a = at THEN Append(came[a], id) ELSE came[a]
  <2>1. a \in DOMAIN came
    BY DEF OnSpots
  <2>2. came[a] \in Seq(DOMAIN bk) /\ \A k \in 1..Len(came[a]) : came[a][k] \in DOMAIN bk /\ SpotOf(bk[came[a][k]]) = a
    BY <2>1, QueueHolds
  <2>3. \A k \in 1..Len(came[a]) : came[a][k] \in H(a) /\ came[a][k] # id
    BY <1>1, <2>2 DEF HoldersAt
  <2>4. id \in H(a) <=> a = at
    BY <1>1 DEF HoldersAt
  <2> HIDE DEF H
  <2>5. CASE a = at
    BY <2>2, <2>3, <2>4, <2>5, WaitingIs
  <2>6. CASE a # at
    BY <2>2, <2>3, <2>4, <2>6, WaitingIs
  <2> QED
    BY <2>5, <2>6
<1>3. Arrivals(came, m, bk2) = [a \in Sides \X Prices |-> Waiting(came[a], H(a), id)]
  BY ArrivalsAre
<1> HIDE DEF H
<1>4. Arrivals(came, m, bk2) = [a \in Sides \X Prices |-> IF a = at THEN Append(came[a], id) ELSE came[a]]
  BY <1>2, <1>3
<1>5. LinedUp(came, at, id) = [a \in Sides \X Prices |-> IF a = at THEN Append(came[a], id) ELSE came[a]]
  <2>1. came = [a \in Sides \X Prices |-> came[a]]
    BY DEF Queues, OnSpots
  <2> QED
    BY <2>1 DEF LinedUp
<1> QED
  BY <1>4, <1>5 DEF bk2

\* The orders stand where they stood.
LEMMA ArrivalsSame ==
  ASSUME NEW came, NEW bk, Queues(bk, came), OnSpots(came), NEW bk2, DOMAIN bk2 = DOMAIN bk,
         \A x \in DOMAIN bk : SpotOf(bk2[x]) = SpotOf(bk[x]), NEW m
  PROVE  Arrivals(came, m, bk2) = came
<1> DEFINE H(a) == HoldersAt(bk2, a)
<1>1. ASSUME NEW a \in Sides \X Prices PROVE Waiting(came[a], H(a), m.order_id) = came[a]
  <2>1. a \in DOMAIN came
    BY DEF OnSpots
  <2>2. /\ came[a] \in Seq(DOMAIN bk) /\ \A k \in 1..Len(came[a]) : came[a][k] \in DOMAIN bk /\ SpotOf(bk[came[a][k]]) = a
        /\ \A id \in DOMAIN bk : SpotOf(bk[id]) = a => \E k \in 1..Len(came[a]) : came[a][k] = id
    BY <2>1, QueueHolds
  <2>3. \A k \in 1..Len(came[a]) : came[a][k] \in H(a)
    BY <2>2 DEF HoldersAt
  <2>4. m.order_id \in H(a) => \E k \in 1..Len(came[a]) : came[a][k] = m.order_id
    BY <2>2 DEF HoldersAt
  <2> HIDE DEF H
  <2> QED
    BY <2>2, <2>3, <2>4, WaitingIs
<1>2. Arrivals(came, m, bk2) = [a \in Sides \X Prices |-> Waiting(came[a], H(a), m.order_id)]
  BY ArrivalsAre
<1> HIDE DEF H
<1>3. came = [a \in Sides \X Prices |-> came[a]]
  BY DEF Queues, OnSpots
<1> QED
  BY <1>1, <1>2, <1>3

\* An order is gone.
LEMMA ArrivalsGone ==
  ASSUME NEW came, NEW bk, Queues(bk, came), OnSpots(came), NEW at \in DOMAIN came, NEW p \in 1..Len(came[at]),
         NEW id, came[at][p] = id, NEW m, m.order_id = id
  PROVE  Arrivals(came, m, Shrunk(bk, id)) = Unlined(came, at, p)
<1> DEFINE bk2 == Shrunk(bk, id)
           H(a) == HoldersAt(bk2, a)
<1>1. DOMAIN bk2 = DOMAIN bk \ {id} /\ \A x \in DOMAIN bk \ {id} : bk2[x] = bk[x]
  BY DEF Shrunk
<1> HIDE DEF bk2
<1>2. ASSUME NEW a \in Sides \X Prices
      PROVE  Waiting(came[a], H(a), id) = IF a = at THEN RemoveAt(came[a], p) ELSE came[a]
  <2>1. a \in DOMAIN came /\ id \in DOMAIN bk /\ SpotOf(bk[id]) = at
    BY QueueHolds DEF OnSpots
  <2>2. /\ came[a] \in Seq(DOMAIN bk) /\ \A k \in 1..Len(came[a]) : came[a][k] \in DOMAIN bk /\ SpotOf(bk[came[a][k]]) = a
        /\ \A j, k \in 1..Len(came[a]) : came[a][j] = came[a][k] => j = k
    BY <2>1, QueueHolds
  <2>3. \A k \in 1..Len(came[a]) : came[a][k] \in H(a) <=> came[a][k] # id
    BY <1>1, <2>2 DEF HoldersAt
  <2>4. id \notin H(a)
    BY <1>1 DEF HoldersAt
  <2> HIDE DEF H
  <2>5. CASE a = at
    <3>1. \A k \in 1..Len(came[a]) : came[a][k] \in H(a) <=> k # p
      BY <2>2, <2>3, <2>5
    <3> QED
      BY <2>2, <2>4, <2>5, <3>1, WaitingIs
  <2>6. CASE a # at
    <3>1. \A k \in 1..Len(came[a]) : came[a][k] \in H(a)
      BY <2>1, <2>2, <2>3, <2>6
    <3> QED
      BY <2>2, <2>4, <2>6, <3>1, WaitingIs
  <2> QED
    BY <2>5, <2>6
<1>3. Arrivals(came, m, bk2) = [a \in Sides \X Prices |-> Waiting(came[a], H(a), id)]
  BY ArrivalsAre
<1> HIDE DEF H
<1>4. Arrivals(came, m, bk2) = [a \in Sides \X Prices |-> IF a = at THEN RemoveAt(came[a], p) ELSE came[a]]
  BY <1>2, <1>3
<1>5. Unlined(came, at, p) = [a \in Sides \X Prices |-> IF a = at THEN RemoveAt(came[a], p) ELSE came[a]]
  <2>1. came = [a \in Sides \X Prices |-> came[a]]
    BY DEF Queues, OnSpots
  <2> QED
    BY <2>1 DEF Unlined
<1> QED
  BY <1>4, <1>5 DEF bk2

\* An order goes to another price: it leaves one queue and lines up in the other.
LEMMA ArrivalsMoved ==
  ASSUME NEW came, NEW bk, Queues(bk, came), OnSpots(came), NEW at \in DOMAIN came, NEW p \in 1..Len(came[at]),
         NEW id, came[at][p] = id, NEW o, NEW to, SpotOf(o) = to, to \in Sides \X Prices, to # at,
         NEW m, m.order_id = id
  PROVE  Arrivals(came, m, Widened(Shrunk(bk, id), id, o)) = LinedUp(Unlined(came, at, p), to, id)
<1> DEFINE bk2 == Widened(Shrunk(bk, id), id, o)
           H(a) == HoldersAt(bk2, a)
           q2 == [a \in Sides \X Prices |-> IF a = to THEN Append(came[a], id) ELSE IF a = at THEN RemoveAt(came[a], p) ELSE came[a]]
<1>0. id \in DOMAIN bk /\ SpotOf(bk[id]) = at
  BY QueueHolds
<1>1. DOMAIN bk2 = DOMAIN bk /\ bk2[id] = o /\ \A x \in DOMAIN bk \ {id} : bk2[x] = bk[x]
  BY <1>0 DEF Shrunk, Widened
<1> HIDE DEF bk2
<1>2. ASSUME NEW a \in Sides \X Prices
      PROVE  Waiting(came[a], H(a), id) = IF a = to THEN Append(came[a], id)
                                           ELSE IF a = at THEN RemoveAt(came[a], p) ELSE came[a]
  <2>1. a \in DOMAIN came
    BY DEF OnSpots
  <2>2. /\ came[a] \in Seq(DOMAIN bk) /\ \A k \in 1..Len(came[a]) : came[a][k] \in DOMAIN bk /\ SpotOf(bk[came[a][k]]) = a
        /\ \A j, k \in 1..Len(came[a]) : came[a][j] = came[a][k] => j = k
    BY <2>1, QueueHolds
  <2>3. \A k \in 1..Len(came[a]) : came[a][k] # id => came[a][k] \in H(a)
    BY <1>1, <2>2 DEF HoldersAt
  <2>4. id \in H(a) <=> a = to
    BY <1>0, <1>1 DEF HoldersAt
  <2> HIDE DEF H
  <2>5. CASE a = at
    <3>1. \A k \in 1..Len(came[a]) : came[a][k] \in H(a) <=> k # p
      BY <2>2, <2>3, <2>4, <2>5
    <3> QED
      BY <2>2, <2>4, <2>5, <3>1, WaitingIs
  <2>6. CASE a # at
    <3>0. \A k \in 1..Len(came[a]) : came[a][k] # id
      BY <1>0, <2>2, <2>6
    <3>1. \A k \in 1..Len(came[a]) : came[a][k] \in H(a) /\ came[a][k] # id
      BY <2>3, <3>0
    <3>2. CASE a = to
      <4>1. id \in H(a)
        BY <2>4, <3>2
      <4> DEFINE s == came[a]
                 h == H(a)
      <4>2. s \in Seq(DOMAIN bk) /\ (\A k \in 1..Len(s) : s[k] \in h /\ s[k] # id) /\ id \in h
        BY <2>2, <3>1, <4>1
      <4> HIDE DEF s, h
      <4>3. Waiting(s, h, id) = Append(s, id)
        BY ONLY <4>2, WaitingIs
      <4> QED
        BY <3>2, <4>3 DEF s, h
    <3>3. CASE a # to
      BY <2>2, <2>4, <2>6, <3>1, <3>3, WaitingIs
    <3> QED
      BY <3>2, <3>3
  <2> QED
    BY <2>5, <2>6
<1>3. Arrivals(came, m, bk2) = [a \in Sides \X Prices |-> Waiting(came[a], H(a), id)]
  BY ArrivalsAre
<1> HIDE DEF H
<1>4. Arrivals(came, m, bk2) = q2
  BY <1>2, <1>3
<1>5. LinedUp(Unlined(came, at, p), to, id) = q2
  <2>1. came = [a \in Sides \X Prices |-> came[a]]
    BY DEF Queues, OnSpots
  <2>2. Unlined(came, at, p) = [a \in Sides \X Prices |-> IF a = at THEN RemoveAt(came[a], p) ELSE came[a]]
    BY <2>1 DEF Unlined
  <2> DEFINE u == Unlined(came, at, p)
  <2> HIDE DEF u
  <2>3. [u EXCEPT ![to] = Append(u[to], id)] = [a \in Sides \X Prices |-> IF a = to THEN Append(u[to], id) ELSE u[a]]
    BY <2>2 DEF u
  <2>4. u[to] = came[to]
    BY <2>2 DEF u
  <2>5. \A a \in Sides \X Prices : u[a] = IF a = at THEN RemoveAt(came[a], p) ELSE came[a]
    BY <2>2 DEF u
  <2>6. LinedUp(u, to, id) = [u EXCEPT ![to] = Append(u[to], id)]
    BY DEF LinedUp
  <2>7. LinedUp(u, to, id) = q2
    BY <2>3, <2>4, <2>5, <2>6
  <2> QED
    BY <2>7 DEF u
<1> QED
  BY <1>4, <1>5 DEF bk2

\* All orders are gone.
LEMMA ArrivalsNone ==
  ASSUME NEW came, NEW bk, Queues(bk, came), OnSpots(came), NEW m
  PROVE  Arrivals(came, m, NoOrders) = NoQueues
<1>1. ASSUME NEW a \in Sides \X Prices PROVE Waiting(came[a], HoldersAt(NoOrders, a), m.order_id) = <<>>
  <2>1. HoldersAt(NoOrders, a) = {}
    BY DEF HoldersAt, NoOrders
  <2>2. came[a] \in Seq(DOMAIN bk)
    BY QueueHolds DEF OnSpots
  <2> QED
    BY <2>1, <2>2, WaitingIs
<1>2. Arrivals(came, m, NoOrders) = [a \in Sides \X Prices |-> Waiting(came[a], HoldersAt(NoOrders, a), m.order_id)]
  BY ArrivalsAre
<1> QED
  BY <1>1, <1>2 DEF NoQueues
---------------------------------------------------------------------------
(* The market's turns beside the arrivals. *)

\* What stands in a sequence, and before what, once y is at its end.
LEMMA BeforeAppend ==
  ASSUME NEW X, NEW w \in Seq(X), NEW y \in X
  PROVE  /\ \A a : a \in ToSet(Append(w, y)) <=> a \in ToSet(w) \/ a = y
         /\ \A a, b : Before(Append(w, y), a, b) <=> Before(w, a, b) \/ (a \in ToSet(w) /\ b = y)
<1> DEFINE v == Append(w, y)
           n == Len(w)
<1>1. /\ n \in Nat /\ DOMAIN w = 1..n /\ DOMAIN v = 1..(n + 1) /\ v[n + 1] = y
      /\ \A j \in 1..n : v[j] = w[j]
  OBVIOUS
<1> HIDE DEF v, n
<1>2. \A j : j \in 1..(n + 1) <=> j \in 1..n \/ j = n + 1
  BY <1>1
<1>3. \A a : a \in ToSet(v) <=> a \in ToSet(w) \/ a = y
  <2>1. \A a : a \in ToSet(v) <=> \E j \in 1..(n + 1) : v[j] = a
    BY <1>1 DEF ToSet
  <2>2. \A a : a \in ToSet(w) <=> \E j \in 1..n : w[j] = a
    BY <1>1 DEF ToSet
  <2> QED
    BY <1>1, <1>2, <2>1, <2>2
<1>4. ASSUME NEW a, NEW b PROVE Before(v, a, b) <=> Before(w, a, b) \/ (a \in ToSet(w) /\ b = y)
  <2>1. ASSUME Before(v, a, b) PROVE Before(w, a, b) \/ (a \in ToSet(w) /\ b = y)
    <3>1. PICK j \in 1..(n + 1), k \in 1..(n + 1) : j < k /\ v[j] = a /\ v[k] = b
      BY <1>1, <2>1 DEF Before
    <3>2. j \in 1..n /\ w[j] = a /\ a \in ToSet(w)
      BY <1>1, <3>1 DEF ToSet
    <3>3. k \in 1..n \/ k = n + 1
      BY <1>2
    <3> QED
      BY <1>1, <3>1, <3>2, <3>3 DEF Before
  <2>2. ASSUME Before(w, a, b) PROVE Before(v, a, b)
    <3>1. PICK j \in 1..n, k \in 1..n : j < k /\ w[j] = a /\ w[k] = b
      BY <1>1, <2>2 DEF Before
    <3> QED
      BY <1>1, <1>2, <3>1 DEF Before
  <2>3. ASSUME a \in ToSet(w), b = y PROVE Before(v, a, b)
    <3>1. PICK j \in 1..n : w[j] = a
      BY <1>1, <2>3 DEF ToSet
    <3>2. j \in 1..(n + 1) /\ n + 1 \in 1..(n + 1) /\ j < n + 1 /\ v[j] = a /\ v[n + 1] = b
      BY <1>1, <2>3, <3>1
    <3> QED
      BY <1>1, <3>2 DEF Before
  <2> QED
    BY <2>1, <2>2, <2>3
<1> QED
  BY <1>3, <1>4 DEF v

\* Those that are kept of a queue are in the order in which they stood.
LEMMA KeptOrder ==
  ASSUME NEW X, NEW s \in Seq(X), NEW ids
  PROVE  /\ KeptIn(s, ids) \in Seq(X)
         /\ \A a : a \in ToSet(KeptIn(s, ids)) <=> a \in ToSet(s) /\ a \in ids
         /\ \A a, b : Before(KeptIn(s, ids), a, b) <=> Before(s, a, b) /\ a \in ids /\ b \in ids
<1> DEFINE n == Len(s)
           D == Seq(X)
<1>1. n \in Nat /\ DOMAIN s = 1..n /\ \A k \in 1..n : s[k] \in X
  BY ElementOfSeq, LenProperties
<1>2. PICK W : /\ W[0] = <<>>
               /\ \A k \in 1..n : W[k] = (IF s[k] \in ids THEN Append(W[k - 1], s[k]) ELSE W[k - 1])
               /\ KeptIn(s, ids) = W[n]
               /\ \A k \in 0..n : W[k] \in D
  BY KeptWalk DEF KeptBy
<1> HIDE DEF n
<1> DEFINE Holds(w, k) == \A a : a \in ToSet(w) <=> \E j \in 1..k : s[j] = a /\ a \in ids
           Orders(w, k) == \A a, b : Before(w, a, b) <=>
                             \E i, j \in 1..k : i < j /\ s[i] = a /\ s[j] = b /\ a \in ids /\ b \in ids
           G == {k \in Nat : k <= n => Holds(W[k], k) /\ Orders(W[k], k)}
<1>3. 0 \in G
  <2>1. ToSet(<<>>) = {} /\ \A a, b : ~Before(<<>>, a, b)
    BY DEF ToSet, Before
  <2> QED
    BY <1>2, <2>1
<1>4. ASSUME NEW k \in Nat, k \in G PROVE k + 1 \in G
  <2> SUFFICES ASSUME k + 1 <= n PROVE Holds(W[k + 1], k + 1) /\ Orders(W[k + 1], k + 1)
    OBVIOUS
  <2>1. k + 1 \in 1..n /\ (k + 1) - 1 = k /\ k \in 0..n /\ k <= n
    BY <1>1
  <2>2. Holds(W[k], k) /\ Orders(W[k], k)
    BY <1>4, <2>1
  <2> DEFINE w == W[k]
             y == s[k + 1]
  <2>3. w \in D /\ y \in X /\ W[k + 1] = (IF y \in ids THEN Append(w, y) ELSE w)
    BY <1>1, <1>2, <2>1
  <2> HIDE DEF G
  <2>4. /\ \A j : j \in 1..(k + 1) <=> j \in 1..k \/ j = k + 1
        /\ \A j \in 1..k : j < k + 1 /\ ~(k + 1 < j)
        /\ ~(k + 1 < k + 1)
    OBVIOUS
  <2>5. Holds(w, k) /\ Orders(w, k)
    BY <2>2
  <2>6. y = s[k + 1]
    OBVIOUS
  <2> DEFINE w2 == W[k + 1]
  <2>7. w2 = (IF y \in ids THEN Append(w, y) ELSE w)
    BY <2>3
  <2> HIDE DEF w, y, w2
  <2>8. CASE y \in ids
    <3>1. /\ \A a : a \in ToSet(w2) <=> a \in ToSet(w) \/ a = y
          /\ \A a, b : Before(w2, a, b) <=> Before(w, a, b) \/ (a \in ToSet(w) /\ b = y)
      BY <2>3, <2>7, <2>8, BeforeAppend
    <3>2. Holds(w2, k + 1)
      BY <2>4, <2>5, <2>6, <2>8, <3>1
    <3>3. ASSUME NEW a, NEW b
          PROVE  Before(w2, a, b) <=>
                   \E i, j \in 1..(k + 1) : i < j /\ s[i] = a /\ s[j] = b /\ a \in ids /\ b \in ids
      <4>1. (\E i, j \in 1..(k + 1) : i < j /\ s[i] = a /\ s[j] = b /\ a \in ids /\ b \in ids)
            <=> \/ \E i, j \in 1..k : i < j /\ s[i] = a /\ s[j] = b /\ a \in ids /\ b \in ids
                \/ (\E i \in 1..k : s[i] = a /\ a \in ids) /\ b = y
        BY <2>4, <2>6, <2>8
      <4> QED
        BY <2>5, <3>1, <4>1
    <3> QED
      BY <3>2, <3>3 DEF w2
  <2>9. CASE y \notin ids
    <3>1. w2 = w
      BY <2>7, <2>9
    <3>2. Holds(w, k + 1)
      BY <2>4, <2>5, <2>6, <2>9
    <3>3. Orders(w, k + 1)
      BY <2>4, <2>5, <2>6, <2>9
    <3> QED
      BY <3>1, <3>2, <3>3 DEF w2
  <2> QED
    BY <2>8, <2>9
<1>5. n \in G
  <2> HIDE DEF G
  <2> QED
    BY <1>1, <1>3, <1>4, NumberInduction
<1>6. Holds(W[n], n) /\ Orders(W[n], n) /\ W[n] \in D
  <2>1. n \in 0..n
    BY <1>1
  <2> QED
    BY <1>1, <1>2, <1>5, <2>1
<1> DEFINE w == W[n]
<1>7. Holds(w, n) /\ Orders(w, n) /\ w \in D /\ KeptIn(s, ids) = w
  BY <1>2, <1>6
<1> HIDE DEF w
<1>8. /\ \A a : a \in ToSet(s) <=> \E j \in 1..n : s[j] = a
      /\ \A a, b : Before(s, a, b) <=> \E i, j \in 1..n : i < j /\ s[i] = a /\ s[j] = b
  BY <1>1 DEF ToSet, Before
<1> QED
  BY <1>7, <1>8

\* A queue in which those in K stay and id comes last, if it rests here and has not stayed.
Standing(s, K, H, id) ==
  LET stay == KeptIn(s, K)
  IN  IF id \in H /\ id \notin ToSet(stay) THEN Append(stay, id) ELSE stay

\* Who stands in it, and before whom.
LEMMA StandingOrder ==
  ASSUME NEW X, NEW s \in Seq(X), NEW K, NEW H, NEW id, id \in H => id \in X,
         NEW w, w = Standing(s, K, H, id)
  PROVE  /\ w \in Seq(X)
         /\ \A a : a \in ToSet(w) <=> (a \in ToSet(s) /\ a \in K) \/ (id \in H /\ a = id)
         /\ \A a, b : Before(w, a, b) <=>
              \/ Before(s, a, b) /\ a \in K /\ b \in K
              \/ id \in H /\ ~(id \in ToSet(s) /\ id \in K) /\ a \in ToSet(s) /\ a \in K /\ b = id
<1> DEFINE stay == KeptIn(s, K)
<1>1. /\ stay \in Seq(X)
      /\ \A a : a \in ToSet(stay) <=> a \in ToSet(s) /\ a \in K
      /\ \A a, b : Before(stay, a, b) <=> Before(s, a, b) /\ a \in K /\ b \in K
  BY KeptOrder
<1>2. w = IF id \in H /\ id \notin ToSet(stay) THEN Append(stay, id) ELSE stay
  BY DEF Standing
<1> HIDE DEF stay
<1>3. CASE id \in H /\ id \notin ToSet(stay)
  <2>1. /\ w \in Seq(X)
        /\ \A a : a \in ToSet(w) <=> a \in ToSet(stay) \/ a = id
        /\ \A a, b : Before(w, a, b) <=> Before(stay, a, b) \/ (a \in ToSet(stay) /\ b = id)
    BY <1>1, <1>2, <1>3, BeforeAppend
  <2> QED
    BY <1>1, <1>3, <2>1
<1>4. CASE ~(id \in H /\ id \notin ToSet(stay))
  BY <1>1, <1>2, <1>4
<1> QED
  BY <1>3, <1>4

\* Of a price: the turns are those of the orders that came there, and but for those that
\* have grown no order has lost its turn to one that came later.
TurnsAt(s, turns, gr) ==
  /\ turns \in Seq(Ids)
  /\ \A x : x \in ToSet(turns) <=> x \in ToSet(s)
  /\ \A x, y : Before(s, x, y) /\ x \notin gr => Before(turns, x, y)

InTurn(came, turns, gr) == \A at \in Sides \X Prices : TurnsAt(came[at], turns[at], gr)

\* The turns and the arrivals after a message, at a price.
LEMMA QueuedAre ==
  ASSUME NEW came, NEW m, NEW next, NEW at \in Sides \X Prices, NEW H, H = HoldersAt(next, at)
  PROVE  /\ Queued(m, next)[at] = Standing(queue[at], IF Grows(m) THEN H \ {m.order_id} ELSE H, H, m.order_id)
         /\ Arrivals(came, m, next)[at] = Standing(came[at], H, H, m.order_id)
<1> DEFINE here == {id \in DOMAIN next : at = <<next[id].side, next[id].price>>}
           stay == Those(queue[at], IF Grows(m) THEN here \ {m.order_id} ELSE here)
<1>1. Queued(m, next)[at] = IF m.order_id \in here /\ m.order_id \notin ToSet(stay) THEN Append(stay, m.order_id) ELSE stay
  BY DEF Queued
<1>2. here = H
  BY DEF HoldersAt, SpotOf
<1> HIDE DEF here
<1>3. stay = KeptIn(queue[at], IF Grows(m) THEN H \ {m.order_id} ELSE H)
  BY <1>2, ThoseIs
<1> HIDE DEF stay
<1>4. Queued(m, next)[at] = Standing(queue[at], IF Grows(m) THEN H \ {m.order_id} ELSE H, H, m.order_id)
  BY <1>1, <1>2, <1>3 DEF Standing
<1>5. Arrivals(came, m, next)[at] = Waiting(came[at], H, m.order_id)
  BY DEF Arrivals
<1> QED
  BY <1>4, <1>5 DEF Waiting, Standing

\* The two before a message stand in the queue, and do so after it where they stood.
LEMMA BothStand ==
  ASSUME NEW X, NEW s \in Seq(X), NEW x, NEW y, Before(s, x, y)
  PROVE  x \in ToSet(s) /\ y \in ToSet(s)
  BY DEF Before, ToSet

\* A message keeps the turns.
LEMMA TurnsStep ==
  ASSUME NEW came, Queues(book, came), OnSpots(came), NEW m, NEW next, FromFeed(next), InTurn(came, queue, grown)
  PROVE  InTurn(Arrivals(came, m, next), Queued(m, next), Grown(m, next))
<1> SUFFICES ASSUME NEW at \in Sides \X Prices
             PROVE  TurnsAt(Arrivals(came, m, next)[at], Queued(m, next)[at], Grown(m, next))
  BY DEF InTurn
<1> DEFINE id == m.order_id
           H == HoldersAt(next, at)
           K == IF Grows(m) THEN H \ {id} ELSE H
           s == came[at]
           t == queue[at]
           s2 == Arrivals(came, m, next)[at]
           t2 == Queued(m, next)[at]
           gr2 == Grown(m, next)
<1>1. H \subseteq Ids /\ \A x \in H : x \in DOMAIN next /\ SpotOf(next[x]) = at
  BY DEF HoldersAt, FromFeed
<1>2. s \in Seq(DOMAIN book) /\ \A x \in ToSet(s) : x \in DOMAIN book /\ SpotOf(book[x]) = at
  <2>1. at \in DOMAIN came
    BY DEF OnSpots
  <2>2. s \in Seq(DOMAIN book) /\ \A k \in 1..Len(s) : s[k] \in DOMAIN book /\ SpotOf(book[s[k]]) = at
    BY <2>1, QueueHolds
  <2> HIDE DEF s
  <2>3. DOMAIN s = 1..Len(s)
    BY <2>2
  <2> QED
    BY <2>2, <2>3 DEF ToSet
<1>3. /\ t \in Seq(Ids) /\ \A x : x \in ToSet(t) <=> x \in ToSet(s)
      /\ \A x, y : Before(s, x, y) /\ x \notin grown => Before(t, x, y)
  BY DEF InTurn, TurnsAt
<1>4. s2 = Standing(s, H, H, id) /\ t2 = Standing(t, K, H, id)
  BY QueuedAre
<1>5. ASSUME NEW x \in ToSet(s), x \in H, x \in grown PROVE x \in gr2
  <2>1. x \in DOMAIN next /\ SpotOf(next[x]) = at /\ SpotOf(book[x]) = at
    BY <1>1, <1>2, <1>5
  <2>2. next[x].price = book[x].price
    BY <2>1 DEF SpotOf
  <2> QED
    BY <1>5, <2>1, <2>2 DEF Grown
<1>6. ASSUME Grows(m), NEW y \in ToSet(s), Before(t, id, y) PROVE id \in gr2
  <2>1. y \in DOMAIN book /\ at = <<book[y].side, book[y].price>>
    BY <1>2 DEF SpotOf
  <2>2. Passed(m)
    BY <1>6, <2>1 DEF Passed
  <2> QED
    BY <2>2 DEF Grown
<1>7. (Grows(m) => K = H \ {id}) /\ (~Grows(m) => K = H)
  OBVIOUS
<1>8. \A x, y : Before(s, x, y) => x \in ToSet(s) /\ y \in ToSet(s)
  BY <1>2, BothStand
<1> HIDE DEF id, H, K, s, t, s2, t2, gr2
<1>9. /\ \A a : a \in ToSet(s2) <=> (a \in ToSet(s) /\ a \in H) \/ (id \in H /\ a = id)
      /\ \A a, b : Before(s2, a, b) <=>
           \/ Before(s, a, b) /\ a \in H /\ b \in H
           \/ id \in H /\ ~(id \in ToSet(s) /\ id \in H) /\ a \in ToSet(s) /\ a \in H /\ b = id
  <2>1. s \in Seq(DOMAIN book \cup Ids)
    BY <1>2
  <2>2. id \in H => id \in DOMAIN book \cup Ids
    BY <1>1
  <2> DEFINE X == DOMAIN book \cup Ids
  <2> HIDE DEF X
  <2>3. s \in Seq(X) /\ (id \in H => id \in X)
    BY <2>1, <2>2 DEF X
  <2> QED
    BY <1>4, <2>3, StandingOrder
<1>10. /\ t2 \in Seq(Ids)
       /\ \A a : a \in ToSet(t2) <=> (a \in ToSet(t) /\ a \in K) \/ (id \in H /\ a = id)
       /\ \A a, b : Before(t2, a, b) <=>
            \/ Before(t, a, b) /\ a \in K /\ b \in K
            \/ id \in H /\ ~(id \in ToSet(t) /\ id \in K) /\ a \in ToSet(t) /\ a \in K /\ b = id
  <2>1. t \in Seq(Ids) /\ (id \in H => id \in Ids)
    BY <1>1, <1>3
  <2> QED
    BY <1>4, <2>1, StandingOrder
<1>11. \A x : x \in ToSet(t2) <=> x \in ToSet(s2)
  BY <1>3, <1>7, <1>9, <1>10
<1>12. ASSUME NEW x, NEW y, Before(s2, x, y), x \notin gr2 PROVE Before(t2, x, y)
  <2>1. CASE Before(s, x, y) /\ x \in H /\ y \in H
    <3>1. x \in ToSet(s) /\ y \in ToSet(s)
      BY <1>8, <2>1
    <3>2. x \notin grown
      BY <1>5, <1>12, <2>1, <3>1
    <3>3. Before(t, x, y) /\ x \in ToSet(t)
      BY <1>3, <2>1, <3>1, <3>2
    <3>4. CASE ~Grows(m)
      BY <1>7, <1>10, <2>1, <3>3, <3>4
    <3>5. CASE Grows(m)
      <4>1. x # id
        BY <1>6, <1>12, <3>1, <3>3, <3>5
      <4>2. x \in K /\ id \notin K /\ (y # id => y \in K)
        BY <1>7, <2>1, <3>5, <4>1
      <4> QED
        BY <1>10, <2>1, <3>3, <4>2
    <3> QED
      BY <3>4, <3>5
  <2>2. CASE id \in H /\ ~(id \in ToSet(s) /\ id \in H) /\ x \in ToSet(s) /\ x \in H /\ y = id
    <3>1. x # id /\ x \in K /\ x \in ToSet(t) /\ id \notin ToSet(t)
      BY <1>3, <1>7, <2>2
    <3> QED
      BY <1>10, <2>2, <3>1
  <2> QED
    BY <1>9, <1>12, <2>1, <2>2
<1> QED
  BY <1>10, <1>11, <1>12 DEF TurnsAt, s2, t2, gr2
---------------------------------------------------------------------------
(* The messages. *)

\* The market's book after a message.
LEMMA MarketIs ==
  ASSUME NEW bk, IsBook(bk), NEW id, NEW side, NEW price, NEW size, NEW m, AsksFor(m, id, side, price, size),
         NEW o, IsOrderOf(o, side, price, size)
  PROVE  /\ Market!AddOrder(bk, m) = Widened(bk, id, o)
         /\ id \notin DOMAIN bk => Market!ModifyOrder(bk, m) = Widened(bk, id, o)
         /\ id \in DOMAIN bk =>
              /\ bk[id].side = side /\ bk[id].price # price => Market!ModifyOrder(bk, m) = Widened(Shrunk(bk, id), id, o)
              /\ bk[id].price = price => Market!ModifyOrder(bk, m) = Sized(bk, id, size)
              /\ bk[id].size = size => Market!CancelBookOrder(bk, m) = Shrunk(bk, id)
              /\ size \in Nat /\ size < bk[id].size => Market!CancelBookOrder(bk, m) = Sized(bk, id, bk[id].size - size)
<1>1. m.order_id = id /\ m.side = side /\ m.price = price /\ m.size = size
  BY DEF AsksFor
<1>2. o = [side |-> side, price |-> price, size |-> size]
  BY DEF IsOrderOf
<1>3. Market!AddOrder(bk, m) = Widened(bk, id, o)
  BY <1>1, <1>2 DEF Market!AddOrder, Widened
<1>4. id \notin DOMAIN bk => Market!ModifyOrder(bk, m) = Widened(bk, id, o)
  BY <1>1, <1>3 DEF Market!ModifyOrder
<1>5. ASSUME id \in DOMAIN bk
      PROVE  /\ bk[id].side = side /\ bk[id].price # price => Market!ModifyOrder(bk, m) = Widened(Shrunk(bk, id), id, o)
             /\ bk[id].price = price => Market!ModifyOrder(bk, m) = Sized(bk, id, size)
             /\ bk[id].size = size => Market!CancelBookOrder(bk, m) = Shrunk(bk, id)
             /\ size \in Nat /\ size < bk[id].size => Market!CancelBookOrder(bk, m) = Sized(bk, id, bk[id].size - size)
  <2> DEFINE r == bk[id]
             r1 == [r EXCEPT !.price = price]
             r2 == [r1 EXCEPT !.size = size]
             b1 == [bk EXCEPT ![id] = r1]
  <2>1. bk = [x \in DOMAIN bk |-> bk[x]] /\ r = [side |-> r.side, price |-> r.price, size |-> r.size] /\ r.size \in Nat \ {0}
    BY <1>5 DEF IsBook
  <2>2. Market!ModifyOrder(bk, m) = [b1 EXCEPT ![id] = [b1[id] EXCEPT !.size = size]]
    BY <1>1, <1>5 DEF Market!ModifyOrder
  <2> HIDE DEF r
  <2>3. r1 = [side |-> r.side, price |-> price, size |-> r.size]
    BY <2>1
  <2> HIDE DEF r1
  <2>4. r2 = [side |-> r.side, price |-> price, size |-> size]
    BY <2>3
  <2>5. b1[id] = r1 /\ [b1 EXCEPT ![id] = [b1[id] EXCEPT !.size = size]] = [bk EXCEPT ![id] = r2]
    BY <1>5, <2>1
  <2> HIDE DEF r2, b1
  <2>6. Market!ModifyOrder(bk, m) = [bk EXCEPT ![id] = r2]
    BY <2>2, <2>5
  <2>7. ASSUME r.side = side PROVE Market!ModifyOrder(bk, m) = Widened(Shrunk(bk, id), id, o)
    <3>1. r2 = o
      BY <1>2, <2>4, <2>7
    <3>2. [bk EXCEPT ![id] = o] = [x \in DOMAIN bk |-> IF x = id THEN o ELSE bk[x]]
      BY <2>1
    <3>3. DOMAIN Shrunk(bk, id) = DOMAIN bk \ {id} /\ \A x \in DOMAIN bk \ {id} : Shrunk(bk, id)[x] = bk[x]
      BY DEF Shrunk
    <3>4. Widened(Shrunk(bk, id), id, o) = [x \in DOMAIN bk |-> IF x = id THEN o ELSE bk[x]]
      BY <1>5, <3>3 DEF Widened
    <3> QED
      BY <2>6, <3>1, <3>2, <3>4
  <2>8. ASSUME r.price = price PROVE Market!ModifyOrder(bk, m) = Sized(bk, id, size)
    <3>1. [r EXCEPT !.size = size] = r2
      BY <2>1, <2>4, <2>8
    <3> QED
      BY <2>6, <3>1 DEF Sized, r
  <2>9. ASSUME r.size = size PROVE Market!CancelBookOrder(bk, m) = Shrunk(bk, id)
    BY <1>1, <2>1, <2>9 DEF Market!CancelBookOrder, Shrunk, r
  <2>10. ASSUME size \in Nat, size < r.size PROVE Market!CancelBookOrder(bk, m) = Sized(bk, id, r.size - size)
    <3>1. r.size - size # 0
      BY <2>1, <2>10
    <3> QED
      BY <1>1, <3>1 DEF Market!CancelBookOrder, Sized, r
  <2> QED
    BY <2>7, <2>8, <2>9, <2>10 DEF r
<1> QED
  BY <1>3, <1>4, <1>5

\* The state of the books is good.
Good(b, bk, q) == \E loc : Whole(b, bk, q, loc)

\* A message leaves the book good for the orders as they came, and moves the market's turns.
Stepped(came, m) == /\ Good(lob', book', Arrivals(came, m, book'))
                    /\ queue' = Queued(m, book') /\ grown' = Grown(m, book')

\* The parts of a message.
LEMMA MessageIs ==
  ASSUME NEW action, NEW id, NEW side, NEW price, NEW size, NEW m, m = Message(action, id, side, price, size)
  PROVE  /\ AsksFor(m, id, side, price, size) /\ m.action = action
         /\ m.order_id = id /\ m.price = price /\ m.size = size
  BY DEF Message, AsksFor

\* What both books make of a new order.
LEMMA AddsGood ==
  ASSUME NEW came, NEW loc, Whole(lob, book, came, loc), lob.error = "none",
         NEW id \in Ids, id \notin DOMAIN book, NEW side \in Sides, NEW price \in PricesOf(side), NEW size \in Nat \ {0},
         NEW m, AsksFor(m, id, side, price, size), m.order_id = id,
         NEW b2, b2 = AddOrder(lob, m),
         NEW bk2, bk2 = IF b2.error = "none" THEN Market!AddOrder(book, m) ELSE book
  PROVE  Good(b2, bk2, Arrivals(came, m, bk2))
<1> DEFINE at == <<side, price>>
           o == [side |-> side, price |-> price, size |-> size]
<1>1. IsOrderOf(o, side, price, size) /\ at = <<side, price>>
  BY DEF IsOrderOf
<1>2. at \in Sides \X Prices
  BY PricesAre
<1> HIDE DEF o, at
<1>3. Queues(book, came) /\ OnSpots(came) /\ IsBook(book)
  BY DEF Whole, Shelf
<1>4. SpotOf(o) = at
  BY <1>1, OrderIs
<1>5. CASE lob.free = <<>>
  <2>1. Whole(b2, book, came, loc) /\ b2.error = Thrown
    <3>1. Pool!Exhausted(lob.free)
      BY <1>5, PoolIs
    <3>2. Whole(AddOrder(lob, m), book, came, loc) /\ AddOrder(lob, m).error = Thrown
      BY <3>1, AddFull
    <3> QED
      BY <3>2
  <2>2. bk2 = book
    BY <2>1 DEF Thrown
  <2>3. Arrivals(came, m, bk2) = came
    BY <1>3, <2>2, ArrivalsSame
  <2> QED
    BY <2>1, <2>2, <2>3 DEF Good
<1>6. CASE lob.free # <<>>
  <2>1. /\ Whole(b2, Widened(book, id, o), LinedUp(came, at, id), Widened(loc, id, Last(lob.free)))
        /\ b2.error = "none"
    BY <1>1, <1>6, AddGood
  <2>2. bk2 = Widened(book, id, o)
    BY <1>1, <1>3, <2>1, MarketIs
  <2>3. Arrivals(came, m, Widened(book, id, o)) = LinedUp(came, at, id)
    BY <1>2, <1>3, <1>4, ArrivalsNew
  <2> QED
    BY <2>1, <2>2, <2>3 DEF Good
<1> QED
  BY <1>5, <1>6

\* An order is added.
LEMMA AddKeeps ==
  ASSUME NEW came, Good(lob, book, came), lob.error = "none", Add
  PROVE  \E sent : Stepped(came, sent)
<1>1. PICK loc : Whole(lob, book, came, loc)
  BY DEF Good
<1>2. PICK id \in Ids \ DOMAIN book, side \in Sides :
        \E price \in PricesOf(side), size \in SizesOf(side) : Feed(Message("Add", id, side, price, size))
  BY DEF Add
<1>3. PICK price \in PricesOf(side), size \in SizesOf(side) : Feed(Message("Add", id, side, price, size))
  BY <1>2
<1> DEFINE m == Message("Add", id, side, price, size)
<1>4. AsksFor(m, id, side, price, size) /\ m.order_id = id /\ m.action = "Add"
  BY MessageIs
<1>5. Feed(m)
  BY <1>3
<1> HIDE DEF m
<1>6. lob' = AddOrder(lob, m) /\ book' = (IF lob'.error = "none" THEN Market!AddOrder(book, m) ELSE book) /\ queue' = Queued(m, book') /\ grown' = Grown(m, book')
  BY <1>4, <1>5 DEF Feed, UpdateBook, Market!UpdateBook
<1>7. size \in Nat \ {0}
  BY FeedAssumption DEF SizesOf
<1>8. Good(lob', book', Arrivals(came, m, book'))
  BY <1>1, <1>4, <1>6, <1>7, AddsGood
<1> QED
  BY <1>6, <1>8 DEF Stepped

\* Sizes and prices are positive.
LEMMA SizesPositive ==
  /\ \A side \in Sides : \A size \in SizesOf(side) : size \in Nat \ {0}
  /\ \A size \in Sizes : size \in Nat \ {0}
  BY FeedAssumption DEF Sizes, SizesOf

\* An order that rests goes to another price.
LEMMA MoveGood ==
  ASSUME NEW came, NEW loc, Whole(lob, book, came, loc), lob.error = "none",
         NEW id \in DOMAIN book, NEW price \in PricesOf(book[id].side), price # book[id].price, NEW size \in Nat \ {0},
         NEW m, AsksFor(m, id, book[id].side, price, size), m.order_id = id,
         NEW o, IsOrderOf(o, book[id].side, price, size),
         NEW b2, b2 = AddOrder(CancelOrder(lob, id, book[id].size), m),
         NEW bk2, bk2 = Widened(Shrunk(book, id), id, o)
  PROVE  b2.error = "none" /\ Good(b2, bk2, Arrivals(came, m, bk2))
<1> DEFINE side == book[id].side
           was == book[id].price
           at == <<side, was>>
           to == <<side, price>>
           n == loc[id]
           i == PlaceOf(lob.levels[side], side, was)
           b1 == CancelOrder(lob, id, book[id].size)
<1>1. PICK p \in Nat : Stands(lob, book, came, loc, id, side, was, p, n, i)
  BY StandsSomewhere
<1>2. side \in Sides /\ at \in DOMAIN came /\ p \in 1..Len(came[at]) /\ came[at][p] = id
  BY <1>1 DEF Stands
<1>3. Queues(book, came) /\ OnSpots(came) /\ IsBook(book) /\ FromFeed(book)
  BY DEF Whole, Shelf
<1>4. book[id].size \in Nat /\ id \in Ids
  BY <1>3 DEF IsBook, FromFeed
<1>5. at = <<side, was>> /\ to = <<side, price>> /\ to # at /\ to \in Sides \X Prices
  BY <1>2, PricesAre
<1>6. SpotOf(o) = to
  BY OrderIs
<1> DEFINE q1 == Unlined(came, at, p)
           bk1 == Shrunk(book, id)
           loc1 == Shrunk(loc, id)
           taken == book[id].size
<1>7. b1 = CancelOrder(lob, id, taken) /\ taken <= taken /\ taken = book[id].size
  BY <1>4
<1> HIDE DEF b1, at, to, taken
<1>8. Whole(b1, bk1, q1, loc1) /\ b1.error = "none" /\ b1.free = Append(lob.free, n)
  <2>1. taken \in Nat /\ book[id].size <= taken
    BY <1>4, <1>7
  <2> HIDE DEF i, n, side, was
  <2>2. at = <<side, was>> /\ Stands(lob, book, came, loc, id, side, was, p, n, i)
    BY <1>1, <1>5 DEF i, n, side, was
  <2> QED
    BY <1>7, <2>1, <2>2, LeavesGood
<1>9. b1.free # <<>>
  <2>1. lob.free \in Seq(0..(MaxOrders - 1)) /\ n \in 0..(MaxOrders - 1)
    BY <1>1 DEF Whole, Shelf, Located, Stands
  <2> QED
    BY <1>8, <2>1
<1>10. id \notin DOMAIN bk1
  BY DEF Shrunk
<1>11. /\ Whole(AddOrder(b1, m), Widened(bk1, id, o), LinedUp(q1, to, id), Widened(loc1, id, Last(b1.free)))
       /\ AddOrder(b1, m).error = "none"
  <2> HIDE DEF bk1, q1, loc1, side, n
  <2>1. AsksFor(m, id, side, price, size) /\ IsOrderOf(o, side, price, size) /\ price \in PricesOf(side)
    BY DEF side
  <2> QED
    <3>1. id \in Ids /\ side \in Sides /\ to = <<side, price>>
      BY <1>2, <1>4, <1>5
    <3> QED
      <4>1. /\ Whole(b1, bk1, q1, loc1) /\ b1.error = "none" /\ b1.free # <<>>
            /\ id \in Ids /\ id \notin DOMAIN bk1 /\ side \in Sides /\ price \in PricesOf(side) /\ size \in Nat \ {0}
            /\ AsksFor(m, id, side, price, size) /\ IsOrderOf(o, side, price, size) /\ to = <<side, price>>
        BY <1>8, <1>9, <1>10, <2>1, <3>1
      <4> QED
        BY ONLY <4>1, AddGood
<1>12. Arrivals(came, m, bk2) = LinedUp(q1, to, id)
  <2> HIDE DEF side, was
  <2>1. Arrivals(came, m, Widened(Shrunk(book, id), id, o)) = LinedUp(Unlined(came, at, p), to, id)
    BY <1>2, <1>3, <1>5, <1>6, ArrivalsMoved
  <2> QED
    BY <2>1
<1>13. b2 = AddOrder(b1, m) /\ bk2 = Widened(bk1, id, o)
  BY DEF b1
<1> HIDE DEF bk1, q1, loc1
<1> QED
  BY <1>11, <1>12, <1>13 DEF Good

\* An order is modified.
LEMMA ModifyKeeps ==
  ASSUME NEW came, Good(lob, book, came), lob.error = "none", Modify
  PROVE  \E sent : Stepped(came, sent)
<1>1. PICK loc : Whole(lob, book, came, loc)
  BY DEF Good
<1>2. PICK id \in Ids, side \in Sides :
        \E price \in PricesOf(side), size \in SizesOf(side) :
          /\ id \in DOMAIN book => side = book[id].side
          /\ Feed(Message("Modify", id, side, price, size))
  BY DEF Modify
<1>3. PICK price \in PricesOf(side), size \in SizesOf(side) :
          /\ id \in DOMAIN book => side = book[id].side
          /\ Feed(Message("Modify", id, side, price, size))
  BY <1>2
<1> DEFINE m == Message("Modify", id, side, price, size)
           o == [side |-> side, price |-> price, size |-> size]
<1>4. AsksFor(m, id, side, price, size) /\ m.order_id = id /\ m.price = price /\ m.size = size /\ m.action = "Modify"
  BY MessageIs
<1>5. Feed(m) /\ IsOrderOf(o, side, price, size)
  BY <1>3 DEF IsOrderOf
<1> HIDE DEF m, o
<1>6. lob' = ModifyOrder(lob, m) /\ book' = (IF lob'.error = "none" THEN Market!ModifyOrder(book, m) ELSE book) /\ queue' = Queued(m, book') /\ grown' = Grown(m, book')
  BY <1>4, <1>5 DEF Feed, UpdateBook, Market!UpdateBook
<1> SUFFICES Good(lob', book', Arrivals(came, m, book'))
  BY <1>6 DEF Stepped
<1>7. size \in Nat \ {0}
  BY SizesPositive
<1>8. Queues(book, came) /\ OnSpots(came) /\ IsBook(book)
  BY <1>1 DEF Whole, Shelf
<1>9. CASE id \notin DOMAIN book
  <2>1. NodeOf(lob, id) = None
    BY <1>1, <1>9, UnknownIs
  <2>2. lob' = AddOrder(lob, m)
    BY <1>4, <1>6, <2>1 DEF ModifyOrder
  <2>3. Market!ModifyOrder(book, m) = Market!AddOrder(book, m)
    BY <1>4, <1>5, <1>8, <1>9, MarketIs
  <2>4. Good(lob', book', Arrivals(came, m, book'))
    BY <1>1, <1>4, <1>6, <1>7, <1>9, <2>2, <2>3, AddsGood
  <2> QED
    BY <1>6, <2>4 DEF Good
<1>10. CASE id \in DOMAIN book
  <2> DEFINE n == loc[id]
             was == book[id].price
             i == PlaceOf(lob.levels[book[id].side], book[id].side, was)
  <2>1. PICK p \in Nat : Stands(lob, book, came, loc, id, book[id].side, was, p, n, i)
    BY <1>1, <1>10, StandsSomewhere
  <2>2. side = book[id].side
    BY <1>3, <1>10
  <2>3. /\ NodeOf(lob, id) = n /\ n # None
        /\ lob.nodes[n] = LinkedNode(book, loc, came[<<side, was>>], p) /\ came[<<side, was>>][p] = id
    BY <2>1, <2>2 DEF Stands
  <2>4. lob.nodes[n].price = was /\ lob.nodes[n].size = book[id].size
    BY <2>3 DEF LinkedNode
  <2> HIDE DEF n, was, i
  <2>5. CASE price # was
    <3>1. lob' = AddOrder(CancelOrder(lob, id, book[id].size), m)
      BY <1>4, <1>6, <2>3, <2>4, <2>5 DEF ModifyOrder
    <3> DEFINE bk2 == Widened(Shrunk(book, id), id, o)
    <3>2. Market!ModifyOrder(book, m) = bk2
      BY <1>4, <1>5, <1>8, <1>10, <2>2, <2>5, MarketIs DEF was
    <3>3. bk2 = Widened(Shrunk(book, id), id, o)
      OBVIOUS
    <3> HIDE DEF bk2
    <3>4. lob'.error = "none" /\ Good(lob', bk2, Arrivals(came, m, bk2))
      BY <1>1, <1>4, <1>5, <1>7, <1>10, <2>2, <2>5, <3>1, <3>3, MoveGood DEF was
    <3> QED
      BY <1>6, <3>2, <3>4 DEF Good
  <2>6. CASE price = was
    <3>1. lob' = Resize(lob, n, size)
      BY <1>4, <1>6, <2>3, <2>4, <2>6 DEF ModifyOrder
    <3> DEFINE bk2 == Sized(book, id, size)
    <3>2. Market!ModifyOrder(book, m) = bk2
      BY <1>4, <1>5, <1>8, <1>10, <2>6, MarketIs DEF was
    <3>3. Whole(lob', bk2, came, loc) /\ lob'.error = "none"
      BY <1>1, <1>7, <1>10, <3>1, ResizeGood DEF n
    <3>4. Arrivals(came, m, bk2) = came
      <4>1. DOMAIN bk2 = DOMAIN book /\ \A x \in DOMAIN book : SpotOf(bk2[x]) = SpotOf(book[x])
        <5>1. /\ DOMAIN bk2 = DOMAIN book
              /\ \A x \in DOMAIN book : bk2[x].side = book[x].side /\ bk2[x].price = book[x].price
          BY <1>7, <1>8, <1>10, RestingSized
        <5> HIDE DEF bk2
        <5> QED
          BY <5>1 DEF SpotOf
      <4> HIDE DEF bk2
      <4> QED
        BY <1>8, <4>1, ArrivalsSame
    <3> HIDE DEF bk2
    <3> QED
      BY <1>6, <3>2, <3>3, <3>4 DEF Good
  <2> QED
    BY <2>5, <2>6
<1> QED
  BY <1>9, <1>10

\* All of an order is cancelled.
LEMMA GoneGood ==
  ASSUME NEW came, NEW loc, Whole(lob, book, came, loc), lob.error = "none",
         NEW id \in DOMAIN book, NEW asked \in Nat, book[id].size <= asked,
         NEW b2, b2 = CancelOrder(lob, id, asked), NEW m, m.order_id = id
  PROVE  b2.error = "none" /\ Good(b2, Shrunk(book, id), Arrivals(came, m, Shrunk(book, id)))
<1> DEFINE side == book[id].side
           price == book[id].price
           at == <<side, price>>
           n == loc[id]
           i == PlaceOf(lob.levels[side], side, price)
<1>1. PICK p \in Nat : Stands(lob, book, came, loc, id, side, price, p, n, i)
  BY StandsSomewhere
<1>2. at \in DOMAIN came /\ p \in 1..Len(came[at]) /\ came[at][p] = id /\ at = <<side, price>>
  BY <1>1 DEF Stands
<1>3. Queues(book, came) /\ OnSpots(came)
  BY DEF Whole, Shelf
<1> HIDE DEF at, side, price, n, i
<1>4. Whole(b2, Shrunk(book, id), Unlined(came, at, p), Shrunk(loc, id)) /\ b2.error = "none"
  BY <1>1, <1>2, LeavesGood
<1>5. Arrivals(came, m, Shrunk(book, id)) = Unlined(came, at, p)
  BY <1>2, <1>3, ArrivalsGone
<1> QED
  BY <1>4, <1>5 DEF Good

\* An order, or a part of it, is cancelled.
LEMMA CancelKeeps ==
  ASSUME NEW came, Good(lob, book, came), lob.error = "none", Cancel
  PROVE  \E sent : Stepped(came, sent)
<1>1. PICK loc : Whole(lob, book, came, loc)
  BY DEF Good
<1>2. PICK id \in DOMAIN book, size \in Sizes :
        size <= book[id].size /\ Feed(Message("Cancel", id, book[id].side, book[id].price, size))
  BY DEF Cancel
<1> DEFINE m == Message("Cancel", id, book[id].side, book[id].price, size)
           o == [side |-> book[id].side, price |-> book[id].price, size |-> size]
<1>3. AsksFor(m, id, book[id].side, book[id].price, size) /\ m.order_id = id /\ m.size = size /\ m.action = "Cancel"
  BY MessageIs
<1>4. IsOrderOf(o, book[id].side, book[id].price, size) /\ Feed(m)
  BY <1>2 DEF IsOrderOf
<1> HIDE DEF m, o
<1>5. lob' = CancelOrder(lob, id, size) /\ book' = (IF lob'.error = "none" THEN Market!CancelBookOrder(book, m) ELSE book)
      /\ queue' = Queued(m, book') /\ grown' = Grown(m, book')
  BY <1>3, <1>4 DEF Feed, UpdateBook, Market!UpdateBook
<1> SUFFICES Good(lob', book', Arrivals(came, m, book'))
  BY <1>5 DEF Stepped
<1>6. Queues(book, came) /\ OnSpots(came) /\ IsBook(book)
  BY <1>1 DEF Whole, Shelf
<1>7. size \in Nat \ {0} /\ book[id].size \in Nat
  BY <1>6, SizesPositive DEF IsBook
<1>8. CASE size = book[id].size
  <2>1. Market!CancelBookOrder(book, m) = Shrunk(book, id)
    BY <1>3, <1>4, <1>6, <1>8, MarketIs
  <2>2. book[id].size <= size
    BY <1>7, <1>8
  <2>3. lob'.error = "none" /\ Good(lob', Shrunk(book, id), Arrivals(came, m, Shrunk(book, id)))
    BY <1>1, <1>3, <1>5, <1>7, <2>2, GoneGood
  <2> QED
    BY <1>5, <2>1, <2>3 DEF Good
<1>9. CASE size # book[id].size
  <2> DEFINE left == book[id].size - size
             bk2 == Sized(book, id, left)
  <2>1. size < book[id].size /\ left \in Nat \ {0} /\ left = book[id].size - size
    BY <1>2, <1>7, <1>9
  <2> HIDE DEF left
  <2>2. Market!CancelBookOrder(book, m) = bk2
    <3>1. Market!CancelBookOrder(book, m) = Sized(book, id, book[id].size - size)
      BY <1>3, <1>4, <1>6, <1>7, <2>1, MarketIs
    <3> QED
      BY <2>1, <3>1
  <2>3. Whole(lob', bk2, came, loc) /\ lob'.error = "none"
    BY <1>1, <1>5, <1>7, <2>1, PartGood
  <2>4. Arrivals(came, m, bk2) = came
    <3>1. /\ DOMAIN bk2 = DOMAIN book
          /\ \A x \in DOMAIN book : bk2[x].side = book[x].side /\ bk2[x].price = book[x].price
      <4>1. IsBook(book) /\ id \in DOMAIN book /\ left \in Nat \ {0}
        BY <1>6, <2>1
      <4> QED
        BY ONLY <4>1, RestingSized
    <3> HIDE DEF bk2
    <3>2. \A x \in DOMAIN book : SpotOf(bk2[x]) = SpotOf(book[x])
      BY <3>1 DEF SpotOf
    <3> QED
      BY <1>6, <3>1, <3>2, ArrivalsSame
  <2> HIDE DEF bk2
  <2> QED
    BY <1>5, <2>2, <2>3, <2>4 DEF Good
<1> QED
  BY <1>8, <1>9

\* More than there is of an order is cancelled.
LEMMA OverCancelKeeps ==
  ASSUME NEW came, Good(lob, book, came), lob.error = "none", OverCancel
  PROVE  \E sent : Stepped(came, sent)
<1>1. PICK loc : Whole(lob, book, came, loc)
  BY DEF Good
<1>2. PICK id \in DOMAIN book, size \in Sizes :
        /\ size > book[id].size
        /\ lob' = UpdateBook(lob, Message("Cancel", id, "None", 0, size))
        /\ book' = Market!UpdateBook(book, Message("Cancel", id, "None", 0, book[id].size))
        /\ queue' = Queued(Message("Cancel", id, "None", 0, size), book')
        /\ grown' = Grown(Message("Cancel", id, "None", 0, size), book')
  BY DEF OverCancel
<1> DEFINE m == Message("Cancel", id, "None", 0, size)
           all == book[id].size
           m2 == Message("Cancel", id, "None", 0, all)
           o == [side |-> "None", price |-> 0, size |-> all]
<1>3. m.order_id = id /\ m.size = size /\ m.action = "Cancel"
  BY MessageIs
<1>4. AsksFor(m2, id, "None", 0, all) /\ m2.action = "Cancel" /\ IsOrderOf(o, "None", 0, all)
  BY MessageIs DEF IsOrderOf
<1>5. lob' = UpdateBook(lob, m) /\ book' = Market!UpdateBook(book, m2) /\ queue' = Queued(m, book') /\ grown' = Grown(m, book')
  BY <1>2
<1> HIDE DEF m, m2, o
<1>6. lob' = CancelOrder(lob, id, size) /\ book' = Market!CancelBookOrder(book, m2)
  BY <1>3, <1>4, <1>5 DEF UpdateBook, Market!UpdateBook
<1>7. IsBook(book)
  BY <1>1 DEF Whole, Shelf
<1>8. book' = Shrunk(book, id)
  BY <1>4, <1>6, <1>7, MarketIs
<1>9. size \in Nat /\ book[id].size <= size
  <2>1. size \in Nat /\ book[id].size \in Nat
    BY <1>7, SizesPositive DEF IsBook
  <2> QED
    BY <1>2, <2>1
<1>10. Good(lob', Shrunk(book, id), Arrivals(came, m, Shrunk(book, id)))
  BY <1>1, <1>3, <1>6, <1>9, GoneGood
<1> QED
  BY <1>5, <1>8, <1>10 DEF Stepped

\* An order that is not there is cancelled.
LEMMA LateCancelKeeps ==
  ASSUME NEW came, Good(lob, book, came), lob.error = "none", LateCancel
  PROVE  Good(lob', book', came) /\ UNCHANGED <<book, queue, grown>>
<1>1. PICK loc : Whole(lob, book, came, loc)
  BY DEF Good
<1>2. PICK id \in Ids \ DOMAIN book, size \in Sizes :
        lob' = UpdateBook(lob, Message("Cancel", id, "None", 0, size)) /\ UNCHANGED <<book, queue, grown>>
  BY DEF LateCancel
<1> DEFINE m == Message("Cancel", id, "None", 0, size)
<1>3. m.order_id = id /\ m.size = size /\ m.action = "Cancel"
  BY MessageIs
<1>4. lob' = UpdateBook(lob, m)
  BY <1>2
<1> HIDE DEF m
<1>5. lob' = CancelOrder(lob, id, size)
  BY <1>3, <1>4 DEF UpdateBook
<1>6. lob' = lob
  BY <1>1, <1>5, UnknownIs
<1> QED
  BY <1>1, <1>2, <1>6 DEF Good

\* The book is cleared.
LEMMA ClearKeeps ==
  ASSUME NEW came, Good(lob, book, came), lob.error = "none", Clear
  PROVE  \E sent : Stepped(came, sent)
<1>1. PICK loc : Whole(lob, book, came, loc)
  BY DEF Good
<1> DEFINE m == Message("Clear", 0, "None", 0, 0)
<1>2. m.action = "Clear"
  BY MessageIs
<1>3. Feed(m)
  BY DEF Clear
<1> HIDE DEF m
<1>4. lob' = ClearBook(lob) /\ book' = (IF lob'.error = "none" THEN Market!EmptyBook ELSE book) /\ queue' = Queued(m, book') /\ grown' = Grown(m, book')
  BY <1>2, <1>3 DEF Feed, UpdateBook, Market!UpdateBook
<1>5. Whole(lob', NoOrders, NoQueues, NoOrders) /\ lob'.error = "none"
  BY <1>1, <1>4, ClearGood
<1>6. book' = NoOrders
  BY <1>4, <1>5 DEF Market!EmptyBook, NoOrders
<1>7. Queues(book, came) /\ OnSpots(came)
  BY <1>1 DEF Whole, Shelf
<1>8. Arrivals(came, m, book') = NoQueues
  BY <1>6, <1>7, ArrivalsNone
<1>9. Good(lob', book', Arrivals(came, m, book'))
  BY <1>5, <1>6, <1>8 DEF Good
<1> QED
  BY <1>4, <1>9 DEF Stepped

\* The optimized book is always whole: its nodes hold the market's orders in the order they
\* came, its map knows each of them, and its levels count them; and the orders that have not
\* grown have the market's turn.
BookWhole == \E came : Good(lob, book, came) /\ InTurn(came, queue, grown)

\* The initial state is whole.
LEMMA InitGood == ASSUME Init PROVE BookWhole
<1>1. lob = EmptyLob /\ book = NoOrders /\ queue = NoQueues
  BY DEF Init, Market!EmptyBook, NoOrders, NoQueues
<1>2. Good(lob, book, NoQueues)
  BY <1>1, EmptyGood DEF Good
<1>3. InTurn(NoQueues, queue, grown)
  <2>1. \A at \in Sides \X Prices : queue[at] = <<>> /\ NoQueues[at] = <<>>
    BY <1>1 DEF NoQueues
  <2>2. TurnsAt(<<>>, <<>>, grown)
    <3>1. <<>> \in Seq(Ids) /\ \A x, y : ~Before(<<>>, x, y)
      BY DEF Before
    <3> QED
      BY <3>1 DEF TurnsAt
  <2>3. \A at \in Sides \X Prices : TurnsAt(NoQueues[at], queue[at], grown)
    BY <2>1, <2>2
  <2> QED
    BY <2>3 DEF InTurn
<1> QED
  BY <1>2, <1>3 DEF BookWhole

\* A message that both books have taken keeps it whole.
LEMMA SteppedKeeps ==
  ASSUME NEW came, Good(lob, book, came), InTurn(came, queue, grown), NEW m, Stepped(came, m)
  PROVE  BookWhole'
<1>1. Good(lob', book', Arrivals(came, m, book')) /\ queue' = Queued(m, book') /\ grown' = Grown(m, book')
  BY DEF Stepped
<1>2. Queues(book, came) /\ OnSpots(came)
  BY DEF Good, Whole, Shelf
<1>3. FromFeed(book')
  BY <1>1 DEF Good, Whole
<1>4. InTurn(Arrivals(came, m, book'), Queued(m, book'), Grown(m, book'))
  BY <1>2, <1>3, TurnsStep
<1>5. InTurn(Arrivals(came, m, book'), queue', grown')
  BY <1>1, <1>4
<1> QED
  BY <1>1, <1>5 DEF BookWhole

\* Every step keeps it whole.
LEMMA NextGood == ASSUME BookWhole, [Next]_vars PROVE BookWhole'
<1>1. PICK came : Good(lob, book, came) /\ InTurn(came, queue, grown)
  BY DEF BookWhole
<1>2. CASE UNCHANGED vars
  BY <1>1, <1>2 DEF vars, BookWhole
<1>3. CASE LateCancel /\ lob.error = "none"
  <2>1. Good(lob', book', came) /\ UNCHANGED <<book, queue, grown>>
    BY <1>1, <1>3, LateCancelKeeps
  <2>2. InTurn(came, queue', grown')
    BY <1>1, <2>1
  <2> QED
    BY <2>1, <2>2 DEF BookWhole
<1>4. CASE lob.error = "none" /\ (Add \/ Modify \/ Cancel \/ OverCancel \/ Clear)
  <2>1. \E sent : Stepped(came, sent)
    BY <1>1, <1>4, AddKeeps, ModifyKeeps, CancelKeeps, OverCancelKeeps, ClearKeeps
  <2> QED
    BY <1>1, <2>1, SteppedKeeps
<1> QED
  BY <1>2, <1>3, <1>4 DEF Next

\* After any messages of the feed the optimized book is whole: nodes, levels, links and map
\* hold the market's orders.
THEOREM BookAlwaysWhole == Spec => []BookWhole
<1>1. Init => BookWhole
  BY InitGood
<1>2. BookWhole /\ [Next]_vars => BookWhole'
  BY NextGood
<1> QED
  BY <1>1, <1>2, PTL DEF Spec
---------------------------------------------------------------------------
(* The properties, from the wholeness of the book. *)

\* A level records the orders at its price, and its nodes are those of their queue.
LEMMA LevelIs ==
  ASSUME NEW came, NEW loc, Whole(lob, book, came, loc), NEW side \in Sides, NEW i \in DOMAIN lob.levels[side],
         NEW price, price = lob.levels[side][i].price, NEW at, at = <<side, price>>
  PROVE  /\ price \in PricesOf(side) /\ at \in DOMAIN came /\ at[1] = side /\ at[2] = price
         /\ lob.levels[side][i] = LevelRecord(book, came, loc, at)
         /\ lob.levels[side][i].tail_idx = TailOf(loc, came[at])
         /\ lob.levels[side][i].total_qty = TotalAt(book, at)
         /\ TotalAt(book, at) \in Nat /\ (TotalAt(book, at) = 0 <=> came[at] = <<>>)
         /\ Queue(side, i) = NodesOf(loc, came[at])
<1>1. Shelf(MaxOrders, IdMapCapacity, lob, book, came, loc) /\ OnSpots(came) /\ Ladder(side, lob.levels[side], book, came, loc)
  BY DEF Whole
<1>2. i \in 1..Len(lob.levels[side])
  BY <1>1 DEF Ladder
<1>3. price \in PricesOf(side) /\ lob.levels[side][i] = LevelRecord(book, came, loc, at)
  BY <1>1, <1>2 DEF Ladder
<1>4. /\ at \in DOMAIN came /\ at[1] = side /\ at[2] = price
      /\ LevelRecord(book, came, loc, at).total_qty = TotalAt(book, at)
      /\ LevelRecord(book, came, loc, at).head_idx = HeadOf(loc, came[at])
      /\ LevelRecord(book, came, loc, at).tail_idx = TailOf(loc, came[at])
      /\ TotalAt(book, at) \in Nat /\ (TotalAt(book, at) = 0 <=> came[at] = <<>>)
  BY <1>1, <1>3, RecordIs
<1>5. NodesMet(MaxOrders, lob.nodes, HeadOf(loc, came[at])) = NodesOf(loc, came[at])
  BY <1>1, <1>4, ConstantsAre, ChainIs
<1>6. Queue(side, i) = NodesMet(MaxOrders, lob.nodes, lob.levels[side][i].head_idx)
  BY QueueIs
<1> QED
  BY <1>3, <1>4, <1>5, <1>6

\* The orders in the queues are the feed's, and each is found in its node.
LEMMA OrderFound ==
  ASSUME NEW came, NEW loc, Whole(lob, book, came, loc), NEW at, NEW k, NEW id, NEW n, IsPlace(came, loc, at, k, id, n)
  PROVE  /\ id \in DOMAIN book /\ id \in Ids /\ n \in 0..(MaxOrders - 1)
         /\ NodeOf(lob, id) = n /\ n # None
<1> USE DEF IsPlace
<1>1. Shelf(MaxOrders, IdMapCapacity, lob, book, came, loc) /\ OnSpots(came) /\ FromFeed(book)
  BY DEF Whole
<1>2. id \in DOMAIN book
  <2>1. Queues(book, came)
    BY <1>1 DEF Shelf
  <2> QED
    BY <2>1, QueueHolds
<1>3. id \in Ids
  BY <1>1, <1>2 DEF FromFeed
<1>4. n \in 0..(MaxOrders - 1)
  BY <1>1, <1>2 DEF Shelf, Located
<1>5. NodeOf(lob, id) = n /\ n # None
  <2>1. Hash(IdMapCapacity)!Find(lob.id_map, id) = loc[id] /\ loc[id] # -1
    BY <1>1, <1>2, ConstantsAre, FindsOrders DEF Shelf
  <2> QED
    BY <2>1, FindIsHash DEF NodeOf, None
<1> QED
  BY <1>2, <1>3, <1>4, <1>5

\* The node of the order at a place of a queue.
LEMMA OrderNode ==
  ASSUME NEW came, NEW loc, Whole(lob, book, came, loc), NEW at, NEW k, NEW id, NEW n, IsPlace(came, loc, at, k, id, n)
  PROVE  /\ NodeHolds(lob.nodes[n], id, at, book[id].size, NextOf(loc, came[at], k), PrevOf(loc, came[at], k))
         /\ book[id].side = at[1] /\ book[id].price = at[2] /\ book[id].size \in Nat
<1> USE DEF IsPlace
<1>1. Shelf(MaxOrders, IdMapCapacity, lob, book, came, loc)
  BY DEF Whole
<1>2. id \in DOMAIN book /\ SpotOf(book[id]) = at
  <2>1. Queues(book, came)
    BY <1>1 DEF Shelf
  <2> QED
    BY <2>1, QueueHolds
<1>3. book[id].side = at[1] /\ book[id].price = at[2]
  BY <1>2 DEF SpotOf
<1>4. book[id].size \in Nat
  BY <1>1, <1>2 DEF Shelf, IsBook
<1>5. lob.nodes[n] = LinkedNode(book, loc, came[at], k)
  BY <1>1 DEF Shelf, Holding
<1>6. NodeHolds(LinkedNode(book, loc, came[at], k), id, at, book[id].size, NextOf(loc, came[at], k), PrevOf(loc, came[at], k))
  BY <1>3, Zenon DEF LinkedNode, NodeHolds, NextOf, PrevOf
<1> QED
  BY <1>3, <1>4, <1>5, <1>6

\* The map knows the orders of the market's book, and each stands in its queue.
LEMMA KnownIs ==
  ASSUME NEW came, NEW loc, Whole(lob, book, came, loc)
  PROVE  /\ Known = DOMAIN book
         /\ \A id \in DOMAIN book : \E k : IsPlace(came, loc, <<book[id].side, book[id].price>>, k, id, loc[id])
<1>1. ASSUME NEW x \in DOMAIN book
      PROVE  \E k : IsPlace(came, loc, <<book[x].side, book[x].price>>, k, x, loc[x])
  <2>1. Queues(book, came)
    BY DEF Whole, Shelf
  <2>2. SpotOf(book[x]) \in DOMAIN came /\ \E k \in 1..Len(came[SpotOf(book[x])]) : came[SpotOf(book[x])][k] = x
    BY <2>1 DEF Queues
  <2> QED
    BY <2>2 DEF SpotOf, IsPlace
<1>2. ASSUME NEW x \in DOMAIN book PROVE x \in Ids /\ NodeOf(lob, x) # None
  <2>1. PICK k : IsPlace(came, loc, <<book[x].side, book[x].price>>, k, x, loc[x])
    BY <1>1
  <2> QED
    BY <2>1, OrderFound
<1>3. \A id \in Ids : id \notin DOMAIN book => NodeOf(lob, id) = None
  BY UnknownIs
<1> QED
  BY <1>1, <1>2, <1>3 DEF Known

\* A node of a level is an order's at a place of the level's queue.
LEMMA InQueue ==
  ASSUME NEW came, NEW loc, Whole(lob, book, came, loc), NEW side \in Sides, NEW i \in DOMAIN lob.levels[side],
         NEW at, at = <<side, lob.levels[side][i].price>>
  PROVE  /\ DOMAIN Queue(side, i) = 1..Len(came[at]) /\ Len(came[at]) \in Nat
         /\ Queue(side, i) \in Seq(0..(MaxOrders - 1))
         /\ \A k \in DOMAIN Queue(side, i) :
              Queue(side, i)[k] = loc[came[at][k]] /\ IsPlace(came, loc, at, k, came[at][k], loc[came[at][k]])
<1>1. at \in DOMAIN came /\ Queue(side, i) = NodesOf(loc, came[at])
  BY LevelIs
<1>2. Shelf(MaxOrders, IdMapCapacity, lob, book, came, loc)
  BY DEF Whole
<1>3. /\ NodesOf(loc, came[at]) \in Seq(0..(MaxOrders - 1))
      /\ Len(NodesOf(loc, came[at])) = Len(came[at])
      /\ \A k \in 1..Len(came[at]) : NodesOf(loc, came[at])[k] = loc[came[at][k]]
  <2>1. at \in DOMAIN came /\ MaxOrders \in Nat /\ Shelf(MaxOrders, IdMapCapacity, lob, book, came, loc)
    BY <1>1, <1>2, ConstantsAre
  <2> QED
    BY ONLY <2>1, ChainIs
<1>4. DOMAIN Queue(side, i) = 1..Len(came[at]) /\ Len(came[at]) \in Nat
  BY <1>1, <1>3
<1> QED
  BY <1>1, <1>3, <1>4 DEF IsPlace

\* The nodes in the levels are those of the market's orders.
LEMMA LinkedAre ==
  ASSUME NEW came, NEW loc, Whole(lob, book, came, loc)
  PROVE  Linked = {loc[id] : id \in DOMAIN book}
<1>1. ASSUME NEW n \in Linked PROVE n \in {loc[id] : id \in DOMAIN book}
  <2>1. PICK side \in Sides : \E i \in Places(side) : n \in ToSet(Queue(side, i))
    BY DEF Linked
  <2>2. PICK i \in DOMAIN lob.levels[side] : n \in ToSet(Queue(side, i))
    BY <2>1 DEF Places
  <2>3. PICK k \in DOMAIN Queue(side, i) : n = Queue(side, i)[k]
    BY <2>2 DEF ToSet
  <2> DEFINE at == <<side, lob.levels[side][i].price>>
             x == came[at][k]
  <2>4. n = loc[x] /\ IsPlace(came, loc, at, k, x, loc[x])
    BY <2>3, InQueue
  <2> HIDE DEF at, x
  <2>5. x \in DOMAIN book
    BY <2>4, OrderFound
  <2> QED
    BY <2>4, <2>5
<1>2. ASSUME NEW id \in DOMAIN book PROVE loc[id] \in Linked
  <2> DEFINE at == <<book[id].side, book[id].price>>
  <2>1. PICK k : IsPlace(came, loc, at, k, id, loc[id])
    BY KnownIs
  <2>2. at \in DOMAIN came /\ k \in 1..Len(came[at]) /\ came[at][k] = id
    BY <2>1 DEF IsPlace
  <2> DEFINE side == book[id].side
             price == book[id].price
             lv == lob.levels[side]
  <2>3. side \in Sides /\ price \in PricesOf(side)
    BY DEF Whole, FromFeed
  <2>4. Queues(book, came)
    BY DEF Whole, Shelf
  <2>5. came[at] \in Seq(DOMAIN book)
    <3> HIDE DEF at
    <3> QED
      BY <2>2, <2>4, QueueHolds
  <2>6. came[<<side, price>>] # <<>>
    BY <2>2, <2>5
  <2>7. Ladder(side, lv, book, came, loc)
    BY <2>3 DEF Whole
  <2>8. PICK i \in 1..Len(lv) : lv[i].price = price
    BY <2>3, <2>6, <2>7 DEF Ladder
  <2>9. i \in DOMAIN lob.levels[side]
    BY <2>7 DEF Ladder
  <2>10. k \in DOMAIN Queue(side, i) /\ Queue(side, i)[k] = loc[id]
    <3>1. at = <<side, lob.levels[side][i].price>>
      BY <2>2, <2>8
    <3>2. DOMAIN Queue(side, i) = 1..Len(came[at])
      BY <2>3, <2>9, <3>1, InQueue
    <3>3. \A j \in DOMAIN Queue(side, i) : Queue(side, i)[j] = loc[came[at][j]]
      BY <2>3, <2>9, <3>1, InQueue
    <3> QED
      BY <2>2, <3>2, <3>3
  <2>11. loc[id] \in ToSet(Queue(side, i))
    BY <2>10 DEF ToSet
  <2> QED
    BY <2>3, <2>9, <2>11 DEF Linked, Places
<1> QED
  BY <1>1, <1>2

\* The lists are whole.
LEMMA WholeLists ==
  ASSUME NEW came, NEW loc, Whole(lob, book, came, loc)
  PROVE  ListsIntact
<1>1. Shelf(MaxOrders, IdMapCapacity, lob, book, came, loc) /\ MaxOrders \in Nat
  BY ConstantsAre DEF Whole
<1>2. Located(MaxOrders, lob, book, loc) /\ Queues(book, came)
  BY <1>1 DEF Shelf
<1>3. ASSUME NEW side \in Sides, NEW i \in Places(side)
      PROVE  /\ lob.levels[side][i].tail_idx = IF Queue(side, i) = <<>> THEN None ELSE Last(Queue(side, i))
             /\ \A k \in DOMAIN Queue(side, i) :
                  /\ lob.nodes[Queue(side, i)[k]].prev_idx = IF k = 1 THEN None ELSE Queue(side, i)[k - 1]
                  /\ lob.nodes[Queue(side, i)[k]].side = side
                  /\ lob.nodes[Queue(side, i)[k]].price = lob.levels[side][i].price
             /\ IsInjective(Queue(side, i))
  <2> DEFINE at == <<side, lob.levels[side][i].price>>
  <2>1. i \in DOMAIN lob.levels[side]
    BY DEF Places
  <2>2. /\ at \in DOMAIN came /\ at[1] = side /\ at[2] = lob.levels[side][i].price
        /\ lob.levels[side][i].tail_idx = TailOf(loc, came[at]) /\ Queue(side, i) = NodesOf(loc, came[at])
    BY <2>1, LevelIs
  <2>3. /\ DOMAIN Queue(side, i) = 1..Len(came[at]) /\ Len(came[at]) \in Nat
        /\ \A k \in DOMAIN Queue(side, i) :
             Queue(side, i)[k] = loc[came[at][k]] /\ IsPlace(came, loc, at, k, came[at][k], loc[came[at][k]])
    BY <2>1, InQueue
  <2> HIDE DEF at
  <2>4. TailOf(loc, came[at]) = IF NodesOf(loc, came[at]) = <<>> THEN NoLink ELSE Last(NodesOf(loc, came[at]))
    <3>1. at \in DOMAIN came
      BY <2>2
    <3> QED
      BY ONLY <1>1, <3>1, ChainIs
  <2>5. ASSUME NEW k \in DOMAIN Queue(side, i)
        PROVE  /\ lob.nodes[Queue(side, i)[k]].prev_idx = IF k = 1 THEN None ELSE Queue(side, i)[k - 1]
               /\ lob.nodes[Queue(side, i)[k]].side = side
               /\ lob.nodes[Queue(side, i)[k]].price = lob.levels[side][i].price
    <3> DEFINE n == Queue(side, i)[k]
               x == came[at][k]
    <3>1. n = loc[x] /\ IsPlace(came, loc, at, k, x, n)
      BY <2>3
    <3> HIDE DEF n, x
    <3>2. NodeHolds(lob.nodes[n], x, at, book[x].size, NextOf(loc, came[at], k), PrevOf(loc, came[at], k))
      BY <3>1, OrderNode
    <3>3. lob.nodes[n].prev_idx = PrevOf(loc, came[at], k) /\ lob.nodes[n].side = side /\ lob.nodes[n].price = at[2]
      BY <2>2, <3>2 DEF NodeHolds
    <3>4. k # 1 => k - 1 \in DOMAIN Queue(side, i)
      BY <2>3
    <3>5. PrevOf(loc, came[at], k) = IF k = 1 THEN None ELSE Queue(side, i)[k - 1]
      BY <2>3, <3>4, PoolIs DEF PrevOf
    <3> QED
      BY <2>2, <3>3, <3>5 DEF n
  <2>6. IsInjective(Queue(side, i))
    <3>1. SUFFICES ASSUME NEW j \in DOMAIN Queue(side, i), NEW k \in DOMAIN Queue(side, i),
                          Queue(side, i)[j] = Queue(side, i)[k]
                   PROVE  j = k
      BY DEF IsInjective
    <3>2. j \in 1..Len(came[at]) /\ k \in 1..Len(came[at]) /\ loc[came[at][j]] = loc[came[at][k]]
      BY <2>3, <3>1
    <3> QED
      BY <1>2, <2>2, <3>2, PlacesDiffer
  <2> QED
    BY <2>2, <2>4, <2>5, <2>6, PoolIs
<1>4. Linked \cap ToSet(lob.free) = {}
  <2>1. \A id \in DOMAIN book : \A k \in 1..Len(lob.free) : lob.free[k] # loc[id]
    BY <1>2 DEF Located
  <2>2. DOMAIN lob.free = 1..Len(lob.free)
    BY <1>2 DEF Located
  <2> QED
    BY <2>1, <2>2, LinkedAre DEF ToSet
<1>5. IsInjective(lob.free)
  BY <1>2 DEF Located, IsInjective
<1>6. ASSUME NEW n \in Linked PROVE NodeOf(lob, lob.nodes[n].order_id) = n
  <2>1. PICK id \in DOMAIN book : n = loc[id]
    BY LinkedAre
  <2> DEFINE at == <<book[id].side, book[id].price>>
  <2>2. PICK k : IsPlace(came, loc, at, k, id, loc[id])
    BY KnownIs
  <2> HIDE DEF at
  <2>3. IsPlace(came, loc, at, k, id, n)
    BY <2>1, <2>2
  <2>4. NodeHolds(lob.nodes[n], id, at, book[id].size, NextOf(loc, came[at], k), PrevOf(loc, came[at], k))
    BY <2>3, OrderNode
  <2>5. lob.nodes[n].order_id = id
    BY <2>4 DEF NodeHolds
  <2>6. NodeOf(lob, id) = n
    BY <2>3, OrderFound
  <2> QED
    BY <2>5, <2>6
<1>7. ASSUME NEW id \in Known PROVE NodeOf(lob, id) \in Linked
  <2>1. id \in DOMAIN book
    BY KnownIs
  <2>2. PICK k : IsPlace(came, loc, <<book[id].side, book[id].price>>, k, id, loc[id])
    BY <2>1, KnownIs
  <2>4. NodeOf(lob, id) = loc[id]
    BY <2>2, OrderFound
  <2> QED
    BY <2>1, <2>4, LinkedAre
<1> QED
  BY <1>3, <1>4, <1>5, <1>6, <1>7 DEF ListsIntact

\* A node has the side, price and size of an order.
Shows(node, o) == [side |-> node.side, price |-> node.price, size |-> node.size] = o

\* What the node of an order says of it is what the market's book says.
LEMMA OrderOfIs ==
  ASSUME NEW came, NEW loc, Whole(lob, book, came, loc), NEW at, NEW k, NEW id, NEW n, IsPlace(came, loc, at, k, id, n)
  PROVE  /\ lob.nodes[n].order_id = id /\ OrderOf(id) = lob.nodes[n]
         /\ Shows(OrderOf(id), book[id])
<1>1. /\ NodeHolds(lob.nodes[n], id, at, book[id].size, NextOf(loc, came[at], k), PrevOf(loc, came[at], k))
      /\ book[id].side = at[1] /\ book[id].price = at[2]
  BY OrderNode
<1>2. id \in DOMAIN book /\ NodeOf(lob, id) = n
  BY OrderFound
<1>3. book[id] = [side |-> book[id].side, price |-> book[id].price, size |-> book[id].size]
  BY <1>2 DEF Whole, Shelf, IsBook
<1>4. /\ lob.nodes[n].order_id = id /\ lob.nodes[n].side = at[1] /\ lob.nodes[n].price = at[2]
      /\ lob.nodes[n].size = book[id].size
  BY <1>1 DEF NodeHolds
<1>5. OrderOf(id) = lob.nodes[n]
  BY <1>2 DEF OrderOf
<1> QED
  BY <1>1, <1>3, <1>4, <1>5 DEF Shows

\* Only the feed's prices have queues that are not empty.
LEMMA QueueOfPrice ==
  ASSUME NEW came, NEW loc, Whole(lob, book, came, loc), NEW side \in Sides, NEW price \in Prices,
         NEW at, at = <<side, price>>
  PROVE  /\ at \in DOMAIN came /\ came[at] \in Seq(DOMAIN book)
         /\ price \notin PricesOf(side) => came[at] = <<>>
<1>1. OnSpots(came) /\ FromFeed(book) /\ Queues(book, came)
  BY DEF Whole, Shelf
<1>2. at \in DOMAIN came
  BY <1>1 DEF OnSpots
<1>3. /\ came[at] \in Seq(DOMAIN book)
      /\ \A k \in 1..Len(came[at]) : came[at][k] \in DOMAIN book /\ SpotOf(book[came[at][k]]) = at
  BY <1>1, <1>2, QueueHolds
<1>4. ASSUME came[at] # <<>> PROVE price \in PricesOf(side)
  <2> DEFINE x == came[at][1]
  <2>1. 1 \in 1..Len(came[at])
    BY <1>3, <1>4
  <2>2. x \in DOMAIN book /\ SpotOf(book[x]) = at
    BY <1>3, <2>1
  <2>3. book[x].side = side /\ book[x].price = price
    BY <2>2 DEF SpotOf
  <2> QED
    BY <1>1, <2>2, <2>3 DEF FromFeed
<1> QED
  BY <1>2, <1>3, <1>4

\* The ids in the nodes of a level are those of the queue.
LEMMA IdsAre ==
  ASSUME NEW came, NEW loc, Whole(lob, book, came, loc), NEW side \in Sides, NEW price \in Prices,
         NEW at, at = <<side, price>>
  PROVE  IdsAt(side, price) = came[at]
<1> DEFINE here == {i \in Places(side) : lob.levels[side][i].price = price}
           i == Min(here)
           q == Queue(side, i)
           ids == [k \in DOMAIN q |-> lob.nodes[q[k]].order_id]
<1>1. /\ at \in DOMAIN came /\ came[at] \in Seq(DOMAIN book)
      /\ price \notin PricesOf(side) => came[at] = <<>>
  BY QueueOfPrice
<1>2. Ladder(side, lob.levels[side], book, came, loc)
  BY DEF Whole
<1>3. Places(side) = 1..Len(lob.levels[side]) /\ Len(lob.levels[side]) \in Nat
  BY <1>2 DEF Ladder, Places
<1>4. IdsAt(side, price) = IF here = {} THEN <<>> ELSE ids
  BY DEF IdsAt
<1>5. CASE here = {}
  <2>1. came[at] = <<>>
    <3>1. \A j \in 1..Len(lob.levels[side]) : lob.levels[side][j].price # price
      BY <1>3, <1>5
    <3>2. price \in PricesOf(side) => came[<<side, price>>] = <<>>
      BY <1>2, <3>1 DEF Ladder
    <3> QED
      BY <1>1, <3>2
  <2> QED
    BY <1>4, <1>5, <2>1
<1>6. CASE here # {}
  <2>1. i \in here
    <3>1. here \in SUBSET Int
      BY <1>3
    <3>2. IsFiniteSet(here)
      <4>1. IsFiniteSet(1..Len(lob.levels[side]))
        BY <1>3, FS_Interval
      <4> QED
        BY <1>3, <4>1, FS_Subset
    <3> HIDE DEF here
    <3> QED
      BY <1>6, <3>1, <3>2, LeastElement
  <2>2. i \in DOMAIN lob.levels[side] /\ at = <<side, lob.levels[side][i].price>>
    BY <2>1 DEF Places
  <2> HIDE DEF i
  <2>3. /\ DOMAIN q = 1..Len(came[at])
        /\ \A k \in DOMAIN q : q[k] = loc[came[at][k]] /\ IsPlace(came, loc, at, k, came[at][k], loc[came[at][k]])
    BY <2>2, InQueue
  <2> HIDE DEF q
  <2>4. ASSUME NEW k \in DOMAIN q PROVE lob.nodes[q[k]].order_id = came[at][k]
    <3> DEFINE x == came[at][k]
               n == q[k]
    <3>1. IsPlace(came, loc, at, k, x, n)
      BY <2>3
    <3> HIDE DEF x, n
    <3>2. lob.nodes[n].order_id = x
      BY <3>1, OrderOfIs
    <3> QED
      BY <3>2 DEF x, n
  <2>5. came[at] = [k \in 1..Len(came[at]) |-> came[at][k]]
    BY <1>1
  <2>6. ids = came[at]
    BY <2>3, <2>4, <2>5
  <2> QED
    BY <1>4, <1>6, <2>6
<1> QED
  BY <1>5, <1>6

\* The book is the market's.
LEMMA WholeSame ==
  ASSUME NEW came, NEW loc, Whole(lob, book, came, loc)
  PROVE  BookOf = book
<1>1. Known = DOMAIN book
  BY KnownIs
<1>2. ASSUME NEW x \in DOMAIN book
      PROVE  [side |-> OrderOf(x).side, price |-> OrderOf(x).price, size |-> OrderOf(x).size] = book[x]
  <2> DEFINE at == <<book[x].side, book[x].price>>
  <2>1. PICK k : IsPlace(came, loc, at, k, x, loc[x])
    BY KnownIs
  <2> HIDE DEF at
  <2>2. Shows(OrderOf(x), book[x])
    BY <2>1, OrderOfIs
  <2> QED
    BY <2>2 DEF Shows
<1>3. book = [x \in DOMAIN book |-> book[x]]
  BY DEF Whole, Shelf, IsBook
<1> QED
  BY <1>1, <1>2, <1>3 DEF BookOf

\* Its lists have the market's turns, but for the orders that have grown.
LEMMA WholeTurns ==
  ASSUME NEW came, NEW loc, Whole(lob, book, came, loc), InTurn(came, queue, grown)
  PROVE  TurnsKept
<1> SUFFICES ASSUME NEW side \in Sides, NEW price \in Prices
             PROVE  /\ ToSet(IdsAt(side, price)) = ToSet(queue[<<side, price>>])
                    /\ \A j, k \in DOMAIN IdsAt(side, price) :
                         j < k /\ IdsAt(side, price)[j] \notin grown =>
                           Before(queue[<<side, price>>], IdsAt(side, price)[j], IdsAt(side, price)[k])
  BY DEF TurnsKept
<1> DEFINE ids == IdsAt(side, price)
           turns == queue[<<side, price>>]
<1>1. TurnsAt(ids, turns, grown)
  <2>1. ids = came[<<side, price>>]
    BY IdsAre
  <2>2. <<side, price>> \in Sides \X Prices
    OBVIOUS
  <2> QED
    BY <2>1, <2>2 DEF InTurn
<1> HIDE DEF ids, turns
<1>2. ToSet(ids) = ToSet(turns)
  BY <1>1 DEF TurnsAt
<1>3. ASSUME NEW j \in DOMAIN ids, NEW k \in DOMAIN ids, j < k, ids[j] \notin grown
      PROVE  Before(turns, ids[j], ids[k])
  <2>1. Before(ids, ids[j], ids[k])
    BY <1>3 DEF Before
  <2> QED
    BY <1>1, <1>3, <2>1 DEF TurnsAt
<1> QED
  BY <1>2, <1>3 DEF ids, turns

\* Links are indices of the pool, or none.
LEMMA LobLinks ==
  ASSUME NEW came, NEW loc, Whole(lob, book, came, loc), NEW at \in DOMAIN came
  PROVE  /\ \A k \in 1..Len(came[at]) : /\ NextOf(loc, came[at], k) \in Pool!Indices \cup {None}
                                         /\ PrevOf(loc, came[at], k) \in Pool!Indices \cup {None}
         /\ HeadOf(loc, came[at]) \in Pool!Indices \cup {None}
         /\ TailOf(loc, came[at]) \in Pool!Indices \cup {None}
<1>1. Queues(book, came) /\ Located(MaxOrders, lob, book, loc)
  BY DEF Whole, Shelf
<1>2. came[at] \in Seq(DOMAIN book)
  BY <1>1, QueueHolds
<1>3. \A x \in DOMAIN book : loc[x] \in Pool!Indices
  BY <1>1, PoolIs DEF Located
<1>4. \A k \in 1..Len(came[at]) : loc[came[at][k]] \in Pool!Indices
  BY <1>2, <1>3
<1>5. Len(came[at]) \in Nat /\ (came[at] # <<>> => Len(came[at]) > 0)
  BY <1>2
<1>6. came[at] # <<>> => 1 \in 1..Len(came[at]) /\ Len(came[at]) \in 1..Len(came[at])
  BY <1>5
<1>7. ASSUME NEW k \in 1..Len(came[at])
      PROVE  (k # Len(came[at]) => k + 1 \in 1..Len(came[at])) /\ (k # 1 => k - 1 \in 1..Len(came[at]))
  BY <1>5
<1> QED
  BY <1>4, <1>6, <1>7, PoolIs DEF NextOf, PrevOf, HeadOf, TailOf

\* The nodes have their types.
LEMMA NodesTyped ==
  ASSUME NEW came, NEW loc, Whole(lob, book, came, loc)
  PROVE  lob.nodes \in [Pool!Indices ->
           [order_id : Ids \cup {0}, side : Sides \cup {"None"}, price : Prices \cup {0},
            size : Nat, next_idx : Pool!Indices \cup {None}, prev_idx : Pool!Indices \cup {None}]]
<1> DEFINE N == [order_id : Ids \cup {0}, side : Sides \cup {"None"}, price : Prices \cup {0},
                 size : Nat, next_idx : Pool!Indices \cup {None}, prev_idx : Pool!Indices \cup {None}]
<1>1. Holding(MaxOrders, lob, book, came, loc)
  BY DEF Whole, Shelf
<1>2. lob.nodes = [n \in Pool!Indices |-> lob.nodes[n]]
  BY <1>1, PoolIs DEF Holding
<1>3. ASSUME NEW x \in DOMAIN book PROVE lob.nodes[loc[x]] \in N
  <2> DEFINE at == <<book[x].side, book[x].price>>
  <2>1. PICK k : IsPlace(came, loc, at, k, x, loc[x])
    BY KnownIs
  <2>2. at[1] \in Sides /\ at[2] \in Prices
    <3>1. book[x].side \in Sides /\ book[x].price \in PricesOf(book[x].side)
      BY DEF Whole, FromFeed
    <3>2. book[x].price \in Prices
      BY <3>1, PricesAre
    <3> QED
      BY <3>1, <3>2
  <2> HIDE DEF at
  <2>3. NodeHolds(lob.nodes[loc[x]], x, at, book[x].size, NextOf(loc, came[at], k), PrevOf(loc, came[at], k))
    BY <2>1, OrderNode
  <2>4. book[x].size \in Nat
    BY <2>1, OrderNode
  <2>5. x \in Ids
    BY <2>1, OrderFound
  <2>6. at \in DOMAIN came /\ k \in 1..Len(came[at])
    BY <2>1 DEF IsPlace
  <2>7. /\ NextOf(loc, came[at], k) \in Pool!Indices \cup {None}
        /\ PrevOf(loc, came[at], k) \in Pool!Indices \cup {None}
    BY <2>6, LobLinks
  <2> QED
    BY <2>2, <2>3, <2>4, <2>5, <2>7 DEF NodeHolds
<1>4. BareNode \in N
  BY PoolIs DEF BareNode
<1>5. ASSUME NEW n \in Pool!Indices PROVE lob.nodes[n] \in N
  <2>1. CASE \E x \in DOMAIN book : loc[x] = n
    BY <1>3, <2>1
  <2>2. CASE \A x \in DOMAIN book : loc[x] # n
    <3>1. lob.nodes[n] = BareNode
      BY <1>1, <2>2, PoolIs DEF Holding
    <3> QED
      BY <1>4, <3>1
  <2> QED
    BY <2>1, <2>2
<1> QED
  BY <1>2, <1>5

\* The buckets of the map hold ids and nodes.
LEMMA MapTyped ==
  ASSUME NEW came, NEW loc, Whole(lob, book, came, loc)
  PROVE  lob.id_map \in [IdMap!Buckets -> [key : Ids \cup {0}, value : Pool!Indices \cup {None}]]
<1> DEFINE C == IdMapCapacity
           map == lob.id_map
           E == [key : Ids \cup {0}, value : Pool!Indices \cup {None}]
<1>1. Indexed(C, lob, book, loc) /\ Located(MaxOrders, lob, book, loc) /\ FromFeed(book)
  BY DEF Whole, Shelf
<1>2. map \in [0..(C - 1) -> HashEntry \cup {NoEntry}] /\ Contents(C, map) = {[key |-> id, value |-> loc[id]] : id \in DOMAIN book}
  BY <1>1 DEF Indexed, HashGood, IsMap
<1>3. NoEntry \in E
  BY PoolIs DEF NoEntry, NoLink
<1>4. \A x \in DOMAIN book : [key |-> x, value |-> loc[x]] \in E
  <2>1. \A x \in DOMAIN book : x \in Ids /\ loc[x] \in Pool!Indices
    BY <1>1, PoolIs DEF FromFeed, Located
  <2> QED
    BY <2>1
<1> HIDE DEF map
<1>5. ASSUME NEW k \in 0..(C - 1) PROVE map[k] \in E
  <2>1. CASE map[k] = NoEntry
    BY <1>3, <2>1
  <2>2. CASE map[k] # NoEntry
    <3>1. map[k] \in Contents(C, map)
      BY <2>2 DEF Contents
    <3> QED
      BY <1>2, <1>4, <3>1
  <2> QED
    BY <2>1, <2>2
<1> HIDE DEF E
<1>6. map \in [0..(C - 1) -> E]
  BY <1>2, <1>5
<1> QED
  BY <1>6 DEF map, E, IdMap!Buckets

\* The levels have their types.
LEMMA LevelsTyped ==
  ASSUME NEW came, NEW loc, Whole(lob, book, came, loc), NEW side \in Sides
  PROVE  ToSet(lob.levels[side]) \subseteq
           [price : PricesOf(side), total_qty : Nat,
            head_idx : Pool!Indices \cup {None}, tail_idx : Pool!Indices \cup {None}]
<1> DEFINE L == [price : PricesOf(side), total_qty : Nat,
                 head_idx : Pool!Indices \cup {None}, tail_idx : Pool!Indices \cup {None}]
<1>1. ASSUME NEW i \in DOMAIN lob.levels[side] PROVE lob.levels[side][i] \in L
  <2> DEFINE level == lob.levels[side][i]
             at == <<side, level.price>>
  <2>1. /\ level.price \in PricesOf(side) /\ at \in DOMAIN came /\ at[2] = level.price
        /\ level = LevelRecord(book, came, loc, at) /\ TotalAt(book, at) \in Nat
    BY LevelIs
  <2> HIDE DEF at
  <2>2. /\ HeadOf(loc, came[at]) \in Pool!Indices \cup {None}
        /\ TailOf(loc, came[at]) \in Pool!Indices \cup {None}
    BY <2>1, LobLinks
  <2> HIDE DEF level
  <2>3. LevelRecord(book, came, loc, at) \in L
    BY <2>1, <2>2 DEF LevelRecord
  <2> QED
    BY <2>1, <2>3 DEF level
<1> HIDE DEF L
<1>2. ToSet(lob.levels[side]) \subseteq L
  BY <1>1 DEF ToSet
<1> QED
  BY <1>2 DEF L

\* A whole book has its type.
LEMMA WholeTyped ==
  ASSUME NEW came, NEW loc, Whole(lob, book, came, loc)
  PROVE  TypeOK
<1>1. ToSet(lob.free) \subseteq Pool!Indices
  <2>1. lob.free \in Seq(Pool!Indices)
    BY PoolIs DEF Whole, Shelf, Located
  <2>2. \A k \in DOMAIN lob.free : lob.free[k] \in Pool!Indices
    BY <2>1
  <2> QED
    BY <2>2 DEF ToSet
<1>2. lob.error \in {"none", "ObjectPool exhausted"}
  BY DEF Whole
<1>3. \A side \in Sides : ToSet(lob.levels[side]) \subseteq
           [price : PricesOf(side), total_qty : Nat,
            head_idx : Pool!Indices \cup {None}, tail_idx : Pool!Indices \cup {None}]
  BY LevelsTyped
<1> QED
  BY <1>1, <1>2, <1>3, NodesTyped, MapTyped, Zenon DEF TypeOK

\* The market's volume at a price, as a sum.
LEMMA MarketQtyIs ==
  ASSUME NEW bk, IsBook(bk), NEW side, NEW price, NEW at, at = <<side, price>>
  PROVE  Market!LevelQty(bk, side, price) = TotalAt(bk, at)
<1> DEFINE S == {id \in Market!Resting(bk, side) : bk[id].price = price}
           w == SizesIn(bk)
           f == CHOOSE g : g = [T \in SUBSET S |-> IF T = {} THEN 0
                  ELSE bk[CHOOSE x \in T : TRUE].size + g[T \ {CHOOSE x \in T : TRUE}]]
<1>1. S = HoldersAt(bk, at)
  BY DEF Market!Resting, HoldersAt, SpotOf
<1>2. IsFiniteSet(S) /\ Weighs(w, S)
  BY <1>1, SizesAre
<1>3. Market!LevelQty(bk, side, price) = f[S]
  BY DEF Market!LevelQty, Market!MapThenSumSet, Market!MapThenFoldSet, MapThenSumSet, MapThenFoldSet
<1>4. \A T \in SUBSET S : T # {} => w[CHOOSE x \in T : TRUE] = bk[CHOOSE x \in T : TRUE].size
  BY DEF SizesIn, Market!Resting
<1> HIDE DEF w, S
<1>5. PICK g : Unfolds(g, w, S)
  BY <1>2, SumUnfolds
<1>6. g = [T \in SUBSET S |-> IF T = {} THEN 0
             ELSE bk[CHOOSE x \in T : TRUE].size + g[T \ {CHOOSE x \in T : TRUE}]]
  BY <1>4, <1>5 DEF Unfolds
<1>7. f = [T \in SUBSET S |-> IF T = {} THEN 0
             ELSE bk[CHOOSE x \in T : TRUE].size + f[T \ {CHOOSE x \in T : TRUE}]]
  BY <1>6 DEF f
<1> HIDE DEF f
<1>8. Unfolds(f, w, S)
  BY <1>4, <1>7 DEF Unfolds
<1>9. f[S] = SumOver(w, S)
  BY <1>2, <1>8, SumUnfolds
<1> QED
  BY <1>1, <1>3, <1>9 DEF w, TotalAt

\* The level of a price has its volume.
LEMMA QtyAgrees ==
  ASSUME NEW came, NEW loc, Whole(lob, book, came, loc), NEW side \in Sides, NEW price \in Prices
  PROVE  LevelQty(lob, side, price) = Market!LevelQty(book, side, price)
<1> DEFINE at == <<side, price>>
           lv == lob.levels[side]
           i == PlaceOf(lv, side, price)
<1>1. Ladder(side, lv, book, came, loc) /\ IsBook(book) /\ Queues(book, came)
  BY DEF Whole, Shelf
<1>2. at \in DOMAIN came /\ (price \notin PricesOf(side) => came[at] = <<>>)
  BY QueueOfPrice
<1>3. TotalAt(book, at) = 0 <=> came[at] = <<>>
  <2> HIDE DEF at
  <2> QED
    BY <1>1, <1>2, TotalIs
<1>4. Market!LevelQty(book, side, price) = TotalAt(book, at)
  BY <1>1, MarketQtyIs
<1>5. lv \in Seq(LevelType) /\ Sorted(side, lv) /\ price \in Nat
  BY <1>1, FeedAssumption DEF Ladder, Prices
<1>6. DOMAIN lv = 1..Len(lv) /\ \A j \in 1..Len(lv) : lv[j].price = price => i = j
  <2>1. DOMAIN lv = 1..Len(lv)
    BY <1>5
  <2> HIDE DEF lv
  <2>2. \A j \in 1..Len(lv) : lv[j].price = price => PlaceOf(lv, side, price) = j
    BY <1>5, PlaceIs
  <2> QED
    BY <2>1, <2>2
<1> HIDE DEF i
<1>7. CASE i \in DOMAIN lv /\ lv[i].price = price
  <2>1. lv[i].total_qty = TotalAt(book, at)
    BY <1>7, LevelIs
  <2> QED
    BY <1>4, <1>7, <2>1 DEF LevelQty, i
<1>8. CASE ~(i \in DOMAIN lv /\ lv[i].price = price)
  <2>1. \A j \in 1..Len(lv) : lv[j].price # price
    BY <1>6, <1>8
  <2>2. came[at] = <<>>
    BY <1>1, <1>2, <2>1 DEF Ladder
  <2>3. LevelQty(lob, side, price) = 0
    BY <1>8 DEF LevelQty, i
  <2> QED
    BY <1>3, <1>4, <2>2, <2>3
<1> QED
  BY <1>7, <1>8

\* The greatest and the least of a set.
LEMMA ExtremesAre ==
  ASSUME NEW S \in SUBSET Int, NEW p \in S
  PROVE  /\ (\A y \in S : p >= y) => Market!Max(S) = p
         /\ (\A y \in S : p <= y) => Market!Min(S) = p
<1>1. ASSUME \A y \in S : p >= y PROVE Market!Max(S) = p
  <2>1. Market!Max(S) = CHOOSE x \in S : \A y \in S : x >= y
    BY DEF Market!Max
  <2>2. \A x \in S : (\A y \in S : x >= y) => x = p
    BY <1>1
  <2> QED
    BY <1>1, <2>1, <2>2
<1>2. ASSUME \A y \in S : p <= y PROVE Market!Min(S) = p
  <2>1. Market!Min(S) = CHOOSE x \in S : \A y \in S : x <= y
    BY DEF Market!Min
  <2>2. \A x \in S : (\A y \in S : x <= y) => x = p
    BY <1>2
  <2> QED
    BY <1>2, <2>1, <2>2
<1> QED
  BY <1>1, <1>2

\* The last level that has quantity is the market's best.
LEMMA BestAgrees ==
  ASSUME NEW came, NEW loc, Whole(lob, book, came, loc), NEW side \in Sides
  PROVE  Best(lob, side) = Market!Best(book, side)
<1> DEFINE lv == lob.levels[side]
           alive == {i \in DOMAIN lv : lv[i].total_qty > 0}
           prices == {book[id].price : id \in Market!Resting(book, side)}
<1>1. Ladder(side, lv, book, came, loc) /\ Queues(book, came)
  BY DEF Whole, Shelf
<1>2. lv \in Seq(LevelType) /\ Sorted(side, lv) /\ DOMAIN lv = 1..Len(lv) /\ Len(lv) \in Nat
  BY <1>1 DEF Ladder
<1>3. ASSUME NEW i \in alive PROVE lv[i].price \in prices
  <2> DEFINE at == <<side, lv[i].price>>
             x == came[at][1]
  <2>1. at \in DOMAIN came /\ lv[i].total_qty = TotalAt(book, at) /\ (TotalAt(book, at) = 0 <=> came[at] = <<>>)
    BY LevelIs
  <2>2. came[at] # <<>>
    BY <2>1
  <2> HIDE DEF at
  <2>3. /\ came[at] \in Seq(DOMAIN book)
        /\ \A k \in 1..Len(came[at]) : came[at][k] \in DOMAIN book /\ SpotOf(book[came[at][k]]) = at
    BY <1>1, <2>1, QueueHolds
  <2>4. 1 \in 1..Len(came[at])
    BY <2>2, <2>3
  <2>5. x \in DOMAIN book /\ SpotOf(book[x]) = at
    BY <2>3, <2>4
  <2>6. book[x].side = side /\ book[x].price = lv[i].price
    BY <2>5 DEF SpotOf, at
  <2> QED
    BY <2>5, <2>6 DEF Market!Resting
<1>4. ASSUME NEW p \in prices PROVE \E i \in alive : lv[i].price = p
  <2>1. PICK x \in DOMAIN book : book[x].side = side /\ book[x].price = p
    BY DEF Market!Resting
  <2> DEFINE at == <<side, p>>
  <2>2. p \in PricesOf(side)
    BY <2>1 DEF Whole, FromFeed
  <2>3. PICK k : IsPlace(came, loc, at, k, x, loc[x])
    BY <2>1, KnownIs
  <2>4. at \in DOMAIN came /\ k \in 1..Len(came[at])
    BY <2>3 DEF IsPlace
  <2>5. came[at] # <<>>
    <3>1. came[at] \in Seq(DOMAIN book)
      <4> HIDE DEF at
      <4> QED
        BY <1>1, <2>4, QueueHolds
    <3> QED
      BY <2>4, <3>1
  <2>6. PICK i \in 1..Len(lv) : lv[i].price = p
    BY <1>1, <2>2, <2>5 DEF Ladder
  <2>7. /\ lv[i].total_qty = TotalAt(book, at) /\ TotalAt(book, at) \in Nat
        /\ (TotalAt(book, at) = 0 <=> came[at] = <<>>)
    BY <1>2, <2>6, LevelIs
  <2>8. lv[i].total_qty > 0
    BY <2>5, <2>7
  <2> QED
    BY <1>2, <2>6, <2>8
<1>5. Best(lob, side) = IF alive = {} THEN 0 ELSE lv[Max(alive)].price
  BY DEF Best
<1>6. Market!Best(book, side) = IF prices = {} THEN 0 ELSE IF side = "Bid" THEN Market!Max(prices) ELSE Market!Min(prices)
  BY DEF Market!Best
<1> HIDE DEF prices
<1>7. CASE alive = {}
  BY <1>4, <1>5, <1>6, <1>7
<1>8. CASE alive # {}
  <2> DEFINE m == Max(alive)
             p == lv[m].price
  <2>1. m \in alive /\ \A i \in alive : m >= i
    <3>1. alive \in SUBSET Int
      BY <1>2
    <3>2. IsFiniteSet(alive)
      <4>1. IsFiniteSet(1..Len(lv))
        BY <1>2, FS_Interval
      <4> QED
        BY <1>2, <4>1, FS_Subset
    <3> HIDE DEF alive
    <3> QED
      BY <1>8, <3>1, <3>2, GreatestElement
  <2> HIDE DEF m
  <2>2. p \in prices
    BY <1>3, <2>1
  <2>3. prices \in SUBSET Int
    <3>1. \A i \in 1..Len(lv) : lv[i] \in LevelType
      BY <1>2
    <3>2. \A i \in 1..Len(lv) : lv[i].price \in Nat
      BY <3>1 DEF LevelType
    <3> QED
      BY <1>2, <1>4, <3>2
  <2>4. ASSUME NEW y \in prices PROVE y = p \/ Worse(side, y, p)
    <3>1. PICK i \in alive : lv[i].price = y
      BY <1>4
    <3>2. i = m \/ i < m
      BY <1>2, <2>1
    <3>3. i \in 1..Len(lv) /\ m \in 1..Len(lv)
      BY <1>2, <2>1
    <3> QED
      BY <1>2, <3>1, <3>2, <3>3 DEF Sorted
  <2> HIDE DEF p
  <2>5. CASE side = "Bid"
    <3>1. \A y \in prices : p >= y
      BY <2>2, <2>3, <2>4, <2>5 DEF Worse
    <3>2. Market!Max(prices) = p
      BY <2>2, <2>3, <3>1, ExtremesAre
    <3> QED
      BY <1>5, <1>6, <1>8, <2>2, <2>5, <3>2 DEF p, m
  <2>6. CASE side # "Bid"
    <3>1. \A y \in prices : p <= y
      BY <2>2, <2>3, <2>4, <2>6 DEF Worse
    <3>2. Market!Min(prices) = p
      BY <2>2, <2>3, <3>1, ExtremesAre
    <3> QED
      BY <1>5, <1>6, <1>8, <2>2, <2>6, <3>2 DEF p, m
  <2> QED
    BY <2>5, <2>6
<1> QED
  BY <1>7, <1>8

\* The queries agree.
LEMMA WholeAgrees ==
  ASSUME NEW came, NEW loc, Whole(lob, book, came, loc)
  PROVE  QueriesAgree
<1>1. ASSUME NEW side \in Sides, lob.error = "none", lob.levels[side] # <<>>
      PROVE  Last(lob.levels[side]).total_qty > 0
  <2>1. Tidy(lob.levels[side])
    BY <1>1 DEF Whole
  <2> QED
    BY <1>1, <2>1 DEF Tidy, Last
<1> QED
  BY <1>1, QtyAgrees, BestAgrees DEF QueriesAgree

\* The four properties of the book.
LEMMA WholeShows == ASSUME BookWhole PROVE TypeOK /\ QueriesAgree /\ ListsIntact /\ FollowsMarket
<1>1. PICK came : Good(lob, book, came) /\ InTurn(came, queue, grown)
  BY DEF BookWhole
<1>2. PICK loc : Whole(lob, book, came, loc)
  BY <1>1 DEF Good
<1> QED
  BY <1>1, <1>2, WholeTyped, WholeAgrees, WholeLists, WholeSame, WholeTurns DEF FollowsMarket

\* Nodes, links, buckets and levels of the book have their types; no size or total is
\* ever below zero.
THEOREM LobTyped == Spec => []TypeOK
  BY BookAlwaysWhole, WholeShows, PTL

\* get_bbo and get_level_qty always answer what a look at every order that rests would.
THEOREM LobAnswers == Spec => []QueriesAgree
  BY BookAlwaysWhole, WholeShows, PTL

\* The intrusive lists are always whole, and the id map finds the orders in them and no
\* others, whatever the feed has sent.
THEOREM LobIntact == Spec => []ListsIntact
  BY BookAlwaysWhole, WholeShows, PTL

\* The orders the book holds are always the market's, with their sides, prices and sizes,
\* and at every price they stand in its turns, but for those that have grown there, however
\* the others came, shrank, moved or left.
THEOREM LobFollows == Spec => []FollowsMarket
  BY BookAlwaysWhole, WholeShows, PTL
====
