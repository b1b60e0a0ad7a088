---- MODULE DirectArrayBooksProofs ----
(* The direct-array book under any messages of a legal feed.  The array is good when
   its nodes, free nodes and id map are a shelf of those of the market's orders that
   are within reach of the anchor (ContainerFacts), every bucket records the orders
   at the one price of the grid that is its own, or nothing, and a cached best price
   has orders and, unless the prices of its side have wide gaps, no better one.
   Every operation of the array keeps it good, for the market's book after the same
   message, and a good array has the four properties of DirectArrayBooks. *)
EXTENDS DirectArrayBooks, ContainerFacts

---------------------------------------------------------------------------
(* The operators of the models, in the words of the shelf. *)

\* The constants that the pool and the hash map need.
LEMMA ConstantsAre ==
  MaxOrders \in Nat /\ IdMapCapacity \in Nat \ {0} /\ MaxOrders < IdMapCapacity
  BY LobAssumption

\* The pool of nodes, and what the model writes where there is none.
LEMMA PoolIs ==
  /\ Pool!Indices = 0..(MaxOrders - 1) /\ None = NoLink /\ NoNode = BareNode
  /\ \A free : /\ Pool!Exhausted(free) <=> free = <<>>
               /\ Pool!Allocated(free) = Last(free) /\ Pool!AfterAllocate(free) = Front(free)
               /\ \A n : Pool!AfterDeallocate(free, n) = Append(free, n)
  BY DEF Pool!Indices, Pool!Last, Pool!Front, Last, Front, None, NoLink, NoNode, BareNode, Pool!Exhausted, Pool!Allocated,
         Pool!AfterAllocate, Pool!AfterDeallocate

\* find, insert and erase of the id map, and the empty map, are those of the hash map.
LEMMA FindIsHash ==
  \A map, key : IdMap!Find(map, key) = Hash(IdMapCapacity)!Find(map, key)
  BY DEF IdMap!Find, Hash!Find, IdMap!Ends, Hash!Ends, IdMap!Min, Hash!Min, IdMap!NotFound, Hash!NotFound, IdMap!ProbeAt, Hash!ProbeAt,
         IdMap!Occupied, Hash!Occupied, IdMap!Unoccupied, Hash!Unoccupied, IdMap!Buckets, Hash!Buckets

\* Insert of the id map.
LEMMA InsertIsHash ==
  \A map, key, value : IdMap!Insert(map, key, value) = Hash(IdMapCapacity)!Insert(map, key, value)
  BY DEF IdMap!Insert, Hash!Insert, IdMap!Ends, Hash!Ends, IdMap!Min, Hash!Min, IdMap!NotFound, Hash!NotFound, IdMap!ProbeAt, Hash!ProbeAt,
         IdMap!Occupied, Hash!Occupied, IdMap!Unoccupied, Hash!Unoccupied, IdMap!Buckets, Hash!Buckets

\* Erase of the id map.
LEMMA EraseIsHash ==
  \A map, key : IdMap!Erase(map, key) = Hash(IdMapCapacity)!Erase(map, key)
<1>1. \A map, start : IdMap!RehashCluster(map, start) = Hash(IdMapCapacity)!RehashCluster(map, start)
  BY InsertIsHash, Zenon DEF IdMap!RehashCluster, Hash!RehashCluster,
       IdMap!Occupied, Hash!Occupied, IdMap!Unoccupied, Hash!Unoccupied, IdMap!Insert, Hash!Insert, IdMap!Ends, Hash!Ends, IdMap!Min, Hash!Min, IdMap!ProbeAt, Hash!ProbeAt, IdMap!Buckets, Hash!Buckets
<1>2. \A map, key : IdMap!BucketOf(map, key) = Hash(IdMapCapacity)!BucketOf(map, key)
  BY DEF IdMap!BucketOf, Hash!BucketOf, IdMap!Ends, Hash!Ends, IdMap!Min, Hash!Min, IdMap!ProbeAt, Hash!ProbeAt,
         IdMap!Occupied, Hash!Occupied, IdMap!Unoccupied, Hash!Unoccupied, IdMap!Buckets, Hash!Buckets
<1> QED
  BY <1>1, <1>2, FindIsHash DEF IdMap!Erase, Hash!Erase, IdMap!NotFound, Hash!NotFound, IdMap!Unoccupied, Hash!Unoccupied

\* The empty id map.
LEMMA EmptyMapIsHash == IdMap!EmptyMap = Hash(IdMapCapacity)!EmptyMap
  BY DEF IdMap!EmptyMap, Hash!EmptyMap, IdMap!Unoccupied, Hash!Unoccupied, IdMap!Buckets, Hash!Buckets

\* The ids that stay in a queue are the kept ones.
LEMMA ThoseIs == \A q, ids : Those(q, ids) = KeptIn(q, ids)
  BY DEF Those, KeptIn, FoldLeft, MapThenFoldSet

\* The nodes of a bucket are those met from its head on.
LEMMA ChainMet ==
  ASSUME NEW side, NEW i
  PROVE  Chain(side, i) = NodesMet(MaxOrders, lob.nodes, lob.levels[side][i].head_idx)
  BY Zenon DEF Chain, NodesMet, None, NoLink

---------------------------------------------------------------------------
(* The grid.  What is said of the anchor in the model is said here of any price a. *)
ReachedFrom(a, price) ==
  LET low == a - (LobCapacity \div 2) * TickSize
  IN  a # Undef /\ price \in low..(low + LobCapacity * TickSize - 1)
\* The orders within reach of an array whose middle is a, and their queues.
InReach(bk, a) == [id \in {x \in DOMAIN bk : ReachedFrom(a, bk[x].price)} |-> bk[id]]
QueuesInReach(q, a) == [at \in DOMAIN q |-> IF ReachedFrom(a, at[2]) THEN q[at] ELSE <<>>]

\* What the model says of the anchor.
LEMMA ReachedIs == \A price : Reached(price) <=> ReachedFrom(anchor, price)
  BY DEF Reached, ReachedFrom

\* The constants of the array.
LEMMA GridConstants == LobCapacity \in Nat \ {0} /\ TickSize \in Nat \ {0} /\ ScanTicks \in Nat
  BY LobAssumption

\* A price of the feed is a price of the market, and has a queue on its side.
LEMMA PricesAre ==
  ASSUME NEW side \in Sides, NEW price \in PricesOf(side)
  PROVE  price \in Nat \ {0} /\ price \in Prices /\ <<side, price>> \in Sides \X Prices
  BY FeedAssumption DEF PricesOf, Prices, Sides

\* How many ticks a price is from zero.
LEMMA TicksAre ==
  ASSUME NEW p \in Prices
  PROVE  p \in Nat \ {0} /\ \E k \in Nat : p = TickSize * k
<1>1. p \in Nat \ {0} /\ p % TickSize = 0
  BY FeedAssumption DEF Prices
<1>2. p = TickSize * (p \div TickSize) + (p % TickSize) /\ p \div TickSize \in Nat
  BY <1>1, GridConstants
<1> QED
  BY <1>1, <1>2, GridConstants

\* A whole number of ticks, divided by the tick.
LEMMA QuotientOfTicks ==
  ASSUME NEW d \in Int
  PROVE  Quotient(TickSize * d, TickSize) = d
<1> DEFINE T == TickSize
           a == T * d
<1>1. T \in Nat \ {0} /\ a \in Int
  BY GridConstants
<1>2. ASSUME NEW e \in Nat PROVE (T * e) \div T = e
  <2>1. T * e \in Nat
    BY <1>1
  <2> DEFINE y == T * e
             f == y \div T
  <2>2. f \in Int /\ y = T * f + (y % T) /\ y % T \in 0..(T - 1)
    BY <1>1, <2>1
  <2>3. T * (e - f) = T * e - T * f
    <3> HIDE DEF f
    <3> QED
      BY <1>1, <2>2
  <2> DEFINE g == e - f
  <2>4. g \in Int /\ T * g \in 0..(T - 1)
    BY <1>1, <2>2, <2>3
  <2> HIDE DEF g
  <2>5. g < 1
    <3>1. SUFFICES ASSUME g >= 1 PROVE FALSE
      BY <2>4
    <3>2. T * g >= T
      BY <1>1, <2>4, <3>1
    <3> QED
      BY <1>1, <2>4, <3>2
  <2>6. g > -1
    <3>1. SUFFICES ASSUME g <= -1 PROVE FALSE
      BY <2>4
    <3>2. T * g <= -T
      BY <1>1, <2>4, <3>1
    <3> QED
      BY <1>1, <2>4, <3>2
  <2>7. e = f
    BY <2>2, <2>4, <2>5, <2>6 DEF g
  <2> QED
    BY <2>7
<1>3. CASE d >= 0
  <2>1. a >= 0
    BY <1>1, <1>3
  <2>2. a \div T = d
    BY <1>2, <1>3
  <2> QED
    BY <2>1, <2>2 DEF Quotient
<1>4. CASE d < 0
  <2> DEFINE e == -d
  <2>1. e \in Nat \ {0} /\ -a = T * e /\ d = -e
    BY <1>1, <1>4
  <2>2. T * e > 0
    BY <1>1, <2>1
  <2>3. ~(a >= 0)
    BY <1>1, <2>1, <2>2
  <2>4. (-a) \div T = e
    BY <1>2, <2>1
  <2> QED
    BY <2>1, <2>3, <2>4 DEF Quotient
<1> QED
  BY <1>3, <1>4

\* The arrays reach the prices that have an index, and each has its own.
LEMMA GridIs ==
  ASSUME NEW a \in Prices, NEW p \in Prices
  PROVE  /\ a # Undef /\ (IndexOf(a, p) # NoIndex <=> ReachedFrom(a, p))
         /\ ReachedFrom(a, p) => IndexOf(a, p) \in Places
         /\ \A r \in Prices : ReachedFrom(a, p) /\ ReachedFrom(a, r) /\ IndexOf(a, p) = IndexOf(a, r) => p = r
<1> DEFINE T == TickSize
           L == LobCapacity
           h == L \div 2
           in(x) == h + (x)
<1>1. T \in Nat \ {0} /\ L \in Nat \ {0} /\ h \in Nat
  BY GridConstants
<1>2. PICK ka \in Nat : a = T * ka
  BY TicksAre
<1>3. a \in Nat \ {0} /\ a # Undef
  BY TicksAre DEF Undef
<1>4. ASSUME NEW r \in Prices, NEW kr \in Nat, r = T * kr
      PROVE  /\ IndexOf(a, r) = IF h + (kr - ka) \in 0..(L - 1) THEN h + (kr - ka) ELSE NoIndex
             /\ ReachedFrom(a, r) <=> h + (kr - ka) \in 0..(L - 1)
  <2> DEFINE d == kr - ka
  <2>1. r - a = T * d /\ d \in Int /\ r \in Nat
    BY <1>1, <1>2, <1>4, TicksAre
  <2>2. Quotient(r - a, T) = d
    BY <2>1, QuotientOfTicks
  <2>3. IndexOf(a, r) = IF h + d \in 0..(L - 1) THEN h + d ELSE NoIndex
    BY <1>3, <2>2 DEF IndexOf, Places
  <2>4. ReachedFrom(a, r) <=> r - a >= -(h * T) /\ r - a < -(h * T) + L * T
    <3>1. h * T \in Int /\ L * T \in Int
      BY <1>1
    <3> QED
      BY <1>3, <2>1, <3>1 DEF ReachedFrom
  <2> DEFINE e == h + d
  <2>5. e \in Int /\ T * e = T * h + T * d
    BY <1>1, <2>1
  <2>6. ReachedFrom(a, r) <=> T * e >= 0 /\ T * e < T * L
    <3>1. h * T = T * h /\ L * T = T * L /\ T * h \in Int /\ T * L \in Int /\ T * d \in Int
      BY <1>1, <2>1
    <3> HIDE DEF d, e
    <3> QED
      BY <2>1, <2>4, <2>5, <3>1
  <2> HIDE DEF e
  <2>7. T * e >= 0 <=> e >= 0
    <3>1. ASSUME e >= 0 PROVE T * e >= 0
      BY <1>1, <2>5, <3>1
    <3>2. ASSUME e < 0 PROVE T * e < 0
      BY <1>1, <2>5, <3>2
    <3> QED
      BY <1>1, <2>5, <3>1, <3>2
  <2>8. T * e < T * L <=> e < L
    <3> DEFINE f == L - e
    <3>1. f \in Int /\ T * f = T * L - T * e
      BY <1>1, <2>5
    <3> HIDE DEF f
    <3>2. ASSUME f > 0 PROVE T * f > 0
      BY <1>1, <3>1, <3>2
    <3>3. ASSUME f <= 0 PROVE T * f <= 0
      BY <1>1, <3>1, <3>3
    <3>4. f > 0 <=> T * f > 0
      BY <1>1, <3>1, <3>2, <3>3
    <3>5. T * L \in Int /\ T * e \in Int
      BY <1>1, <2>5
    <3>6. f > 0 <=> e < L
      BY <1>1, <2>5 DEF f
    <3> QED
      BY <3>1, <3>4, <3>5, <3>6
  <2> QED
    BY <1>1, <2>3, <2>5, <2>6, <2>7, <2>8 DEF e
<1>5. PICK kp \in Nat : p = T * kp
  BY TicksAre
<1>6. /\ IndexOf(a, p) = IF h + (kp - ka) \in 0..(L - 1) THEN h + (kp - ka) ELSE NoIndex
      /\ ReachedFrom(a, p) <=> h + (kp - ka) \in 0..(L - 1)
  BY <1>4, <1>5
<1>7. ASSUME NEW r \in Prices, ReachedFrom(a, p), ReachedFrom(a, r), IndexOf(a, p) = IndexOf(a, r)
      PROVE  p = r
  <2>1. PICK kr \in Nat : r = T * kr
    BY TicksAre
  <2>2. /\ IndexOf(a, r) = IF h + (kr - ka) \in 0..(L - 1) THEN h + (kr - ka) ELSE NoIndex
        /\ ReachedFrom(a, r) <=> h + (kr - ka) \in 0..(L - 1)
    BY <1>4, <2>1
  <2>3. kr = kp
    BY <1>1, <1>6, <1>7, <2>2
  <2> QED
    BY <1>5, <2>1, <2>3
<1>8. IndexOf(a, p) # NoIndex <=> ReachedFrom(a, p)
  BY <1>1, <1>6 DEF NoIndex
<1>9. ReachedFrom(a, p) => IndexOf(a, p) \in Places
  BY <1>6 DEF Places
<1> QED
  BY <1>3, <1>7, <1>8, <1>9

\* Nothing is within reach of an array without a middle.
LEMMA NoneReached == \A price : ~ReachedFrom(Undef, price)
  BY DEF ReachedFrom

---------------------------------------------------------------------------
(* The invariant. *)
OnSpots(q) == DOMAIN q = Sides \X Prices
FromFeed(bk) == \A id \in DOMAIN bk : id \in Ids /\ bk[id].side \in Sides /\ bk[id].price \in PricesOf(bk[id].side)
\* What is in the bucket of a side and price: nothing, or the record of the orders there.
Slot(bk, q, loc, at) == IF q[at] = <<>> THEN NoLevel ELSE LevelRecord(bk, q, loc, at)
\* Bucket i is that of a price.
BucketAt(a, side, i, price) == price \in PricesOf(side) /\ ReachedFrom(a, price) /\ IndexOf(a, price) = i
\* The buckets of a side have what stands at their prices, the others nothing.
Buckets(a, side, lv, bk, q, loc) ==
  /\ lv = [i \in Places |-> lv[i]]
  /\ \A i \in Places, price \in PricesOf(side) : BucketAt(a, side, i, price) => lv[i] = Slot(bk, q, loc, <<side, price>>)
  /\ \A i \in Places : (\A price \in PricesOf(side) : ~BucketAt(a, side, i, price)) => lv[i] = NoLevel
\* A cached best price has orders, and on a side without wide gaps no other price is better.
BestIs(side, best, q) ==
  /\ best # Undef => best \in PricesOf(side) /\ q[<<side, best>>] # <<>>
  /\ Dense(side) => \A price \in PricesOf(side) : q[<<side, price>>] # <<>> =>
                      best # Undef /\ ~Better(side, price, best)
IsArray(b) ==
  /\ b = [nodes |-> b.nodes, free |-> b.free, id_map |-> b.id_map, levels |-> b.levels,
          best |-> b.best, base |-> b.base, error |-> b.error]
  /\ b.levels = [side \in Sides |-> b.levels[side]]
  /\ b.best = [side \in Sides |-> b.best[side]]
\* The queues hold orders within reach only.
Within(a, q) == \A at \in DOMAIN q : q[at] # <<>> => ReachedFrom(a, at[2])
\* The array has the orders bk, all of them within its reach.
Arrayed(b, a, bk, q, loc) ==
  /\ IsArray(b) /\ b.base = a /\ a \in Prices \cup {Undef} /\ b.error \in {"none", Thrown}
  /\ OnSpots(q) /\ FromFeed(bk) /\ Within(a, q)
  /\ Shelf(MaxOrders, IdMapCapacity, b, bk, q, loc)
  /\ \A side \in Sides : Buckets(a, side, b.levels[side], bk, q, loc) /\ BestIs(side, b.best[side], q)
\* The market has the orders bk.
Trading(bk, q) == OnSpots(q) /\ FromFeed(bk) /\ IsBook(bk) /\ Queues(bk, q)
\* The array has those of the market's orders that it reaches.
Good(b, bk, q, a) ==
  /\ Trading(bk, q) /\ (a = Undef => DOMAIN bk = {})
  /\ \E loc : Arrayed(b, a, InReach(bk, a), QueuesInReach(q, a), loc)

\* The parts of a book after a change of one side.
Becomes(b, b2, nodes, free, map, side, lv, best) ==
  b2 = [nodes |-> nodes, free |-> free, id_map |-> map, levels |-> [b.levels EXCEPT ![side] = lv],
        best |-> [b.best EXCEPT ![side] = best], base |-> b.base, error |-> b.error]
Parts(b, b2, nodes, free, map, side, lv, best) ==
  /\ IsArray(b2) /\ b2.nodes = nodes /\ b2.free = free /\ b2.id_map = map
  /\ b2.levels[side] = lv /\ \A s \in Sides : s # side => b2.levels[s] = b.levels[s]
  /\ b2.best[side] = best /\ \A s \in Sides : s # side => b2.best[s] = b.best[s]
  /\ b2.base = b.base /\ b2.error = b.error

\* A function changed at one point.
LEMMA RowChanged ==
  ASSUME NEW D, NEW f, f = [x \in D |-> f[x]], NEW a \in D, NEW v, NEW g, g = [f EXCEPT ![a] = v]
  PROVE  g = [x \in D |-> g[x]] /\ g[a] = v /\ \A x \in D : x # a => g[x] = f[x]
  OBVIOUS

\* The parts of a book after a change of one side.
LEMMA BecomesIs ==
  ASSUME NEW b, IsArray(b), NEW side \in Sides, NEW nodes, NEW free, NEW map, NEW lv, NEW best,
         NEW b2, Becomes(b, b2, nodes, free, map, side, lv, best)
  PROVE  Parts(b, b2, nodes, free, map, side, lv, best)
<1> DEFINE ls == b.levels
           bs == b.best
           ls2 == [ls EXCEPT ![side] = lv]
           bs2 == [bs EXCEPT ![side] = best]
           base == b.base
           error == b.error
<1>1. ls = [s \in Sides |-> ls[s]] /\ bs = [s \in Sides |-> bs[s]]
  BY DEF IsArray
<1>2. b2 = [nodes |-> nodes, free |-> free, id_map |-> map, levels |-> ls2, best |-> bs2, base |-> base, error |-> error]
  BY DEF Becomes
<1> HIDE DEF ls, bs, base, error
<1>3. ls2 = [s \in Sides |-> ls2[s]] /\ ls2[side] = lv /\ \A s \in Sides : s # side => ls2[s] = ls[s]
  BY <1>1, RowChanged
<1>4. bs2 = [s \in Sides |-> bs2[s]] /\ bs2[side] = best /\ \A s \in Sides : s # side => bs2[s] = bs[s]
  BY <1>1, RowChanged
<1> HIDE DEF ls2, bs2
<1>5. /\ b2.nodes = nodes /\ b2.free = free /\ b2.id_map = map /\ b2.levels = ls2 /\ b2.best = bs2
      /\ b2.base = base /\ b2.error = error
  BY <1>2
<1>6. b2 = [nodes |-> b2.nodes, free |-> b2.free, id_map |-> b2.id_map, levels |-> b2.levels,
            best |-> b2.best, base |-> b2.base, error |-> b2.error]
  BY <1>2
<1>7. b2.levels = [s \in Sides |-> b2.levels[s]] /\ b2.best = [s \in Sides |-> b2.best[s]]
  BY <1>3, <1>4, <1>5
<1> QED
  BY <1>3, <1>4, <1>5, <1>6, <1>7 DEF IsArray, Parts, ls, bs, base, error

\* Two changes of one side are one.
LEMMA BecomesTwice ==
  ASSUME NEW b, IsArray(b), NEW side \in Sides,
         NEW nodes1, NEW free1, NEW map1, NEW lv1, NEW best1,
         NEW b1, Becomes(b, b1, nodes1, free1, map1, side, lv1, best1),
         NEW nodes2, NEW free2, NEW map2, NEW lv2, NEW best2,
         NEW b2, Becomes(b1, b2, nodes2, free2, map2, side, lv2, best2)
  PROVE  Becomes(b, b2, nodes2, free2, map2, side, lv2, best2)
<1> DEFINE ls == b.levels
           bs == b.best
           ls1 == [ls EXCEPT ![side] = lv1]
           bs1 == [bs EXCEPT ![side] = best1]
<1>1. ls = [s \in Sides |-> ls[s]] /\ bs = [s \in Sides |-> bs[s]]
  BY DEF IsArray
<1>2. b1.levels = ls1 /\ b1.best = bs1 /\ b1.base = b.base /\ b1.error = b.error
  BY DEF Becomes
<1> HIDE DEF ls, bs
<1>3. [ls1 EXCEPT ![side] = lv2] = [ls EXCEPT ![side] = lv2] /\ [bs1 EXCEPT ![side] = best2] = [bs EXCEPT ![side] = best2]
  BY <1>1
<1> HIDE DEF ls1, bs1
<1>4. b2 = [nodes |-> nodes2, free |-> free2, id_map |-> map2, levels |-> [b1.levels EXCEPT ![side] = lv2],
            best |-> [b1.best EXCEPT ![side] = best2], base |-> b1.base, error |-> b1.error]
  BY DEF Becomes
<1>5. b2 = [nodes |-> nodes2, free |-> free2, id_map |-> map2, levels |-> [ls EXCEPT ![side] = lv2],
            best |-> [bs EXCEPT ![side] = best2], base |-> b.base, error |-> b.error]
  BY <1>2, <1>3, <1>4
<1> QED
  BY <1>5 DEF Becomes, ls, bs

\* One bucket of a row has another level.
IsRow(lv) == lv = [i \in Places |-> lv[i]]
Replaced(lv, lv2, i, level) == lv2 = [lv EXCEPT ![i] = level]

\* A row in which one bucket is replaced.
LEMMA ReplacedIs ==
  ASSUME NEW lv, IsRow(lv), NEW i \in Places, NEW level, NEW lv2, Replaced(lv, lv2, i, level)
  PROVE  IsRow(lv2) /\ lv2[i] = level /\ \A k \in Places : k # i => lv2[k] = lv[k]
  BY DEF IsRow, Replaced

\* A bucket that is replaced twice.
LEMMA ReplacedTwice ==
  ASSUME NEW lv, IsRow(lv), NEW i \in Places, NEW level1, NEW lv1, Replaced(lv, lv1, i, level1),
         NEW level2, NEW lv2, Replaced(lv1, lv2, i, level2)
  PROVE  Replaced(lv, lv2, i, level2)
  BY DEF IsRow, Replaced

\* A level as its bucket has it.
IsSlot(level, bk, q, loc, at) == level = Slot(bk, q, loc, at)

\* Only at one place do the orders change, and there the bucket follows them.
LEMMA BucketsChanged ==
  ASSUME NEW a \in Prices, NEW bk, NEW q, NEW loc, OnSpots(q),
         NEW side \in Sides, NEW lv, Buckets(a, side, lv, bk, q, loc),
         NEW i \in Places, NEW price, BucketAt(a, side, i, price), NEW at, at = <<side, price>>,
         NEW bk2, NEW q2, NEW loc2, SameElse(at, bk, q, loc, bk2, q2, loc2),
         NEW e, IsSlot(e, bk2, q2, loc2, at), NEW lv2, Replaced(lv, lv2, i, e)
  PROVE  Buckets(a, side, lv2, bk2, q2, loc2)
<1>1. IsRow(lv)
  BY DEF Buckets, IsRow
<1>2. IsRow(lv2) /\ lv2[i] = e /\ \A k \in Places : k # i => lv2[k] = lv[k]
  BY <1>1, ReplacedIs
<1>3. ASSUME NEW k \in Places, NEW p \in PricesOf(side), BucketAt(a, side, k, p)
      PROVE  lv2[k] = Slot(bk2, q2, loc2, <<side, p>>)
  <2>1. p \in Prices /\ price \in Prices /\ <<side, p>> \in DOMAIN q
    BY PricesAre DEF BucketAt, OnSpots
  <2>2. CASE p = price
    <3>1. k = i
      BY <1>3, <2>2 DEF BucketAt
    <3> QED
      BY <1>2, <2>2, <3>1 DEF IsSlot
  <2>3. CASE p # price
    <3>1. k # i
      BY <1>3, <2>1, <2>3, GridIs DEF BucketAt
    <3>2. <<side, p>> # at
      BY <2>3
    <3> DEFINE c == <<side, p>>
    <3>3. lv[k] = Slot(bk, q, loc, c) /\ c \in DOMAIN q /\ c # at
      BY <1>3, <2>1, <3>2 DEF Buckets
    <3> HIDE DEF c
    <3>4. LevelRecord(bk2, q2, loc2, c) = LevelRecord(bk, q, loc, c) /\ q2[c] = q[c]
      BY <3>3 DEF SameElse
    <3>5. Slot(bk2, q2, loc2, c) = Slot(bk, q, loc, c)
      BY <3>4 DEF Slot
    <3> QED
      BY <1>2, <3>1, <3>3, <3>5 DEF c
  <2> QED
    BY <2>2, <2>3
<1>4. ASSUME NEW k \in Places, \A p \in PricesOf(side) : ~BucketAt(a, side, k, p)
      PROVE  lv2[k] = NoLevel
  <2>1. k # i
    BY <1>4 DEF BucketAt
  <2> QED
    BY <1>2, <1>4, <2>1 DEF Buckets
<1> QED
  BY <1>2, <1>3, <1>4 DEF Buckets, IsRow

\* The buckets of the other side stay.
LEMMA BucketsOther ==
  ASSUME NEW a, NEW bk, NEW q, NEW loc, OnSpots(q),
         NEW side \in Sides, NEW lv, Buckets(a, side, lv, bk, q, loc),
         NEW at, at[1] # side, NEW bk2, NEW q2, NEW loc2, SameElse(at, bk, q, loc, bk2, q2, loc2)
  PROVE  Buckets(a, side, lv, bk2, q2, loc2)
<1>1. ASSUME NEW p \in PricesOf(side)
      PROVE  Slot(bk2, q2, loc2, <<side, p>>) = Slot(bk, q, loc, <<side, p>>)
  <2> DEFINE c == <<side, p>>
  <2>1. c \in DOMAIN q /\ c[1] = side
    BY PricesAre DEF OnSpots
  <2> HIDE DEF c
  <2>2. LevelRecord(bk2, q2, loc2, c) = LevelRecord(bk, q, loc, c) /\ q2[c] = q[c]
    BY <2>1 DEF SameElse
  <2>3. Slot(bk2, q2, loc2, c) = Slot(bk, q, loc, c)
    BY <2>2 DEF Slot
  <2> QED
    BY <2>3 DEF c
<1> QED
  BY <1>1 DEF Buckets

\* The best price of the other side stays.
LEMMA BestOther ==
  ASSUME NEW bk, NEW q, NEW loc, OnSpots(q),
         NEW side \in Sides, NEW best, BestIs(side, best, q),
         NEW at, at[1] # side, NEW bk2, NEW q2, NEW loc2, SameElse(at, bk, q, loc, bk2, q2, loc2)
  PROVE  BestIs(side, best, q2)
<1>1. ASSUME NEW p \in PricesOf(side)
      PROVE  q2[<<side, p>>] = q[<<side, p>>]
  <2> DEFINE c == <<side, p>>
  <2>1. c \in DOMAIN q /\ c[1] = side
    BY PricesAre DEF OnSpots
  <2> HIDE DEF c
  <2>2. q2[c] = q[c]
    BY <2>1 DEF SameElse
  <2> QED
    BY <2>2 DEF c
<1> QED
  BY <1>1 DEF BestIs

\* The array has its orders again when its shelf, one bucket and a best price follow them.
LEMMA ArrayedAgain ==
  ASSUME NEW b, NEW a, NEW bk, NEW q, NEW loc, Arrayed(b, a, bk, q, loc),
         NEW side \in Sides, NEW nodes, NEW free, NEW map, NEW lv2, NEW best,
         NEW b2, Becomes(b, b2, nodes, free, map, side, lv2, best),
         NEW bk2, NEW q2, NEW loc2, OnSpots(q2), FromFeed(bk2), Within(a, q2),
         Shelf(MaxOrders, IdMapCapacity, b2, bk2, q2, loc2),
         NEW i \in Places, NEW price, BucketAt(a, side, i, price), NEW at, at = <<side, price>>,
         SameElse(at, bk, q, loc, bk2, q2, loc2),
         NEW e, IsSlot(e, bk2, q2, loc2, at), Replaced(b.levels[side], lv2, i, e),
         BestIs(side, best, q2)
  PROVE  Arrayed(b2, a, bk2, q2, loc2) /\ b2.error = b.error
<1>1. IsArray(b) /\ OnSpots(q) /\ b.base = a
  BY DEF Arrayed
<1>2. Parts(b, b2, nodes, free, map, side, lv2, best)
  BY <1>1, BecomesIs
<1>3. a \in Prices
  BY NoneReached DEF Arrayed, BucketAt
<1>4. Buckets(a, side, lv2, bk2, q2, loc2)
  <2> DEFINE lv == b.levels[side]
  <2>1. Buckets(a, side, lv, bk, q, loc) /\ Replaced(lv, lv2, i, e)
    BY DEF Arrayed
  <2> HIDE DEF lv
  <2> QED
    BY <1>1, <1>3, <2>1, BucketsChanged
<1>5. ASSUME NEW s \in Sides, s # side
      PROVE  Buckets(a, s, b2.levels[s], bk2, q2, loc2) /\ BestIs(s, b2.best[s], q2)
  <2> DEFINE l == b.levels[s]
             bst == b.best[s]
  <2>1. Buckets(a, s, l, bk, q, loc) /\ BestIs(s, bst, q) /\ b2.levels[s] = l /\ b2.best[s] = bst
    BY <1>2, <1>5 DEF Arrayed, Parts
  <2>2. at[1] # s
    BY <1>5
  <2> HIDE DEF l, bst
  <2>3. Buckets(a, s, l, bk2, q2, loc2)
    BY <1>1, <2>1, <2>2, BucketsOther
  <2>4. BestIs(s, bst, q2)
    BY <1>1, <2>1, <2>2, BestOther
  <2> QED
    BY <2>1, <2>3, <2>4
<1> QED
  BY <1>1, <1>2, <1>4, <1>5 DEF Arrayed, Parts

---------------------------------------------------------------------------
(* What the operations do, by the parts of the book. *)

\* A level has the parts of a level.
IsLevel(r) == r = [price |-> r.price, total_qty |-> r.total_qty, head_idx |-> r.head_idx, tail_idx |-> r.tail_idx]
LevelOf(r, price, total, head, tail) == r = [price |-> price, total_qty |-> total, head_idx |-> head, tail_idx |-> tail]

\* The nodes when node n becomes the tail, and when it leaves its level.
NodesLinked(nodes, n, tail) ==
  [k \in DOMAIN nodes |-> IF k = n THEN [nodes[k] EXCEPT !.next_idx = None, !.prev_idx = tail]
                          ELSE IF k = tail THEN [nodes[k] EXCEPT !.next_idx = n] ELSE nodes[k]]
NodesUnlinked(nodes, next, prev) ==
  [k \in DOMAIN nodes |-> IF k = prev THEN [nodes[k] EXCEPT !.next_idx = next]
                          ELSE IF k = next THEN [nodes[k] EXCEPT !.prev_idx = prev] ELSE nodes[k]]

\* A level that gets another head and another tail.
LEMMA EndsChanged ==
  ASSUME NEW b, IsArray(b), NEW side \in Sides, NEW row, b.levels[side] = row, IsRow(row), NEW i \in Places,
         NEW r, row[i] = r, IsLevel(r), NEW head, NEW tail, NEW nodes,
         NEW b2, b2 = [b EXCEPT !.nodes = nodes, !.levels[side][i].head_idx = head, !.levels[side][i].tail_idx = tail]
  PROVE  \E row2, r2 : /\ Replaced(row, row2, i, r2) /\ LevelOf(r2, r.price, r.total_qty, head, tail)
                       /\ Becomes(b, b2, nodes, b.free, b.id_map, side, row2, b.best[side])
<1> DEFINE ls == b.levels
           r1 == [r EXCEPT !.head_idx = head]
           r2 == [r1 EXCEPT !.tail_idx = tail]
           row1 == [row EXCEPT ![i] = r1]
           row2 == [row1 EXCEPT ![i] = r2]
           ls1 == [ls EXCEPT ![side] = row1]
           ls2 == [ls1 EXCEPT ![side] = row2]
           c1 == [b EXCEPT !.nodes = nodes]
           c2 == [c1 EXCEPT !.levels = ls1]
           c3 == [c2 EXCEPT !.levels = ls2]
<1>1. ls = [s \in Sides |-> ls[s]] /\ b.best = [s \in Sides |-> b.best[s]] /\ row = [k \in Places |-> row[k]]
  BY DEF IsArray, IsRow
<1>2. LevelOf(r2, r.price, r.total_qty, head, tail)
  <2>1. r1 = [price |-> r.price, total_qty |-> r.total_qty, head_idx |-> head, tail_idx |-> r.tail_idx]
    BY DEF IsLevel
  <2> HIDE DEF r1
  <2> QED
    BY <2>1 DEF LevelOf
<1>3. ls[side] = row /\ row[i] = r
  OBVIOUS
<1> HIDE DEF r1, r2, ls
<1>4. row1[i] = r1 /\ row2 = [row EXCEPT ![i] = r2]
  BY <1>1
<1> HIDE DEF row1, row2
<1>5. ls1[side] = row1 /\ ls2 = [ls EXCEPT ![side] = row2]
  BY <1>1
<1> HIDE DEF ls1, ls2
<1>6. c1.levels = ls /\ c2.levels = ls1
  BY DEF IsArray, ls
<1>7. b2 = c3
  <2> DEFINE d2 == [c1 EXCEPT !.levels[side][i].head_idx = head]
  <2>1. d2 = [c1 EXCEPT !.levels = [c1.levels EXCEPT ![side] = [c1.levels[side] EXCEPT ![i] = [c1.levels[side][i] EXCEPT !.head_idx = head]]]]
    OBVIOUS
  <2>2. d2 = c2
    BY <1>3, <1>6, <2>1 DEF r1, row1, ls1
  <2>3. b2 = [d2 EXCEPT !.levels[side][i].tail_idx = tail]
    OBVIOUS
  <2> HIDE DEF d2, c2, c1
  <2>4. b2 = [c2 EXCEPT !.levels = [c2.levels EXCEPT ![side] = [c2.levels[side] EXCEPT ![i] = [c2.levels[side][i] EXCEPT !.tail_idx = tail]]]]
    BY <2>2, <2>3
  <2> QED
    BY <1>4, <1>5, <1>6, <2>4 DEF r2, row2, ls2
<1>8. b2 = [b EXCEPT !.nodes = nodes, !.levels = ls2]
  BY <1>7 DEF IsArray
<1>9. [b.best EXCEPT ![side] = b.best[side]] = b.best
  BY <1>1
<1> HIDE DEF c1, c2, c3
<1>10. Becomes(b, b2, nodes, b.free, b.id_map, side, row2, b.best[side])
  BY <1>5, <1>8, <1>9 DEF Becomes, IsArray, ls
<1> QED
  BY <1>2, <1>4, <1>10 DEF Replaced

\* Node n becomes the tail of its level.
LEMMA LinkedBecomes ==
  ASSUME NEW b, IsArray(b), NEW side \in Sides, NEW row, b.levels[side] = row, IsRow(row), NEW i \in Places,
         NEW r, row[i] = r, IsLevel(r), NEW n, NEW tail, tail = r.tail_idx,
         NEW head, head = IF r.head_idx = None THEN n ELSE r.head_idx
  PROVE  \E row2, r2 : /\ Replaced(row, row2, i, r2) /\ LevelOf(r2, r.price, r.total_qty, head, n)
                       /\ Becomes(b, Linked(b, side, i, n), NodesLinked(b.nodes, n, tail), b.free, b.id_map,
                                  side, row2, b.best[side])
<1> DEFINE nodes == NodesLinked(b.nodes, n, tail)
           b2 == Linked(b, side, i, n)
<1>1. b.levels[side][i] = r /\ b.levels[side][i].tail_idx = tail
  OBVIOUS
<1>2. nodes = [k \in DOMAIN b.nodes |->
                 IF k = n THEN [b.nodes[k] EXCEPT !.next_idx = None, !.prev_idx = b.levels[side][i].tail_idx]
                 ELSE IF k = b.levels[side][i].tail_idx THEN [b.nodes[k] EXCEPT !.next_idx = n] ELSE b.nodes[k]]
  BY <1>1 DEF NodesLinked
<1> HIDE DEF nodes
<1>3. b2 = [b EXCEPT !.nodes = nodes,
                     !.levels[side][i].head_idx = IF b.levels[side][i].head_idx = None THEN n ELSE b.levels[side][i].head_idx,
                     !.levels[side][i].tail_idx = n]
  BY <1>2 DEF Linked
<1> HIDE DEF b2
<1>4. b2 = [b EXCEPT !.nodes = nodes, !.levels[side][i].head_idx = head, !.levels[side][i].tail_idx = n]
  BY <1>1, <1>3
<1>5. \E row2, r2 : /\ Replaced(row, row2, i, r2) /\ LevelOf(r2, r.price, r.total_qty, head, n)
                    /\ Becomes(b, b2, nodes, b.free, b.id_map, side, row2, b.best[side])
  BY <1>4, EndsChanged
<1> QED
  BY <1>5 DEF b2, nodes

\* Node n leaves its level.
LEMMA UnlinkedBecomes ==
  ASSUME NEW b, IsArray(b), NEW side \in Sides, NEW row, b.levels[side] = row, IsRow(row), NEW i \in Places,
         NEW r, row[i] = r, IsLevel(r), NEW n, NEW next, NEW prev,
         b.nodes[n].next_idx = next, b.nodes[n].prev_idx = prev,
         NEW head, head = (IF prev = None THEN next ELSE r.head_idx),
         NEW tail, tail = (IF next = None THEN prev ELSE r.tail_idx)
  PROVE  \E row2, r2 : /\ Replaced(row, row2, i, r2) /\ LevelOf(r2, r.price, r.total_qty, head, tail)
                       /\ Becomes(b, Unlinked(b, side, i, n), NodesUnlinked(b.nodes, next, prev), b.free, b.id_map,
                                  side, row2, b.best[side])
<1> DEFINE nodes == NodesUnlinked(b.nodes, next, prev)
           b2 == Unlinked(b, side, i, n)
<1>1. b.levels[side][i] = r
  OBVIOUS
<1>2. nodes = [k \in DOMAIN b.nodes |->
                 IF k = prev THEN [b.nodes[k] EXCEPT !.next_idx = next]
                 ELSE IF k = next THEN [b.nodes[k] EXCEPT !.prev_idx = prev] ELSE b.nodes[k]]
  BY DEF NodesUnlinked
<1>3. b2 = [b EXCEPT !.nodes = nodes,
                     !.levels[side][i].head_idx = IF prev = None THEN next ELSE b.levels[side][i].head_idx,
                     !.levels[side][i].tail_idx = IF next = None THEN prev ELSE b.levels[side][i].tail_idx]
  BY <1>2 DEF Unlinked
<1> HIDE DEF b2, nodes
<1>4. b2 = [b EXCEPT !.nodes = nodes, !.levels[side][i].head_idx = head, !.levels[side][i].tail_idx = tail]
  BY <1>1, <1>3
<1>5. \E row2, r2 : /\ Replaced(row, row2, i, r2) /\ LevelOf(r2, r.price, r.total_qty, head, tail)
                    /\ Becomes(b, b2, nodes, b.free, b.id_map, side, row2, b.best[side])
  BY <1>4, EndsChanged
<1> QED
  BY <1>5 DEF b2, nodes

\* A level that counts another quantity.
LEMMA TotalChanged ==
  ASSUME NEW b, IsArray(b), NEW side \in Sides, NEW row, b.levels[side] = row, IsRow(row), NEW i \in Places,
         NEW r, row[i] = r, IsLevel(r), NEW total, NEW nodes,
         NEW b2, b2 = [b EXCEPT !.nodes = nodes, !.levels[side][i].total_qty = total]
  PROVE  \E row2, r2 : /\ Replaced(row, row2, i, r2) /\ LevelOf(r2, r.price, total, r.head_idx, r.tail_idx)
                       /\ Becomes(b, b2, nodes, b.free, b.id_map, side, row2, b.best[side])
<1> DEFINE ls == b.levels
           r2 == [r EXCEPT !.total_qty = total]
           row2 == [row EXCEPT ![i] = r2]
           ls2 == [ls EXCEPT ![side] = row2]
           c1 == [b EXCEPT !.nodes = nodes]
<1>1. ls = [s \in Sides |-> ls[s]] /\ b.best = [s \in Sides |-> b.best[s]]
  BY DEF IsArray
<1>2. LevelOf(r2, r.price, total, r.head_idx, r.tail_idx)
  BY DEF LevelOf, IsLevel
<1>3. ls[side] = row /\ row[i] = r
  OBVIOUS
<1>4. c1.levels = ls
  BY DEF IsArray
<1>5. b2 = [c1 EXCEPT !.levels = [c1.levels EXCEPT ![side] = [c1.levels[side] EXCEPT ![i] = [c1.levels[side][i] EXCEPT !.total_qty = total]]]]
  OBVIOUS
<1> HIDE DEF ls, c1
<1>6. b2 = [c1 EXCEPT !.levels = ls2]
  BY <1>3, <1>4, <1>5
<1> HIDE DEF r2, row2, ls2
<1>7. b2 = [b EXCEPT !.nodes = nodes, !.levels = ls2]
  BY <1>6 DEF IsArray, c1
<1>8. [b.best EXCEPT ![side] = b.best[side]] = b.best
  BY <1>1
<1>9. Becomes(b, b2, nodes, b.free, b.id_map, side, row2, b.best[side])
  BY <1>7, <1>8 DEF Becomes, IsArray, ls, ls2
<1> QED
  BY <1>2, <1>9 DEF Replaced, row2

CountedIn(b, b2, nodes, free, map, side, i, price, size, best) ==
  b2 = [b EXCEPT !.free = free, !.nodes = nodes, !.id_map = map,
                 !.levels[side][i].price = price, !.levels[side][i].total_qty = @ + size,
                 !.best[side] = best]

\* A level that counts another order, of which the price is also that of the level.
LEMMA LevelCounted ==
  ASSUME NEW b, IsArray(b), NEW side \in Sides, NEW row, b.levels[side] = row, IsRow(row), NEW i \in Places,
         NEW r, row[i] = r, IsLevel(r), NEW price, NEW size, NEW nodes, NEW free, NEW map, NEW best,
         NEW b2, CountedIn(b, b2, nodes, free, map, side, i, price, size, best)
  PROVE  \E row2, r2 : /\ Replaced(row, row2, i, r2) /\ LevelOf(r2, price, r.total_qty + size, r.head_idx, r.tail_idx)
                       /\ Becomes(b, b2, nodes, free, map, side, row2, best)
<1> DEFINE ls == b.levels
           total == r.total_qty + size
           r1 == [r EXCEPT !.price = price]
           r2 == [r1 EXCEPT !.total_qty = total]
           row1 == [row EXCEPT ![i] = r1]
           row2 == [row1 EXCEPT ![i] = r2]
           ls1 == [ls EXCEPT ![side] = row1]
           ls2 == [ls1 EXCEPT ![side] = row2]
           c1 == [b EXCEPT !.free = free, !.nodes = nodes, !.id_map = map]
           c2 == [c1 EXCEPT !.levels = ls1]
           c3 == [c2 EXCEPT !.levels = ls2]
<1>1. ls = [s \in Sides |-> ls[s]] /\ b.best = [s \in Sides |-> b.best[s]] /\ row = [k \in Places |-> row[k]]
  BY DEF IsArray, IsRow
<1>2. LevelOf(r2, price, total, r.head_idx, r.tail_idx) /\ r1.total_qty = r.total_qty
  <2>1. r1 = [price |-> price, total_qty |-> r.total_qty, head_idx |-> r.head_idx, tail_idx |-> r.tail_idx]
    BY DEF IsLevel
  <2> HIDE DEF r1, total
  <2> QED
    BY <2>1 DEF LevelOf
<1>3. ls[side] = row /\ row[i] = r
  OBVIOUS
<1> HIDE DEF r1, r2, ls, total
<1>4. row1[i] = r1 /\ row2 = [row EXCEPT ![i] = r2]
  BY <1>1
<1> HIDE DEF row1, row2
<1>5. ls1[side] = row1 /\ ls2 = [ls EXCEPT ![side] = row2]
  BY <1>1
<1> HIDE DEF ls1, ls2
<1>6. c1.levels = ls /\ c2.levels = ls1
  BY DEF IsArray, ls
<1>7. b2 = [c3 EXCEPT !.best = [b.best EXCEPT ![side] = best]]
  <2> DEFINE d2 == [c1 EXCEPT !.levels[side][i].price = price]
             d3 == [d2 EXCEPT !.levels[side][i].total_qty = b.levels[side][i].total_qty + size]
  <2>1. d2 = [c1 EXCEPT !.levels = [c1.levels EXCEPT ![side] = [c1.levels[side] EXCEPT ![i] = [c1.levels[side][i] EXCEPT !.price = price]]]]
    OBVIOUS
  <2>2. d2 = c2
    BY <1>3, <1>6, <2>1 DEF r1, row1, ls1
  <2>3. b2 = [d3 EXCEPT !.best = [d3.best EXCEPT ![side] = best]]
    BY DEF CountedIn
  <2>5. d3 = [d2 EXCEPT !.levels = [d2.levels EXCEPT ![side] = [d2.levels[side] EXCEPT ![i] = [d2.levels[side][i] EXCEPT !.total_qty = r.total_qty + size]]]]
    OBVIOUS
  <2> HIDE DEF d3, d2, c2, c1
  <2>4. d3 = [c2 EXCEPT !.levels = [c2.levels EXCEPT ![side] = [c2.levels[side] EXCEPT ![i] = [c2.levels[side][i] EXCEPT !.total_qty = r.total_qty + size]]]]
    BY <2>2, <2>5
  <2>6. d3 = c3
    BY <1>2, <1>4, <1>5, <1>6, <2>4 DEF r2, row2, ls2, total
  <2>7. c3.best = b.best
    BY DEF c3, c2, c1, IsArray
  <2> QED
    BY <2>3, <2>6, <2>7
<1>8. b2 = [[b EXCEPT !.free = free, !.nodes = nodes, !.id_map = map, !.levels = ls2]
                EXCEPT !.best = [b.best EXCEPT ![side] = best]]
  BY <1>7 DEF IsArray
<1> HIDE DEF c1, c2, c3
<1>10. Becomes(b, b2, nodes, free, map, side, row2, best)
  BY <1>5, <1>8 DEF Becomes, IsArray, ls
<1> QED
  BY <1>2, <1>4, <1>10 DEF Replaced, total

\* The nodes with a new one, that becomes the tail of its level.
NodesPlaced(nodes, n, node, tail) == NodesLinked([nodes EXCEPT ![n] = node], n, tail)

\* The node that a message for an order makes.
IsNode(node, id, side, price, size, next, prev) ==
  node = [order_id |-> id, side |-> side, price |-> price, size |-> size, next_idx |-> next, prev_idx |-> prev]

\* An order comes to bucket i.
LEMMA PlacedBecomes ==
  ASSUME NEW b, IsArray(b), NEW id, NEW side \in Sides, NEW price, NEW size, NEW m, AsksFor(m, id, side, price, size),
         NEW row, b.levels[side] = row, IsRow(row), NEW i \in Places, NEW r, row[i] = r, IsLevel(r),
         NEW n, n = Last(b.free), NEW tail, tail = r.tail_idx,
         NEW head, head = (IF r.head_idx = None THEN n ELSE r.head_idx),
         NEW node, IsNode(node, id, side, price, size, None, None),
         NEW best, best = (IF b.best[side] = Undef \/ Better(side, price, b.best[side]) THEN price ELSE b.best[side])
  PROVE  \E row2, r2 : /\ Replaced(row, row2, i, r2) /\ LevelOf(r2, price, r.total_qty + size, head, n)
                       /\ Becomes(b, Placed(b, m, i), NodesPlaced(b.nodes, n, node, tail), Front(b.free),
                                  Hash(IdMapCapacity)!Insert(b.id_map, id, n), side, row2, best)
<1> DEFINE nodes == [b.nodes EXCEPT ![n] = node]
           free == Front(b.free)
           map == Hash(IdMapCapacity)!Insert(b.id_map, id, n)
           stored == [b EXCEPT !.free = free, !.nodes = nodes, !.id_map = map,
                               !.levels[side][i].price = price, !.levels[side][i].total_qty = @ + size,
                               !.best[side] = best]
<1>1. m.order_id = id /\ m.side = side /\ m.price = price /\ m.size = size
  BY DEF AsksFor
<1>2. Placed(b, m, i) = Linked(stored, side, i, n)
  <2>1. /\ Pool!Allocated(b.free) = n /\ Pool!AfterAllocate(b.free) = free /\ IdMap!Insert(b.id_map, id, n) = map
    BY PoolIs, InsertIsHash
  <2>3. node = [order_id |-> id, side |-> side, price |-> price, size |-> size, next_idx |-> None, prev_idx |-> None]
    BY DEF IsNode
  <2> HIDE DEF map, free
  <2>2. stored = [b EXCEPT !.free = Pool!AfterAllocate(@),
                          !.nodes[n] = [order_id |-> id, side |-> side, price |-> price, size |-> size,
                                        next_idx |-> None, prev_idx |-> None],
                          !.id_map = IdMap!Insert(@, id, n),
                          !.levels[side][i].price = price,
                          !.levels[side][i].total_qty = @ + size,
                          !.best[side] = IF @ = Undef \/ Better(side, price, @) THEN price ELSE @]
    BY <2>1, <2>3
  <2> HIDE DEF stored
  <2> QED
    BY <1>1, <2>1, <2>2 DEF Placed
<1> HIDE DEF nodes, free, map
<1>3. CountedIn(b, stored, nodes, free, map, side, i, price, size, best)
  BY DEF CountedIn
<1> HIDE DEF stored
<1>4. \E row1, r1 : /\ Replaced(row, row1, i, r1) /\ LevelOf(r1, price, r.total_qty + size, r.head_idx, r.tail_idx)
                    /\ Becomes(b, stored, nodes, free, map, side, row1, best)
  BY <1>3, LevelCounted
<1>5. PICK row1, r1 : /\ Replaced(row, row1, i, r1) /\ LevelOf(r1, price, r.total_qty + size, r.head_idx, r.tail_idx)
                      /\ Becomes(b, stored, nodes, free, map, side, row1, best)
  BY <1>4
<1>6. Parts(b, stored, nodes, free, map, side, row1, best)
  BY <1>5, BecomesIs
<1>7. IsRow(row1) /\ row1[i] = r1
  BY <1>5, ReplacedIs
<1>8. IsLevel(r1) /\ r1.price = price /\ r1.total_qty = r.total_qty + size /\ r1.head_idx = r.head_idx /\ r1.tail_idx = r.tail_idx
  BY <1>5 DEF LevelOf, IsLevel
<1>9. IsArray(stored) /\ stored.levels[side] = row1 /\ stored.nodes = nodes /\ stored.free = free /\ stored.id_map = map
      /\ stored.best[side] = best
  BY <1>6 DEF Parts
<1>10. tail = r1.tail_idx /\ head = IF r1.head_idx = None THEN n ELSE r1.head_idx
  BY <1>8
<1>11. \E row2, r2 : /\ Replaced(row1, row2, i, r2) /\ LevelOf(r2, r1.price, r1.total_qty, head, n)
                     /\ Becomes(stored, Linked(stored, side, i, n), NodesLinked(stored.nodes, n, tail), stored.free, stored.id_map,
                                side, row2, stored.best[side])
  BY <1>7, <1>8, <1>9, <1>10, LinkedBecomes
<1>12. PICK row2, r2 : /\ Replaced(row1, row2, i, r2) /\ LevelOf(r2, r1.price, r1.total_qty, head, n)
                     /\ Becomes(stored, Linked(stored, side, i, n), NodesLinked(stored.nodes, n, tail), stored.free, stored.id_map,
                                side, row2, stored.best[side])
  BY <1>11
<1>13. Becomes(stored, Linked(stored, side, i, n), NodesLinked(nodes, n, tail), free, map, side, row2, best)
  BY <1>9, <1>12
<1>14. Becomes(b, Linked(stored, side, i, n), NodesLinked(nodes, n, tail), free, map, side, row2, best)
  BY <1>5, <1>13, BecomesTwice
<1>15. Replaced(row, row2, i, r2)
  BY <1>5, <1>12, ReplacedTwice
<1>16. LevelOf(r2, price, r.total_qty + size, head, n)
  BY <1>8, <1>12
<1> QED
  BY <1>2, <1>14, <1>15, <1>16 DEF NodesPlaced, nodes, free, map

---------------------------------------------------------------------------
(* An order is added. *)

\* The nodes with a new one, that is linked behind the tail.
LEMMA PlacedNodes ==
  ASSUME NEW P \in Nat, NEW b, NEW bk, NEW q, NEW loc, Holding(P, b, bk, q, loc),
         NEW n \in 0..(P - 1), NEW tail, tail # n, NEW id, NEW o, NEW node,
         IsNode(node, id, o.side, o.price, o.size, None, None),
         NEW b2, b2.nodes = NodesPlaced(b.nodes, n, node, tail)
  PROVE  NodeAdded(P, b, b2, id, o, n, tail)
<1> DEFINE f == b.nodes
           g == [f EXCEPT ![n] = node]
           new == [order_id |-> id, side |-> o.side, price |-> o.price, size |-> o.size, next_idx |-> NoLink, prev_idx |-> tail]
<1>0. f = [k \in 0..(P - 1) |-> f[k]]
  BY DEF Holding
<1>1. b2.nodes = NodesLinked(g, n, tail)
  BY DEF NodesPlaced
<1>2. [node EXCEPT !.next_idx = None, !.prev_idx = tail] = new
  <2> DEFINE side == o.side
             price == o.price
             size == o.size
  <2>1. IsNode(node, id, side, price, size, None, None) /\ None = NoLink
    BY PoolIs
  <2>2. new = [order_id |-> id, side |-> side, price |-> price, size |-> size, next_idx |-> NoLink, prev_idx |-> tail]
    OBVIOUS
  <2> HIDE DEF new, side, price, size
  <2>3. node = [order_id |-> id, side |-> side, price |-> price, size |-> size, next_idx |-> NoLink, prev_idx |-> NoLink]
    BY <2>1 DEF IsNode
  <2>4. LinkedOn(node, NoLink) = node
    BY <2>3, LinkedIs
  <2>5. LinkedBack(node, tail) = new
    BY <2>2, <2>3, LinkedIs
  <2>6. [node EXCEPT !.next_idx = None, !.prev_idx = tail] = LinkedBack(LinkedOn(node, None), tail)
    BY DEF LinkedOn, LinkedBack
  <2> QED
    BY <2>1, <2>4, <2>5, <2>6
<1> HIDE DEF f, new
<1>3. DOMAIN g = 0..(P - 1) /\ g[n] = node /\ \A k \in 0..(P - 1) : k # n => g[k] = f[k]
  BY <1>0
<1> HIDE DEF g
<1>4. b2.nodes = [k \in 0..(P - 1) |-> IF k = n THEN [g[k] EXCEPT !.next_idx = None, !.prev_idx = tail]
                                       ELSE IF k = tail THEN [g[k] EXCEPT !.next_idx = n] ELSE g[k]]
  BY <1>1, <1>3 DEF NodesLinked
<1>5. \A k \in 0..(P - 1) :
        (IF k = n THEN [g[k] EXCEPT !.next_idx = None, !.prev_idx = tail]
         ELSE IF k = tail THEN [g[k] EXCEPT !.next_idx = n] ELSE g[k])
        = (IF k = n THEN new ELSE IF k = tail THEN LinkedOn(f[k], n) ELSE f[k])
  BY <1>2, <1>3 DEF LinkedOn
<1>6. b2.nodes = [k \in 0..(P - 1) |-> IF k = n THEN new ELSE IF k = tail THEN LinkedOn(f[k], n) ELSE f[k]]
  BY <1>4, <1>5
<1> QED
  BY <1>6 DEF NodeAdded, f, new

\* What a bucket says of the orders at its price.
SlotSays(r, bk, q, loc, at) ==
  /\ IsLevel(r) /\ r.total_qty = TotalAt(bk, at) /\ TotalAt(bk, at) \in Nat /\ (TotalAt(bk, at) = 0 <=> q[at] = <<>>)
  /\ r.head_idx = HeadOf(loc, q[at]) /\ r.tail_idx = TailOf(loc, q[at])
  /\ q[at] # <<>> => r.price = at[2]

\* A bucket that is in step with the orders at its price says all this of them.
LEMMA SlotIs ==
  ASSUME NEW b, NEW bk, NEW q, NEW loc, Shelf(MaxOrders, IdMapCapacity, b, bk, q, loc), NEW at \in DOMAIN q,
         NEW r, IsSlot(r, bk, q, loc, at)
  PROVE  SlotSays(r, bk, q, loc, at)
<1>1. TotalAt(bk, at) \in Nat /\ (TotalAt(bk, at) = 0 <=> q[at] = <<>>)
  BY TotalIs DEF Shelf
<1>2. CASE q[at] = <<>>
  <2>1. r = NoLevel /\ HeadOf(loc, q[at]) = NoLink /\ TailOf(loc, q[at]) = NoLink
    BY <1>2 DEF IsSlot, Slot, HeadOf, TailOf
  <2>2. IsLevel(r) /\ r.total_qty = 0 /\ r.head_idx = NoLink /\ r.tail_idx = NoLink
    BY <2>1 DEF IsLevel, NoLevel, None, NoLink
  <2> QED
    BY <1>1, <1>2, <2>1, <2>2 DEF SlotSays
<1>3. CASE q[at] # <<>>
  <2>1. r = LevelRecord(bk, q, loc, at)
    BY <1>3 DEF IsSlot, Slot
  <2>2. /\ IsLevel(r) /\ r.price = at[2] /\ r.total_qty = TotalAt(bk, at) /\ r.head_idx = HeadOf(loc, q[at])
        /\ r.tail_idx = TailOf(loc, q[at])
    BY <2>1 DEF IsLevel, LevelRecord
  <2> QED
    BY <1>1, <1>3, <2>2 DEF SlotSays
<1> QED
  BY <1>2, <1>3

\* The bucket of a price that is reached.
LEMMA BucketIs ==
  ASSUME NEW b, NEW a, NEW bk, NEW q, NEW loc, Arrayed(b, a, bk, q, loc),
         NEW side \in Sides, NEW i, NEW price, BucketAt(a, side, i, price), NEW at, at = <<side, price>>
  PROVE  /\ a \in Prices /\ price \in PricesOf(side) /\ price \in Prices /\ price \in Nat \ {0}
         /\ i \in Places /\ i # NoIndex /\ IndexOf(b.base, price) = i
         /\ at \in DOMAIN q /\ at[1] = side /\ at[2] = price /\ ReachedFrom(a, price)
         /\ IsRow(b.levels[side]) /\ IsSlot(b.levels[side][i], bk, q, loc, at)
         /\ SlotSays(b.levels[side][i], bk, q, loc, at)
<1>1. a \in Prices /\ price \in PricesOf(side) /\ price \in Prices /\ price \in Nat \ {0} /\ ReachedFrom(a, price)
  BY NoneReached, PricesAre DEF BucketAt, Arrayed
<1>2. i \in Places /\ i # NoIndex /\ IndexOf(b.base, price) = i
  BY <1>1, GridIs DEF BucketAt, Arrayed
<1>3. at \in DOMAIN q /\ at[1] = side /\ at[2] = price
  BY <1>1, PricesAre DEF Arrayed, OnSpots
<1>4. IsRow(b.levels[side]) /\ IsSlot(b.levels[side][i], bk, q, loc, at)
  BY <1>2 DEF Arrayed, Buckets, IsRow, IsSlot, BucketAt
<1>5. SlotSays(b.levels[side][i], bk, q, loc, at)
  BY <1>3, <1>4, SlotIs DEF Arrayed
<1> QED
  BY <1>1, <1>2, <1>3, <1>4, <1>5

\* The orders that an add changes.
LEMMA AddedElse ==
  ASSUME NEW b, NEW a, NEW bk, NEW q, NEW loc, Arrayed(b, a, bk, q, loc),
         NEW id \in Ids, id \notin DOMAIN bk, NEW side \in Sides, NEW price \in PricesOf(side), ReachedFrom(a, price),
         NEW size \in Nat \ {0}, NEW o, IsOrderOf(o, side, price, size), NEW at, at = <<side, price>>, NEW n
  PROVE  /\ id \in Nat \ {0} /\ at \in DOMAIN q /\ SpotOf(o) = at /\ IsRest(o)
         /\ OnSpots(LinedUp(q, at, id)) /\ FromFeed(Widened(bk, id, o)) /\ Within(a, LinedUp(q, at, id))
         /\ SameElse(at, bk, q, loc, Widened(bk, id, o), LinedUp(q, at, id), Widened(loc, id, n))
         /\ LinedUp(q, at, id)[at] # <<>>
         /\ LevelOf(LevelRecord(Widened(bk, id, o), LinedUp(q, at, id), Widened(loc, id, n), at),
                    price, TotalAt(bk, at) + size, IF HeadOf(loc, q[at]) = NoLink THEN n ELSE HeadOf(loc, q[at]), n)
<1>1. id \in Nat \ {0} /\ at \in DOMAIN q /\ at[2] = price
  BY PricesAre, FeedAssumption DEF Arrayed, OnSpots
<1>2. IsRest(o) /\ SpotOf(o) = at /\ o.size = size /\ o.side = side /\ o.price = price
  BY OrderIs
<1> DEFINE q2 == LinedUp(q, at, id)
           bk2 == Widened(bk, id, o)
           loc2 == Widened(loc, id, n)
<1>3. q2 = LinedUp(q, at, id)
  OBVIOUS
<1>4. Shelf(MaxOrders, IdMapCapacity, b, bk, q, loc)
  BY DEF Arrayed
<1> HIDE DEF q2
<1>5. /\ LevelRecord(bk2, q2, loc2, at) =
              [price |-> at[2], total_qty |-> TotalAt(bk, at) + o.size,
               head_idx |-> IF HeadOf(loc, q[at]) = NoLink THEN n ELSE HeadOf(loc, q[at]), tail_idx |-> n]
      /\ \A s \in DOMAIN q : s # at => LevelRecord(bk2, q2, loc2, s) = LevelRecord(bk, q, loc, s)
  BY <1>1, <1>2, <1>3, <1>4, ConstantsAre, LevelWith
<1>6. DOMAIN q2 = DOMAIN q /\ q2[at] = Append(q[at], id) /\ \A s \in DOMAIN q : s # at => q2[s] = q[s]
  <2>1. Queues(bk, q)
    BY <1>4 DEF Shelf
  <2>2. q2 = [q EXCEPT ![at] = Append(q[at], id)]
    BY <1>3 DEF LinedUp
  <2> QED
    BY <1>1, <2>1, <2>2, QueueChanged
<1>7. OnSpots(q2)
  BY <1>6 DEF OnSpots, Arrayed
<1>8. FromFeed(bk2)
  BY <1>2 DEF FromFeed, Arrayed, Widened
<1>9. SameElse(at, bk, q, loc, bk2, q2, loc2)
  BY <1>5, <1>6 DEF SameElse
<1>10. q2[at] # <<>>
  <2>1. q[at] \in Seq(DOMAIN bk)
    BY <1>1, <1>4, QueueHolds DEF Shelf
  <2> DEFINE s == q[at]
             S == DOMAIN bk \cup {id}
  <2>2. s \in Seq(S) /\ id \in S
    BY <2>1
  <2> HIDE DEF s, S
  <2>3. Append(s, id) \in Seq(S) /\ Len(Append(s, id)) = Len(s) + 1 /\ Len(s) \in Nat
    BY <2>2, AppendIs
  <2>4. Append(s, id) # <<>>
    BY <2>3, EmptySeq
  <2> QED
    BY <1>6, <2>4 DEF s
<1>11. Within(a, q2)
  BY <1>1, <1>6 DEF Within, Arrayed
<1> HIDE DEF bk2, loc2
<1>12. LevelOf(LevelRecord(bk2, q2, loc2, at), price, TotalAt(bk, at) + size,
               IF HeadOf(loc, q[at]) = NoLink THEN n ELSE HeadOf(loc, q[at]), n)
  BY <1>1, <1>2, <1>5 DEF LevelOf
<1> QED
  BY <1>1, <1>2, <1>7, <1>8, <1>9, <1>10, <1>11, <1>12 DEF bk2, loc2, q2

\* The best price when an order comes.
LEMMA BestWith ==
  ASSUME NEW side \in Sides, NEW q, NEW best, BestIs(side, best, q), OnSpots(q), NEW price \in PricesOf(side),
         NEW at, at = <<side, price>>, NEW q2, q2[at] # <<>>, \A s \in DOMAIN q : s # at => q2[s] = q[s],
         NEW best2, best2 = IF best = Undef \/ Better(side, price, best) THEN price ELSE best
  PROVE  BestIs(side, best2, q2)
<1>1. \A p \in PricesOf(side) : p \in Nat \ {0} /\ <<side, p>> \in DOMAIN q
  BY PricesAre DEF OnSpots
<1>2. \A p \in PricesOf(side) : p # price => q2[<<side, p>>] = q[<<side, p>>]
  BY <1>1
<1>3. best # Undef => best \in PricesOf(side) /\ q[<<side, best>>] # <<>>
  BY DEF BestIs
<1>4. best2 # Undef /\ best2 \in PricesOf(side) /\ q2[<<side, best2>>] # <<>>
  <2>1. CASE best2 = price
    BY <1>1, <2>1 DEF Undef
  <2>2. CASE best2 # price
    <3>1. best2 = best /\ best # Undef
      BY <2>2
    <3> QED
      BY <1>2, <1>3, <2>2, <3>1
  <2> QED
    BY <2>1, <2>2
<1>5. ASSUME Dense(side), NEW p \in PricesOf(side), q2[<<side, p>>] # <<>>
      PROVE  ~Better(side, p, best2)
  <2>1. p \in Nat /\ price \in Nat /\ (best # Undef => best \in Nat)
    BY <1>1, <1>3
  <2>2. CASE p = price
    BY <2>1, <2>2 DEF Better
  <2>3. CASE p # price
    <3>1. best # Undef /\ ~Better(side, p, best)
      BY <1>2, <1>5, <2>3 DEF BestIs
    <3> QED
      BY <2>1, <3>1 DEF Better
  <2> QED
    BY <2>2, <2>3
<1> QED
  BY <1>4, <1>5 DEF BestIs

\* An order for which there is a node lines up in its bucket.
LEMMA PlacedGood ==
  ASSUME NEW b, NEW a, NEW bk, NEW q, NEW loc, Arrayed(b, a, bk, q, loc), b.free # <<>>,
         NEW id \in Ids, id \notin DOMAIN bk, NEW side \in Sides, NEW price, NEW i, BucketAt(a, side, i, price),
         NEW size \in Nat \ {0}, NEW m, AsksFor(m, id, side, price, size), NEW o, IsOrderOf(o, side, price, size),
         NEW at, at = <<side, price>>, NEW n, n = Last(b.free)
  PROVE  /\ Arrayed(Placed(b, m, i), a, Widened(bk, id, o), LinedUp(q, at, id), Widened(loc, id, n))
         /\ Placed(b, m, i).error = b.error
<1> DEFINE row == b.levels[side]
           r == row[i]
           tail == r.tail_idx
           head == IF r.head_idx = None THEN n ELSE r.head_idx
           node == [order_id |-> id, side |-> side, price |-> price, size |-> size, next_idx |-> None, prev_idx |-> None]
           best == IF b.best[side] = Undef \/ Better(side, price, b.best[side]) THEN price ELSE b.best[side]
           b2 == Placed(b, m, i)
           bk2 == Widened(bk, id, o)
           q2 == LinedUp(q, at, id)
           loc2 == Widened(loc, id, n)
           nodes2 == NodesPlaced(b.nodes, n, node, tail)
           map2 == Hash(IdMapCapacity)!Insert(b.id_map, id, n)
<1>1. /\ a \in Prices /\ price \in PricesOf(side) /\ i \in Places /\ at \in DOMAIN q /\ ReachedFrom(a, price)
      /\ IsRow(row) /\ SlotSays(r, bk, q, loc, at)
  BY BucketIs
<1>2. IsArray(b) /\ Shelf(MaxOrders, IdMapCapacity, b, bk, q, loc) /\ OnSpots(q) /\ FromFeed(bk)
      /\ BestIs(side, b.best[side], q)
  BY DEF Arrayed
<1>3. IsLevel(r) /\ r.total_qty = TotalAt(bk, at) /\ head = (IF HeadOf(loc, q[at]) = NoLink THEN n ELSE HeadOf(loc, q[at]))
      /\ tail = TailOf(loc, q[at])
  BY <1>1, PoolIs DEF SlotSays
<1>4. \E lv, r2 : /\ Replaced(row, lv, i, r2) /\ LevelOf(r2, price, r.total_qty + size, head, n)
                  /\ Becomes(b, b2, nodes2, Front(b.free), map2, side, lv, best)
  <2> DEFINE x == b.best[side]
  <2>1. /\ b.levels[side] = row /\ row[i] = r /\ tail = r.tail_idx /\ (head = IF r.head_idx = None THEN n ELSE r.head_idx)
        /\ IsNode(node, id, side, price, size, None, None)
        /\ (best = IF b.best[side] = Undef \/ Better(side, price, b.best[side]) THEN price ELSE b.best[side])
    BY DEF IsNode
  <2> HIDE DEF row, r, tail, head, node, best
  <2>2. /\ IsArray(b) /\ side \in Sides /\ AsksFor(m, id, side, price, size) /\ IsRow(row) /\ i \in Places /\ IsLevel(r)
        /\ n = Last(b.free)
    BY <1>1, <1>2, <1>3
  <2> QED
    BY ONLY <2>1, <2>2, PlacedBecomes
<1>5. PICK lv, r2 : /\ Replaced(row, lv, i, r2) /\ LevelOf(r2, price, r.total_qty + size, head, n)
                    /\ Becomes(b, b2, nodes2, Front(b.free), map2, side, lv, best)
  BY <1>4
<1> HIDE DEF b2, node, best, nodes2, map2, row, r, tail, head
<1>6. Parts(b, b2, nodes2, Front(b.free), map2, side, lv, best)
  BY <1>2, <1>5, BecomesIs
<1>7. b2.nodes = nodes2 /\ b2.free = Front(b.free) /\ b2.id_map = map2
  BY <1>6 DEF Parts
<1>8. /\ id \in Nat \ {0} /\ at \in DOMAIN q /\ SpotOf(o) = at /\ IsRest(o)
      /\ OnSpots(q2) /\ FromFeed(bk2) /\ Within(a, q2)
      /\ SameElse(at, bk, q, loc, bk2, q2, loc2) /\ q2[at] # <<>>
      /\ LevelOf(LevelRecord(bk2, q2, loc2, at), price, TotalAt(bk, at) + size,
                 IF HeadOf(loc, q[at]) = NoLink THEN n ELSE HeadOf(loc, q[at]), n)
  BY <1>1, AddedElse
<1>9. Located(MaxOrders, b, bk, loc) /\ Queues(bk, q) /\ Holding(MaxOrders, b, bk, q, loc) /\ IsBook(bk)
  BY <1>2 DEF Shelf
<1>10. n \in 0..(MaxOrders - 1) /\ \A x \in DOMAIN bk : loc[x] # n
  BY <1>7, <1>9, ConstantsAre, SpotsWith
<1>11. tail # n
  <2>1. CASE q[at] = <<>>
    <3>1. tail = NoLink
      BY <1>3, <2>1 DEF TailOf
    <3> QED
      BY <1>10, <3>1 DEF NoLink
  <2>2. CASE q[at] # <<>>
    <3>1. q[at] \in Seq(DOMAIN bk)
      BY <1>8, <1>9 DEF Queues
    <3>2. q[at][Len(q[at])] \in DOMAIN bk
      BY <2>2, <3>1
    <3> QED
      BY <1>3, <1>10, <2>2, <3>2 DEF TailOf
  <2> QED
    BY <2>1, <2>2
<1>12. NodeAdded(MaxOrders, b, b2, id, o, n, tail)
  <2>1. o.side = side /\ o.price = price /\ o.size = size
    BY OrderIs
  <2>2. IsNode(node, id, o.side, o.price, o.size, None, None)
    BY <2>1 DEF node, IsNode
  <2>3. b2.nodes = NodesPlaced(b.nodes, n, node, tail)
    BY <1>7 DEF nodes2
  <2> QED
    BY <1>9, <1>10, <1>11, <2>2, <2>3, ConstantsAre, PlacedNodes
<1>13. Shelf(MaxOrders, IdMapCapacity, b2, bk2, q2, loc2)
  <2>1. SpotOf(o) \in DOMAIN q /\ NodeAdded(MaxOrders, b, b2, id, o, n, TailOf(loc, q[SpotOf(o)])) /\ q2 = LinedUp(q, SpotOf(o), id)
    BY <1>3, <1>8, <1>12
  <2>2. b2.id_map = Hash(IdMapCapacity)!Insert(b.id_map, id, n)
    BY <1>7 DEF map2
  <2> HIDE DEF q2
  <2>3. Shelf(MaxOrders, IdMapCapacity, b2, Widened(bk, id, o), LinedUp(q, SpotOf(o), id), Widened(loc, id, n))
    BY <1>2, <1>7, <1>8, <2>1, <2>2, ConstantsAre, ShelfWith
  <2> QED
    BY <2>1, <2>3
<1> HIDE DEF bk2, q2, loc2
<1>14. IsSlot(r2, bk2, q2, loc2, at)
  <2>1. LevelRecord(bk2, q2, loc2, at) = r2
    BY <1>3, <1>5, <1>8 DEF LevelOf
  <2> QED
    BY <1>8, <2>1 DEF IsSlot, Slot
<1>15. BestIs(side, best, q2)
  <2>1. \A s \in DOMAIN q : s # at => q2[s] = q[s]
    BY <1>8 DEF SameElse
  <2> QED
    BY <1>1, <1>2, <1>8, <2>1, BestWith DEF best
<1>16. Arrayed(b2, a, bk2, q2, loc2) /\ b2.error = b.error
  BY <1>1, <1>5, <1>8, <1>13, <1>14, <1>15, ArrayedAgain DEF row
<1> QED
  BY <1>16 DEF b2, bk2, q2, loc2

\* An order comes to its bucket, and there is a node for it: the hypotheses of PlacedGood in one.
Enters(b, a, bk, q, loc, id, side, price, i, size, m, o, at, n) ==
  /\ Arrayed(b, a, bk, q, loc) /\ b.free # <<>> /\ id \in Ids /\ id \notin DOMAIN bk /\ side \in Sides
  /\ BucketAt(a, side, i, price) /\ size \in Nat \ {0} /\ AsksFor(m, id, side, price, size)
  /\ IsOrderOf(o, side, price, size) /\ at = <<side, price>> /\ n = Last(b.free)

\* Such an order leaves the array in order.
LEMMA EntersGood ==
  ASSUME NEW b, NEW a, NEW bk, NEW q, NEW loc, NEW id, NEW side, NEW price, NEW i, NEW size, NEW m, NEW o,
         NEW at, NEW n, Enters(b, a, bk, q, loc, id, side, price, i, size, m, o, at, n)
  PROVE  /\ Arrayed(Placed(b, m, i), a, Widened(bk, id, o), LinedUp(q, at, id), Widened(loc, id, n))
         /\ Placed(b, m, i).error = b.error
<1>1. /\ Arrayed(b, a, bk, q, loc) /\ b.free # <<>> /\ id \in Ids /\ id \notin DOMAIN bk /\ side \in Sides
      /\ BucketAt(a, side, i, price) /\ size \in Nat \ {0} /\ AsksFor(m, id, side, price, size)
      /\ IsOrderOf(o, side, price, size) /\ at = <<side, price>> /\ n = Last(b.free)
  BY DEF Enters
<1> QED
  BY ONLY <1>1, PlacedGood

---------------------------------------------------------------------------
(* The first price. *)

\* Arrays with the same parts are the same.
LEMMA ArrayEquals ==
  ASSUME NEW b, IsArray(b), NEW c, IsArray(c), c.nodes = b.nodes, c.free = b.free, c.id_map = b.id_map,
         c.levels = b.levels, c.best = b.best, c.base = b.base, c.error = b.error
  PROVE  c = b
  BY DEF IsArray

\* Anchored and Throw change one part each.
LEMMA AnchoredIs ==
  ASSUME NEW b, IsArray(b), NEW price, NEW c, c = Anchored(b, price)
  PROVE  /\ IsArray(c) /\ c.nodes = b.nodes /\ c.free = b.free /\ c.id_map = b.id_map /\ c.levels = b.levels
         /\ c.best = b.best /\ c.error = b.error /\ c.base = (IF b.base = Undef THEN price ELSE b.base)
<1> DEFINE base == IF b.base = Undef THEN price ELSE b.base
<1>1. c = [b EXCEPT !.base = base]
  BY DEF Anchored
<1> HIDE DEF base
<1>2. c = [nodes |-> b.nodes, free |-> b.free, id_map |-> b.id_map, levels |-> b.levels,
           best |-> b.best, base |-> base, error |-> b.error]
  BY <1>1 DEF IsArray
<1> QED
  BY <1>2 DEF IsArray, base

\* What is thrown changes nothing else.
LEMMA ThrowIs ==
  ASSUME NEW b, IsArray(b), NEW what, NEW c, c = Throw(b, what)
  PROVE  /\ IsArray(c) /\ c.nodes = b.nodes /\ c.free = b.free /\ c.id_map = b.id_map /\ c.levels = b.levels
         /\ c.best = b.best /\ c.base = b.base /\ c.error = what
<1>1. c = [nodes |-> b.nodes, free |-> b.free, id_map |-> b.id_map, levels |-> b.levels,
           best |-> b.best, base |-> b.base, error |-> what]
  BY DEF IsArray, Throw
<1> QED
  BY <1>1 DEF IsArray

\* A book that has thrown has the orders it had.
LEMMA ThrowGood ==
  ASSUME NEW b, NEW a, NEW bk, NEW q, NEW loc, Arrayed(b, a, bk, q, loc)
  PROVE  Arrayed(Throw(b, Thrown), a, bk, q, loc) /\ Throw(b, Thrown).error = Thrown
<1> DEFINE c == Throw(b, Thrown)
<1>1. IsArray(b)
  BY DEF Arrayed
<1>2. /\ IsArray(c) /\ c.nodes = b.nodes /\ c.free = b.free /\ c.id_map = b.id_map /\ c.levels = b.levels
      /\ c.best = b.best /\ c.base = b.base /\ c.error = Thrown
  BY <1>1, ThrowIs
<1> HIDE DEF c
<1>3. Shelf(MaxOrders, IdMapCapacity, b, bk, q, loc)
  BY DEF Arrayed
<1>4. Shelf(MaxOrders, IdMapCapacity, c, bk, q, loc)
  BY <1>2, <1>3, ShelfSame
<1>5. Arrayed(c, a, bk, q, loc)
  BY <1>2, <1>4 DEF Arrayed
<1> QED
  BY <1>2, <1>5 DEF c

\* An array that has a middle keeps it.
LEMMA AnchoredStays ==
  ASSUME NEW b, NEW a, NEW bk, NEW q, NEW loc, Arrayed(b, a, bk, q, loc), a # Undef, NEW price
  PROVE  Anchored(b, price) = b
<1> DEFINE c == Anchored(b, price)
<1>1. IsArray(b) /\ b.base = a
  BY DEF Arrayed
<1>2. /\ IsArray(c) /\ c.nodes = b.nodes /\ c.free = b.free /\ c.id_map = b.id_map /\ c.levels = b.levels
      /\ c.best = b.best /\ c.error = b.error /\ c.base = (IF b.base = Undef THEN price ELSE b.base)
  BY <1>1, AnchoredIs
<1> HIDE DEF c
<1>3. c = b
  BY <1>1, <1>2, ArrayEquals
<1> QED
  BY <1>3 DEF c

\* An array without a middle is empty, and gets one.
LEMMA AnchoredFirst ==
  ASSUME NEW b, NEW bk, NEW q, NEW loc, Arrayed(b, Undef, bk, q, loc), NEW price \in Prices
  PROVE  Arrayed(Anchored(b, price), price, bk, q, loc) /\ Anchored(b, price).error = b.error
<1> DEFINE c == Anchored(b, price)
<1>1. IsArray(b) /\ b.base = Undef /\ OnSpots(q)
  BY DEF Arrayed
<1>2. /\ IsArray(c) /\ c.nodes = b.nodes /\ c.free = b.free /\ c.id_map = b.id_map /\ c.levels = b.levels
      /\ c.best = b.best /\ c.error = b.error /\ c.base = price
  BY <1>1, AnchoredIs
<1> HIDE DEF c
<1>3. Shelf(MaxOrders, IdMapCapacity, b, bk, q, loc)
  BY DEF Arrayed
<1>4. Shelf(MaxOrders, IdMapCapacity, c, bk, q, loc)
  BY <1>2, <1>3, ShelfSame
<1>5. \A at \in DOMAIN q : q[at] = <<>>
  BY NoneReached DEF Arrayed, Within
<1>6. Within(price, q)
  BY <1>5 DEF Within
<1>7. ASSUME NEW side \in Sides
      PROVE  Buckets(price, side, c.levels[side], bk, q, loc) /\ BestIs(side, c.best[side], q)
  <2> DEFINE lv == c.levels[side]
  <2>1. Buckets(Undef, side, lv, bk, q, loc) /\ BestIs(side, c.best[side], q)
    BY <1>2 DEF Arrayed
  <2> HIDE DEF lv
  <2>2. lv = [i \in Places |-> lv[i]] /\ \A i \in Places : lv[i] = NoLevel
    BY <2>1, NoneReached DEF Buckets, BucketAt
  <2>3. \A p \in PricesOf(side) : Slot(bk, q, loc, <<side, p>>) = NoLevel
    BY <1>1, <1>5, PricesAre DEF Slot, OnSpots
  <2>4. Buckets(price, side, lv, bk, q, loc)
    BY <2>2, <2>3 DEF Buckets
  <2> QED
    BY <2>1, <2>4 DEF lv
<1>8. Arrayed(c, price, bk, q, loc)
  BY <1>1, <1>2, <1>4, <1>6, <1>7 DEF Arrayed
<1> QED
  BY <1>2, <1>8 DEF c

\* add_order finds the bucket of a price its own or empty, whatever it held before.
LEMMA AddIs ==
  ASSUME NEW b, NEW a \in Prices, NEW bk, NEW q, NEW loc, NEW id, NEW side \in Sides, NEW price \in PricesOf(side),
         NEW size, NEW m, AsksFor(m, id, side, price, size),
         NEW c, c = Anchored(b, price), Arrayed(c, a, bk, q, loc), NEW i, i = IndexOf(a, price)
  PROVE  /\ ~ReachedFrom(a, price) => AddOrder(b, m) = c
         /\ ReachedFrom(a, price) =>
              /\ BucketAt(a, side, i, price)
              /\ c.free = <<>> => AddOrder(b, m) = Throw(c, Thrown)
              /\ c.free # <<>> => AddOrder(b, m) = Placed(c, m, i)
<1>1. m.side = side /\ m.price = price
  BY DEF AsksFor
<1>2. price \in Prices /\ price \in Nat \ {0}
  BY PricesAre
<1>3. c.base = a /\ (i # NoIndex <=> ReachedFrom(a, price))
  BY <1>2, GridIs DEF Arrayed
<1> DEFINE level == c.levels[side][i]
<1>4. AddOrder(b, m) = IF i = NoIndex THEN c
                       ELSE IF level.total_qty > 0 /\ level.price # price THEN Throw(c, "DirectArrayLOB Collision")
                       ELSE IF Pool!Exhausted(c.free) THEN Throw(c, "ObjectPool exhausted")
                       ELSE Placed(c, m, i)
  BY <1>1, <1>3, Zenon DEF AddOrder
<1>5. ASSUME ReachedFrom(a, price)
      PROVE  BucketAt(a, side, i, price) /\ ~(level.total_qty > 0 /\ level.price # price)
  <2> DEFINE at == <<side, price>>
  <2>1. BucketAt(a, side, i, price)
    BY <1>5 DEF BucketAt
  <2>2. SlotSays(level, bk, q, loc, at) /\ at[2] = price
    BY <2>1, BucketIs
  <2> HIDE DEF level, at
  <2>3. level.total_qty > 0 => level.price = price
    BY <2>2 DEF SlotSays
  <2> QED
    BY <2>1, <2>3
<1> HIDE DEF level
<1>6. Pool!Exhausted(c.free) <=> c.free = <<>>
  BY PoolIs
<1> QED
  BY <1>3, <1>4, <1>5, <1>6, Zenon DEF Thrown

---------------------------------------------------------------------------
(* An order that rests in the array. *)

\* The order at place p of the queue at a side and price lies in node n, its price has bucket i.
Sits(a, bk, q, loc, id, side, price, p, n, i) ==
  /\ id \in DOMAIN bk /\ side \in Sides /\ bk[id].side = side /\ bk[id].price = price
  /\ BucketAt(a, side, i, price) /\ IsPlace(q, loc, <<side, price>>, p, id, n)

\* Every order of the array sits somewhere.
LEMMA SitsSomewhere ==
  ASSUME NEW b, NEW a, NEW bk, NEW q, NEW loc, Arrayed(b, a, bk, q, loc), NEW id \in DOMAIN bk
  PROVE  \E p : Sits(a, bk, q, loc, id, bk[id].side, bk[id].price, p, loc[id], IndexOf(a, bk[id].price))
<1> DEFINE side == bk[id].side
           price == bk[id].price
           at == <<side, price>>
<1>1. side \in Sides /\ price \in PricesOf(side) /\ SpotOf(bk[id]) = at /\ at[2] = price
  BY DEF Arrayed, FromFeed, SpotOf
<1>2. Queues(bk, q)
  BY DEF Arrayed, Shelf
<1>3. PICK p : IsPlace(q, loc, at, p, id, loc[id])
  BY <1>1, <1>2, OrderPlaced
<1>4. at \in DOMAIN q /\ q[at] # <<>>
  <2>1. q[at] \in Seq(DOMAIN bk) /\ at \in DOMAIN q /\ p \in 1..Len(q[at])
    BY <1>2, <1>3, QueueHolds DEF IsPlace
  <2> QED
    BY <2>1
<1> HIDE DEF at
<1>5. ReachedFrom(a, price)
  BY <1>1, <1>4 DEF Arrayed, Within
<1>6. BucketAt(a, side, IndexOf(a, price), price)
  BY <1>1, <1>5 DEF BucketAt
<1> QED
  BY <1>1, <1>3, <1>6 DEF Sits, at

\* What is known of an order that sits in the array, and of its node.
LEMMA SitsIs ==
  ASSUME NEW b, NEW a, NEW bk, NEW q, NEW loc, Arrayed(b, a, bk, q, loc),
         NEW id, NEW side, NEW price, NEW p, NEW n, NEW i, Sits(a, bk, q, loc, id, side, price, p, n, i),
         NEW at, at = <<side, price>>, NEW next, next = NextOf(loc, q[at], p), NEW prev, prev = PrevOf(loc, q[at], p)
  PROVE  /\ at \in DOMAIN q /\ p \in 1..Len(q[at]) /\ q[at][p] = id /\ loc[id] = n /\ SpotOf(bk[id]) = at
         /\ n \in 0..(MaxOrders - 1) /\ n # None /\ NodeOf(b, id) = n
         /\ IsNode(b.nodes[n], id, side, price, bk[id].size, next, prev)
         /\ b.nodes[n].order_id = id /\ b.nodes[n].side = side /\ b.nodes[n].price = price
         /\ b.nodes[n].size = bk[id].size /\ b.nodes[n].next_idx = next /\ b.nodes[n].prev_idx = prev
         /\ bk[id].size \in Nat \ {0} /\ bk[id].size <= TotalAt(bk, at) /\ q[at] # <<>>
<1>1. Shelf(MaxOrders, IdMapCapacity, b, bk, q, loc) /\ IsPlace(q, loc, at, p, id, n)
  BY DEF Arrayed, Sits
<1>2. at \in DOMAIN q /\ p \in 1..Len(q[at]) /\ q[at][p] = id /\ loc[id] = n /\ SpotOf(bk[id]) = at
  BY <1>1 DEF IsPlace, Sits, SpotOf
<1>3. n \in 0..(MaxOrders - 1) /\ Hash(IdMapCapacity)!Find(b.id_map, id) = n /\ n # NoLink
  BY <1>1, ConstantsAre, PlaceFound
<1>4. NodeOf(b, id) = n /\ n # None
  BY <1>3, FindIsHash DEF NodeOf, None, NoLink
<1>5. NodeHolds(b.nodes[n], id, at, bk[id].size, next, prev) /\ bk[id].size \in Nat \ {0}
  BY <1>1, NodeAtIs
<1>6. at[1] = side /\ at[2] = price
  OBVIOUS
<1> DEFINE node == b.nodes[n]
           size == bk[id].size
<1>7. node = [order_id |-> id, side |-> side, price |-> price, size |-> size, next_idx |-> next, prev_idx |-> prev]
  BY <1>5, <1>6 DEF NodeHolds
<1> HIDE DEF node, size
<1>8. /\ IsNode(node, id, side, price, size, next, prev) /\ node.order_id = id /\ node.side = side /\ node.price = price
      /\ node.size = size /\ node.next_idx = next /\ node.prev_idx = prev
  BY <1>7 DEF IsNode
<1>9. bk[id].size <= TotalAt(bk, at)
  <2>1. IsBook(bk) /\ Queues(bk, q) /\ id \in HoldersAt(bk, at)
    BY <1>1, <1>2 DEF Shelf, HoldersAt, Sits
  <2> QED
    BY <1>2, <2>1, TotalIs
<1>10. q[at] # <<>>
  <2>1. q[at] \in Seq(DOMAIN bk)
    BY <1>1, <1>2, QueueHolds DEF Shelf
  <2> QED
    BY <1>2, <2>1
<1> QED
  BY <1>2, <1>3, <1>4, <1>5, <1>8, <1>9, <1>10 DEF node, size

\* Node n has another size, and the level at bucket i another total.
NodesResized(nodes, n, size) == [nodes EXCEPT ![n].size = size]
ResizedTo(b, b2, n, size, side, i, total) ==
  b2 = [b EXCEPT !.nodes[n].size = size, !.levels[side][i].total_qty = total]

\* A node gets another size, and its bucket another total.
LEMMA SizeSet ==
  ASSUME NEW b, IsArray(b), NEW side \in Sides, NEW row, b.levels[side] = row, IsRow(row), NEW i \in Places,
         NEW r, row[i] = r, IsLevel(r), NEW n, NEW size, NEW total,
         NEW b2, ResizedTo(b, b2, n, size, side, i, total)
  PROVE  \E row2, r2 : /\ Replaced(row, row2, i, r2) /\ LevelOf(r2, r.price, total, r.head_idx, r.tail_idx)
                       /\ Becomes(b, b2, NodesResized(b.nodes, n, size), b.free, b.id_map, side, row2, b.best[side])
<1> DEFINE nodes == NodesResized(b.nodes, n, size)
<1>1. b2 = [b EXCEPT !.nodes = nodes, !.levels[side][i].total_qty = total]
  BY DEF ResizedTo, NodesResized
<1> HIDE DEF nodes
<1>2. \E row2, r2 : /\ Replaced(row, row2, i, r2) /\ LevelOf(r2, r.price, total, r.head_idx, r.tail_idx)
                    /\ Becomes(b, b2, nodes, b.free, b.id_map, side, row2, b.best[side])
  BY <1>1, TotalChanged
<1> QED
  BY <1>2 DEF nodes

\* An order has another size: its level counts it.
LEMMA ResizedGood ==
  ASSUME NEW b, NEW a, NEW bk, NEW q, NEW loc, Arrayed(b, a, bk, q, loc),
         NEW id, NEW side, NEW price, NEW p, NEW n, NEW i, Sits(a, bk, q, loc, id, side, price, p, n, i),
         NEW at, at = <<side, price>>, NEW size \in Nat \ {0}, NEW total, total = TotalAt(bk, at) - bk[id].size + size,
         NEW b2, ResizedTo(b, b2, n, size, side, i, total)
  PROVE  Arrayed(b2, a, Sized(bk, id, size), q, loc) /\ b2.error = b.error
<1> DEFINE row == b.levels[side]
           r == row[i]
           bk2 == Sized(bk, id, size)
           nodes2 == NodesResized(b.nodes, n, size)
<1>1. side \in Sides /\ BucketAt(a, side, i, price) /\ id \in DOMAIN bk
  BY DEF Sits
<1>2. /\ i \in Places /\ at \in DOMAIN q /\ at[2] = price /\ IsRow(row) /\ SlotSays(r, bk, q, loc, at)
  BY <1>1, BucketIs
<1>3. /\ IsArray(b) /\ Shelf(MaxOrders, IdMapCapacity, b, bk, q, loc) /\ OnSpots(q) /\ FromFeed(bk) /\ Within(a, q)
      /\ BestIs(side, b.best[side], q)
  BY <1>1 DEF Arrayed
<1>4. SpotOf(bk[id]) = at /\ loc[id] = n /\ q[at] # <<>>
  BY SitsIs
<1>5. IsLevel(r) /\ r.price = price /\ r.head_idx = HeadOf(loc, q[at]) /\ r.tail_idx = TailOf(loc, q[at])
  BY <1>2, <1>4 DEF SlotSays
<1> HIDE DEF row, r
<1>6. PICK row2, r2 : /\ Replaced(row, row2, i, r2) /\ LevelOf(r2, r.price, total, r.head_idx, r.tail_idx)
                      /\ Becomes(b, b2, nodes2, b.free, b.id_map, side, row2, b.best[side])
  <2>1. b.levels[side] = row /\ row[i] = r
    BY DEF row, r
  <2> QED
    BY <1>1, <1>2, <1>3, <1>5, <2>1, SizeSet
<1> HIDE DEF nodes2, bk2
<1>7. b2.nodes = nodes2 /\ b2.free = b.free /\ b2.id_map = b.id_map
  <2>1. Parts(b, b2, nodes2, b.free, b.id_map, side, row2, b.best[side])
    BY <1>1, <1>3, <1>6, BecomesIs
  <2> QED
    BY <2>1 DEF Parts
<1>8. Shelf(MaxOrders, IdMapCapacity, b2, bk2, q, loc)
  <2>1. NodeSized(b, b2, loc[id], size)
    BY <1>4, <1>7 DEF NodeSized, nodes2, NodesResized
  <2>2. Shelf(MaxOrders, IdMapCapacity, b2, Sized(bk, id, size), q, loc)
    BY <1>1, <1>3, <1>7, <2>1, ConstantsAre, ShelfSized
  <2> QED
    BY <2>2 DEF bk2
<1>9. IsBook(bk)
  BY <1>3 DEF Shelf
<1>10. /\ LevelOf(LevelRecord(bk2, q, loc, at), price, total, HeadOf(loc, q[at]), TailOf(loc, q[at]))
       /\ SameElse(at, bk, q, loc, bk2, q, loc)
  <2>1. LevelRecord(Sized(bk, id, size), q, loc, at) =
              [price |-> at[2], total_qty |-> TotalAt(bk, at) - bk[id].size + size,
               head_idx |-> HeadOf(loc, q[at]), tail_idx |-> TailOf(loc, q[at])]
    BY <1>1, <1>4, <1>9, LevelSized
  <2>2. \A s : s # at => LevelRecord(Sized(bk, id, size), q, loc, s) = LevelRecord(bk, q, loc, s)
    BY <1>1, <1>4, <1>9, LevelSized
  <2> QED
    BY <1>2, <2>1, <2>2 DEF bk2, LevelOf, SameElse
<1>11. FromFeed(bk2)
  <2>1. DOMAIN Sized(bk, id, size) = DOMAIN bk /\ \A x \in DOMAIN bk : Sized(bk, id, size)[x].side = bk[x].side
           /\ Sized(bk, id, size)[x].price = bk[x].price
    BY <1>1, <1>9, RestingSized
  <2> QED
    BY <1>3, <2>1 DEF FromFeed, bk2
<1>12. IsSlot(r2, bk2, q, loc, at)
  <2>1. r2 = LevelRecord(bk2, q, loc, at)
    BY <1>5, <1>6, <1>10 DEF LevelOf
  <2> QED
    BY <1>4, <2>1 DEF IsSlot, Slot
<1>13. Arrayed(b2, a, bk2, q, loc) /\ b2.error = b.error
  BY <1>1, <1>2, <1>3, <1>6, <1>8, <1>10, <1>11, <1>12, ArrayedAgain DEF row
<1> QED
  BY <1>13 DEF bk2

---------------------------------------------------------------------------
(* An order is cancelled. *)

\* What a cancel takes of an order is no more than there is.
LEMMA TakenIs ==
  ASSUME NEW size \in Nat, NEW asked \in Nat
  PROVE  Taken(size, asked) = IF asked < size THEN asked ELSE size
<1>1. IsFiniteSet({size, asked}) /\ {size, asked} \in SUBSET Int /\ {size, asked} # {}
  <2>1. IsFiniteSet({size}) /\ {size, asked} = {size} \cup {asked}
    BY FS_Singleton
  <2>2. IsFiniteSet({size, asked})
    BY <2>1, FS_AddElement
  <2> QED
    BY <2>2
<1>2. Min({size, asked}) \in {size, asked} /\ \A y \in {size, asked} : Min({size, asked}) <= y
  BY <1>1, LeastElement
<1> QED
  BY <1>2 DEF Taken

\* cancel_order first takes what it can from the order and its level.
LEMMA CancelIs ==
  ASSUME NEW b, NEW a, NEW bk, NEW q, NEW loc, Arrayed(b, a, bk, q, loc),
         NEW id, NEW side, NEW price, NEW p, NEW n, NEW i, Sits(a, bk, q, loc, id, side, price, p, n, i),
         NEW at, at = <<side, price>>, NEW size, size = bk[id].size, NEW asked, NEW taken, taken = Taken(size, asked)
  PROVE  \E left : /\ ResizedTo(b, left, n, size - taken, side, i, TotalAt(bk, at) - taken)
                   /\ CancelOrder(b, id, asked) = IF size = taken THEN Removed(left, n, i) ELSE left
<1>1. side \in Sides /\ BucketAt(a, side, i, price)
  BY DEF Sits
<1>2. /\ n # None /\ NodeOf(b, id) = n /\ b.nodes[n].side = side /\ b.nodes[n].price = price /\ b.nodes[n].size = size
  BY SitsIs
<1>3. i # NoIndex /\ IndexOf(b.base, price) = i /\ b.levels[side][i].total_qty = TotalAt(bk, at)
  BY <1>1, BucketIs DEF SlotSays
<1> DEFINE left == [b EXCEPT !.nodes[n].size = b.nodes[n].size - taken, !.levels[side][i].total_qty = b.levels[side][i].total_qty - taken]
<1>4. CancelOrder(b, id, asked) = IF size = taken THEN Removed(left, n, i) ELSE left
  <2>1. CancelOrder(b, id, asked) =
          IF n = None \/ i = NoIndex THEN b
          ELSE IF b.nodes[n].size = Taken(b.nodes[n].size, asked)
               THEN Removed([b EXCEPT !.nodes[n].size = @ - Taken(b.nodes[n].size, asked),
                                      !.levels[b.nodes[n].side][i].total_qty = @ - Taken(b.nodes[n].size, asked)], n, i)
               ELSE [b EXCEPT !.nodes[n].size = @ - Taken(b.nodes[n].size, asked),
                              !.levels[b.nodes[n].side][i].total_qty = @ - Taken(b.nodes[n].size, asked)]
    BY <1>2, <1>3 DEF CancelOrder
  <2> QED
    BY <1>2, <1>3, <2>1
<1>5. ResizedTo(b, left, n, size - taken, side, i, TotalAt(bk, at) - taken)
  <2>1. left = [b EXCEPT !.nodes[n].size = size - taken, !.levels[side][i].total_qty = TotalAt(bk, at) - taken]
    BY <1>2, <1>3
  <2> HIDE DEF left
  <2> QED
    BY <2>1 DEF ResizedTo
<1> QED
  BY <1>4, <1>5

\* An order of which a part is cancelled stays.
LEMMA PartGood ==
  ASSUME NEW b, NEW a, NEW bk, NEW q, NEW loc, Arrayed(b, a, bk, q, loc), NEW id \in DOMAIN bk,
         NEW asked \in Nat, asked < bk[id].size, NEW size, size = bk[id].size - asked,
         NEW b2, b2 = CancelOrder(b, id, asked)
  PROVE  Arrayed(b2, a, Sized(bk, id, size), q, loc) /\ b2.error = b.error
<1> DEFINE side == bk[id].side
           price == bk[id].price
           n == loc[id]
           i == IndexOf(a, price)
           old == bk[id].size
           at == <<side, price>>
<1>1. PICK p : Sits(a, bk, q, loc, id, side, price, p, n, i)
  BY SitsSomewhere
<1>2. old \in Nat \ {0} /\ side \in Sides /\ BucketAt(a, side, i, price)
  BY <1>1, SitsIs DEF Sits
<1>3. Taken(old, asked) = asked
  BY <1>2, TakenIs
<1>4. TotalAt(bk, at) \in Nat
  BY <1>2, BucketIs DEF SlotSays
<1>5. size \in Nat \ {0} /\ TotalAt(bk, at) - asked = TotalAt(bk, at) - bk[id].size + size
  BY <1>2, <1>4
<1>6. PICK left : /\ ResizedTo(b, left, n, old - asked, side, i, TotalAt(bk, at) - asked)
                  /\ CancelOrder(b, id, asked) = IF old = asked THEN Removed(left, n, i) ELSE left
  <2> HIDE DEF side, price, n, i
  <2> QED
    BY <1>1, <1>3, CancelIs
<1>7. b2 = left /\ ResizedTo(b, b2, n, size, side, i, TotalAt(bk, at) - asked)
  BY <1>2, <1>6
<1> HIDE DEF side, price, n, i
<1> QED
  BY <1>1, <1>5, <1>7, ResizedGood

\* A bucket gets another level.
ChangedTo(b, b2, nodes, free, map, side, i, e) ==
  b2 = [b EXCEPT !.nodes = nodes, !.id_map = map, !.free = free, !.levels[side][i] = e]

\* One bucket changes, and with it the nodes, the map and the free nodes.
LEMMA LevelSet ==
  ASSUME NEW b, IsArray(b), NEW side \in Sides, NEW row, b.levels[side] = row, NEW i \in Places,
         NEW nodes, NEW free, NEW map, NEW e, NEW b2, ChangedTo(b, b2, nodes, free, map, side, i, e)
  PROVE  \E row2 : Replaced(row, row2, i, e) /\ Becomes(b, b2, nodes, free, map, side, row2, b.best[side])
<1> DEFINE ls == b.levels
           row2 == [row EXCEPT ![i] = e]
           ls2 == [ls EXCEPT ![side] = row2]
<1>1. b.best = [s \in Sides |-> b.best[s]]
  BY DEF IsArray
<1>2. b2 = [b EXCEPT !.nodes = nodes, !.id_map = map, !.free = free, !.levels = ls2]
  BY DEF ChangedTo
<1> HIDE DEF ls2
<1>3. [b.best EXCEPT ![side] = b.best[side]] = b.best
  BY <1>1
<1>4. b2 = [nodes |-> nodes, free |-> free, id_map |-> map, levels |-> ls2, best |-> b.best, base |-> b.base, error |-> b.error]
  BY <1>2 DEF IsArray
<1>5. Becomes(b, b2, nodes, free, map, side, row2, b.best[side])
  BY <1>3, <1>4 DEF Becomes, ls2
<1> QED
  BY <1>5 DEF Replaced

\* What is left at a bucket by an order that leaves.
LevelLeft(r, price, total, head, tail) == IF total = 0 THEN r = NoLevel ELSE LevelOf(r, price, total, head, tail)
NodesGone(nodes, n, next, prev) == [NodesUnlinked(nodes, next, prev) EXCEPT ![n] = NoNode]

\* The node of an order is given back.
LEMMA RemovedIs ==
  ASSUME NEW b, IsArray(b), NEW side \in Sides, NEW row, b.levels[side] = row, IsRow(row), NEW i \in Places,
         NEW r, row[i] = r, IsLevel(r), NEW n, NEW id, NEW next, NEW prev,
         b.nodes[n].side = side, b.nodes[n].order_id = id, b.nodes[n].next_idx = next, b.nodes[n].prev_idx = prev,
         NEW head, head = (IF prev = None THEN next ELSE r.head_idx),
         NEW tail, tail = (IF next = None THEN prev ELSE r.tail_idx),
         NEW c, c = RemovedKeepingBest(b, n, i)
  PROVE  \E row2, r2 : /\ Replaced(row, row2, i, r2) /\ LevelLeft(r2, r.price, r.total_qty, head, tail)
                       /\ Becomes(b, c, NodesGone(b.nodes, n, next, prev), Append(b.free, n),
                                  Hash(IdMapCapacity)!Erase(b.id_map, id), side, row2, b.best[side])
<1> DEFINE nodes1 == NodesUnlinked(b.nodes, next, prev)
           nodes2 == NodesGone(b.nodes, n, next, prev)
           free2 == Append(b.free, n)
           map2 == Hash(IdMapCapacity)!Erase(b.id_map, id)
           u == Unlinked(b, side, i, n)
<1>1. PICK row1, r1 : /\ Replaced(row, row1, i, r1) /\ LevelOf(r1, r.price, r.total_qty, head, tail)
                      /\ Becomes(b, u, nodes1, b.free, b.id_map, side, row1, b.best[side])
  <2> HIDE DEF u
  <2>1. \E row1, r1 : /\ Replaced(row, row1, i, r1) /\ LevelOf(r1, r.price, r.total_qty, head, tail)
                      /\ Becomes(b, Unlinked(b, side, i, n), NodesUnlinked(b.nodes, next, prev), b.free, b.id_map,
                                 side, row1, b.best[side])
    BY UnlinkedBecomes
  <2> QED
    BY <2>1 DEF u
<1> HIDE DEF nodes1, u
<1>2. Parts(b, u, nodes1, b.free, b.id_map, side, row1, b.best[side])
  BY <1>1, BecomesIs
<1>3. IsRow(row1) /\ row1[i] = r1
  BY <1>1, ReplacedIs
<1>4. /\ IsArray(u) /\ u.levels[side] = row1 /\ u.levels[side][i] = r1 /\ u.nodes = nodes1 /\ u.free = b.free /\ u.id_map = b.id_map
      /\ u.best[side] = b.best[side]
  BY <1>2, <1>3 DEF Parts
<1> DEFINE e == IF r1.total_qty = 0 THEN NoLevel ELSE r1
<1>5. ChangedTo(u, c, nodes2, free2, map2, side, i, e)
  <2>1. Pool!AfterDeallocate(u.free, n) = free2 /\ IdMap!Erase(u.id_map, id) = map2
    BY <1>4, PoolIs, EraseIsHash
  <2>2. nodes2 = [u.nodes EXCEPT ![n] = NoNode]
    BY <1>4 DEF nodes1, NodesGone
  <2> HIDE DEF nodes2, free2, map2
  <2>3. c = [u EXCEPT !.nodes[n] = NoNode, !.id_map = IdMap!Erase(@, id), !.free = Pool!AfterDeallocate(@, n),
                      !.levels[side][i] = IF @.total_qty = 0 THEN NoLevel ELSE @]
    BY DEF RemovedKeepingBest, u
  <2>4. c = [u EXCEPT !.nodes = nodes2, !.id_map = map2, !.free = free2,
                      !.levels[side][i] = IF u.levels[side][i].total_qty = 0 THEN NoLevel ELSE u.levels[side][i]]
    BY <2>1, <2>2, <2>3
  <2> QED
    BY <1>4, <2>4 DEF ChangedTo
<1> HIDE DEF nodes2, free2, map2, e
<1>6. PICK row2 : Replaced(row1, row2, i, e) /\ Becomes(u, c, nodes2, free2, map2, side, row2, u.best[side])
  BY <1>4, <1>5, LevelSet
<1>7. Becomes(b, c, nodes2, free2, map2, side, row2, b.best[side])
  BY <1>1, <1>4, <1>6, BecomesTwice
<1>8. Replaced(row, row2, i, e)
  BY <1>1, <1>6, ReplacedTwice
<1>9. LevelLeft(e, r.price, r.total_qty, head, tail)
  <2>1. r1.total_qty = r.total_qty
    BY <1>1 DEF LevelOf
  <2> QED
    BY <1>1, <2>1 DEF LevelLeft, e
<1> QED
  BY <1>7, <1>8, <1>9 DEF nodes2, free2, map2

\* cancel_order, when nothing is left of an order.
LEMMA LeavesIs ==
  ASSUME NEW b, NEW a, NEW bk, NEW q, NEW loc, Arrayed(b, a, bk, q, loc),
         NEW id, NEW side, NEW price, NEW p, NEW n, NEW i, Sits(a, bk, q, loc, id, side, price, p, n, i),
         NEW at, at = <<side, price>>, NEW total, total = TotalAt(bk, at) - bk[id].size,
         NEW next, next = NextOf(loc, q[at], p), NEW prev, prev = PrevOf(loc, q[at], p),
         NEW head, head = (IF prev = None THEN next ELSE HeadOf(loc, q[at])),
         NEW tail, tail = (IF next = None THEN prev ELSE TailOf(loc, q[at])),
         NEW asked \in Nat, bk[id].size <= asked
  PROVE  \E row2, r2, c :
           /\ Replaced(b.levels[side], row2, i, r2) /\ LevelLeft(r2, price, total, head, tail)
           /\ Becomes(b, c, NodesGone(NodesResized(b.nodes, n, 0), n, next, prev), Append(b.free, n),
                      Hash(IdMapCapacity)!Erase(b.id_map, id), side, row2, b.best[side])
           /\ CancelOrder(b, id, asked) = IF total = 0 /\ price = b.best[side] THEN Rescanned(c, side) ELSE c
<1> DEFINE row == b.levels[side]
           r == row[i]
           size == bk[id].size
           nodes1 == NodesResized(b.nodes, n, 0)
<1>1. side \in Sides /\ BucketAt(a, side, i, price) /\ IsArray(b)
  BY DEF Sits, Arrayed
<1>2. /\ i \in Places /\ at \in DOMAIN q /\ at[2] = price /\ IsRow(row) /\ SlotSays(r, bk, q, loc, at)
  BY <1>1, BucketIs
<1>3. /\ n \in 0..(MaxOrders - 1) /\ q[at] # <<>> /\ size \in Nat \ {0} /\ size <= TotalAt(bk, at)
      /\ IsNode(b.nodes[n], id, side, price, size, next, prev)
  BY SitsIs
<1>4. /\ IsLevel(r) /\ r.price = price /\ r.total_qty = TotalAt(bk, at) /\ TotalAt(bk, at) \in Nat
      /\ r.head_idx = HeadOf(loc, q[at]) /\ r.tail_idx = TailOf(loc, q[at])
  BY <1>2, <1>3 DEF SlotSays
<1>5. Taken(size, asked) = size
  BY <1>3, TakenIs
<1> HIDE DEF row, r, size
<1>6. PICK left : /\ ResizedTo(b, left, n, 0, side, i, total) /\ CancelOrder(b, id, asked) = Removed(left, n, i)
  <2>1. size - size = 0 /\ total = TotalAt(bk, at) - size
    BY <1>3 DEF size
  <2>2. \E left : /\ ResizedTo(b, left, n, size - size, side, i, TotalAt(bk, at) - size)
                  /\ CancelOrder(b, id, asked) = IF size = size THEN Removed(left, n, i) ELSE left
    BY <1>5, CancelIs DEF size
  <2> QED
    BY <2>1, <2>2
<1>7. PICK row1, r1 : /\ Replaced(row, row1, i, r1) /\ LevelOf(r1, price, total, r.head_idx, r.tail_idx)
                      /\ Becomes(b, left, nodes1, b.free, b.id_map, side, row1, b.best[side])
  <2>1. b.levels[side] = row /\ row[i] = r
    BY DEF row, r
  <2>2. \E row1, r1 : /\ Replaced(row, row1, i, r1) /\ LevelOf(r1, r.price, total, r.head_idx, r.tail_idx)
                      /\ Becomes(b, left, NodesResized(b.nodes, n, 0), b.free, b.id_map, side, row1, b.best[side])
    BY <1>1, <1>2, <1>4, <1>6, <2>1, SizeSet
  <2> QED
    BY <1>4, <2>2
<1>8. nodes1[n].order_id = id /\ nodes1[n].side = side /\ nodes1[n].price = price
      /\ nodes1[n].next_idx = next /\ nodes1[n].prev_idx = prev
  <2> DEFINE f == b.nodes
             node == f[n]
  <2>1. f = [k \in 0..(MaxOrders - 1) |-> f[k]]
    BY DEF Arrayed, Shelf, Holding
  <2>2. nodes1 = [f EXCEPT ![n] = [f[n] EXCEPT !.size = 0]]
    BY DEF NodesResized
  <2>3. node = [order_id |-> id, side |-> side, price |-> price, size |-> size, next_idx |-> next, prev_idx |-> prev]
    BY <1>3 DEF IsNode
  <2> HIDE DEF f, nodes1
  <2>4. nodes1[n] = [node EXCEPT !.size = 0]
    BY <1>3, <2>1, <2>2
  <2> HIDE DEF node
  <2> QED
    BY <2>3, <2>4
<1> HIDE DEF nodes1
<1>9. Parts(b, left, nodes1, b.free, b.id_map, side, row1, b.best[side])
  BY <1>1, <1>7, BecomesIs
<1>10. IsRow(row1) /\ row1[i] = r1
  <2>1. IsRow(row)
    BY <1>2
  <2> QED
    BY <1>2, <1>7, <2>1, ReplacedIs
<1>11. IsLevel(r1) /\ r1.price = price /\ r1.total_qty = total /\ r1.head_idx = r.head_idx /\ r1.tail_idx = r.tail_idx
  BY <1>7 DEF LevelOf, IsLevel
<1>12. /\ IsArray(left) /\ left.levels[side] = row1 /\ left.nodes = nodes1 /\ left.free = b.free /\ left.id_map = b.id_map
       /\ left.best[side] = b.best[side]
  BY <1>9 DEF Parts
<1> DEFINE c == RemovedKeepingBest(left, n, i)
           nodes2 == NodesGone(nodes1, n, next, prev)
           free2 == Append(b.free, n)
           map2 == Hash(IdMapCapacity)!Erase(b.id_map, id)
<1>13. PICK row2, r2 : /\ Replaced(row1, row2, i, r2) /\ LevelLeft(r2, price, total, head, tail)
                       /\ Becomes(left, c, nodes2, free2, map2, side, row2, b.best[side])
  <2>1. /\ left.nodes[n].side = side /\ left.nodes[n].order_id = id /\ left.nodes[n].next_idx = next
        /\ left.nodes[n].prev_idx = prev
        /\ head = (IF prev = None THEN next ELSE r1.head_idx) /\ tail = (IF next = None THEN prev ELSE r1.tail_idx)
        /\ c = RemovedKeepingBest(left, n, i)
    BY <1>4, <1>8, <1>11, <1>12
  <2> HIDE DEF c
  <2>2. \E row2, r2 : /\ Replaced(row1, row2, i, r2) /\ LevelLeft(r2, r1.price, r1.total_qty, head, tail)
                      /\ Becomes(left, c, NodesGone(left.nodes, n, next, prev), Append(left.free, n),
                                 Hash(IdMapCapacity)!Erase(left.id_map, id), side, row2, left.best[side])
    BY <1>1, <1>2, <1>10, <1>11, <1>12, <2>1, RemovedIs
  <2> QED
    BY <1>11, <1>12, <2>2
<1>14. c.best[side] = b.best[side] /\ c.levels[side] = row2 /\ row2[i] = r2
  <2> HIDE DEF c, nodes2, free2, map2
  <2>1. Parts(left, c, nodes2, free2, map2, side, row2, b.best[side])
    BY <1>1, <1>12, <1>13, BecomesIs
  <2>2. row2[i] = r2
    BY <1>2, <1>10, <1>13, ReplacedIs
  <2> QED
    BY <2>1, <2>2 DEF Parts
<1>15. CancelOrder(b, id, asked) = IF total = 0 /\ price = b.best[side] THEN Rescanned(c, side) ELSE c
  <2>1. left.nodes[n].side = side /\ left.nodes[n].price = price
    BY <1>8, <1>12
  <2>2. Removed(left, n, i) = IF c.levels[side][i].total_qty = 0 /\ price = c.best[side] THEN Rescanned(c, side) ELSE c
    BY <2>1, Zenon DEF Removed
  <2>3. c.levels[side][i].total_qty = total
    <3>1. r2.total_qty = total
      BY <1>13 DEF LevelLeft, LevelOf, NoLevel
    <3> QED
      BY <1>14, <3>1
  <2> HIDE DEF c
  <2> QED
    BY <1>6, <1>14, <2>2, <2>3
<1> HIDE DEF c, nodes2, free2, map2
<1>16. Becomes(b, c, nodes2, free2, map2, side, row2, b.best[side])
  BY <1>1, <1>7, <1>13, BecomesTwice
<1>17. Replaced(row, row2, i, r2)
  BY <1>2, <1>7, <1>13, ReplacedTwice
<1> QED
  BY <1>13, <1>15, <1>16, <1>17 DEF row, nodes2, free2, map2, nodes1

\* A price is alive when orders within reach rest at it.
LEMMA AliveIs ==
  ASSUME NEW b, NEW bk, NEW q, NEW loc, Shelf(MaxOrders, IdMapCapacity, b, bk, q, loc), OnSpots(q),
         NEW a \in Prices, Within(a, q), NEW side \in Sides,
         NEW c, c.base = a, Buckets(a, side, c.levels[side], bk, q, loc), NEW price
  PROVE  IsAlive(c, side, price) <=> price \in PricesOf(side) /\ q[<<side, price>>] # <<>>
<1> DEFINE lv == c.levels[side]
           i == IndexOf(a, price)
           r == lv[i]
<1>1. IsAlive(c, side, price) <=> i # NoIndex /\ r.total_qty > 0 /\ r.price = price
  BY Zenon DEF IsAlive
<1>2. Buckets(a, side, lv, bk, q, loc)
  OBVIOUS
<1> HIDE DEF lv
<1>3. ASSUME i # NoIndex, r.total_qty > 0, r.price = price
      PROVE  price \in PricesOf(side) /\ q[<<side, price>>] # <<>>
  <2>1. i \in Places
    <3>1. a # Undef
      BY GridIs
    <3> QED
      BY <1>3, <3>1 DEF IndexOf
  <2>2. PICK p \in PricesOf(side) : BucketAt(a, side, i, p)
    <3> SUFFICES ASSUME \A p \in PricesOf(side) : ~BucketAt(a, side, i, p) PROVE FALSE
      OBVIOUS
    <3>1. r = NoLevel
      BY <1>2, <2>1 DEF Buckets
    <3> QED
      BY <1>3, <3>1 DEF NoLevel
  <2> DEFINE at == <<side, p>>
  <2>3. at \in DOMAIN q /\ at[2] = p
    BY PricesAre DEF OnSpots
  <2>4. IsSlot(r, bk, q, loc, at)
    BY <1>2, <2>1, <2>2 DEF Buckets, IsSlot
  <2> HIDE DEF at, r
  <2>5. SlotSays(r, bk, q, loc, at)
    BY <2>3, <2>4, SlotIs
  <2>6. q[at] # <<>> /\ r.price = p
    BY <1>3, <2>3, <2>5 DEF SlotSays
  <2> QED
    BY <1>3, <2>6 DEF at
<1>4. ASSUME price \in PricesOf(side), q[<<side, price>>] # <<>>
      PROVE  i # NoIndex /\ r.total_qty > 0 /\ r.price = price
  <2> DEFINE at == <<side, price>>
  <2>1. at \in DOMAIN q /\ at[2] = price /\ q[at] # <<>> /\ price \in Prices
    BY <1>4, PricesAre DEF OnSpots
  <2>2. ReachedFrom(a, price)
    BY <2>1 DEF Within
  <2>3. BucketAt(a, side, i, price) /\ i # NoIndex /\ i \in Places
    BY <1>4, <2>1, <2>2, GridIs DEF BucketAt
  <2>4. IsSlot(r, bk, q, loc, at)
    BY <1>2, <1>4, <2>3 DEF Buckets, IsSlot
  <2> HIDE DEF at, r, i
  <2>5. SlotSays(r, bk, q, loc, at)
    BY <2>1, <2>4, SlotIs
  <2> QED
    BY <2>1, <2>3, <2>5 DEF SlotSays
<1> QED
  BY <1>1, <1>3, <1>4

\* A multiple of T strictly between 0 and s of them.
LEMMA MultiplesAre ==
  ASSUME NEW T \in Nat \ {0}, NEW s \in Nat, NEW k \in Int, T * k > 0, T * k < s * T
  PROVE  k \in 1..(s - 1)
<1>1. k >= 1
  <2>1. SUFFICES ASSUME k <= 0 PROVE FALSE
    OBVIOUS
  <2> QED
    BY <2>1
<1>2. k < s
  <2>1. SUFFICES ASSUME k >= s PROVE FALSE
    OBVIOUS
  <2> DEFINE e == k - s
             x == T * k
             y == T * s
             z == T * e
  <2>2. e \in Nat
    BY <2>1
  <2>3. z \in Int /\ z >= 0 /\ x \in Int /\ y \in Int
    BY <2>2
  <2>4. x = y + z
    OBVIOUS
  <2>5. x < y
    OBVIOUS
  <2> HIDE DEF x, y, z
  <2> QED
    BY <2>3, <2>4, <2>5
<1> QED
  BY <1>1, <1>2

\* A price is some ticks behind every better price of its side.
LEMMA BehindIs ==
  ASSUME NEW side \in Sides, NEW best \in PricesOf(side), NEW price \in PricesOf(side), price # best,
         ~Better(side, price, best), Dense(side)
  PROVE  \E k \in 1..(ScanTicks - 1) : Behind(side, best, k) = price
<1> DEFINE T == TickSize
<1>1. PICK kb \in Nat : best = T * kb
  BY PricesAre, TicksAre
<1>2. PICK kp \in Nat : price = T * kp
  BY PricesAre, TicksAre
<1>3. T \in Nat \ {0} /\ ScanTicks \in Nat /\ best \in Nat /\ price \in Nat
  BY GridConstants, PricesAre
<1>4. best - price < ScanTicks * T /\ price - best < ScanTicks * T
  BY DEF Dense
<1>5. ASSUME NEW k \in Int, T * k > 0, T * k < ScanTicks * T PROVE k \in 1..(ScanTicks - 1)
  <2> QED
    BY <1>3, <1>5, MultiplesAre
<1>6. CASE side = "Bid"
  <2>1. price < best
    BY <1>3, <1>6 DEF Better
  <2> DEFINE k == kb - kp
  <2>2. k \in Int /\ T * k = best - price /\ T * k = k * T
    BY <1>1, <1>2, <1>3
  <2>3. k \in 1..(ScanTicks - 1)
    <3> HIDE DEF k
    <3> QED
      BY <1>3, <1>4, <1>5, <2>1, <2>2
  <2>4. Behind(side, best, k) = best - k * T
    BY <1>6 DEF Behind
  <2> HIDE DEF k
  <2>5. Behind(side, best, k) = price
    BY <1>3, <2>2, <2>4
  <2> QED
    BY <2>3, <2>5
<1>7. CASE side # "Bid"
  <2>1. price > best
    BY <1>3, <1>7 DEF Better
  <2> DEFINE k == kp - kb
  <2>2. k \in Int /\ T * k = price - best /\ T * k = k * T
    BY <1>1, <1>2, <1>3
  <2>3. k \in 1..(ScanTicks - 1)
    <3> HIDE DEF k
    <3> QED
      BY <1>3, <1>4, <1>5, <2>1, <2>2
  <2>4. Behind(side, best, k) = best + k * T
    BY <1>7 DEF Behind
  <2> HIDE DEF k
  <2>5. Behind(side, best, k) = price
    BY <1>3, <2>2, <2>4
  <2> QED
    BY <2>3, <2>5
<1> QED
  BY <1>6, <1>7

\* Of two prices behind another the nearer is not worse.
LEMMA NearerIs ==
  ASSUME NEW side, NEW best \in Nat, NEW j \in Nat, NEW k \in Nat, j <= k
  PROVE  ~Better(side, Behind(side, best, k), Behind(side, best, j))
<1> DEFINE e == k - j
           T == TickSize
<1>1. e \in Nat /\ T \in Nat /\ k * T = j * T + e * T /\ e * T >= 0 /\ j * T \in Nat /\ k * T \in Nat /\ e * T \in Nat
  BY GridConstants
<1> HIDE DEF e
<1> QED
  BY <1>1 DEF Better, Behind

\* The scan for the next best price, when the best has no orders left.
LEMMA RescanIs ==
  ASSUME NEW b, NEW bk, NEW q, NEW loc, Shelf(MaxOrders, IdMapCapacity, b, bk, q, loc), OnSpots(q),
         NEW a \in Prices, Within(a, q), NEW side \in Sides,
         NEW c, c.base = a, Buckets(a, side, c.levels[side], bk, q, loc),
         NEW best \in PricesOf(side), c.best[side] = best, q[<<side, best>>] = <<>>,
         Dense(side) => \A p \in PricesOf(side) : q[<<side, p>>] # <<>> => ~Better(side, p, best)
  PROVE  \E best2 : Rescanned(c, side) = [c EXCEPT !.best[side] = best2] /\ BestIs(side, best2, q)
<1> DEFINE found == {k \in 1..(ScanTicks - 1) : IsAlive(c, side, Behind(side, best, k))}
           best2 == IF found = {} THEN Undef ELSE Behind(side, best, Min(found))
<1>1. Rescanned(c, side) = [c EXCEPT !.best[side] = best2]
  BY DEF Rescanned
<1>2. \A k \in 1..(ScanTicks - 1) : k \in found <=>
         Behind(side, best, k) \in PricesOf(side) /\ q[<<side, Behind(side, best, k)>>] # <<>>
  BY AliveIs
<1>3. found # {} => Min(found) \in found /\ \A k \in found : Min(found) <= k
  <2>1. IsFiniteSet(1..(ScanTicks - 1))
    BY GridConstants, FS_Interval
  <2>2. IsFiniteSet(found) /\ found \in SUBSET Int
    BY <2>1, FS_Subset, GridConstants
  <2> HIDE DEF found
  <2> QED
    BY <2>2, LeastElement
<1>4. \A p \in PricesOf(side) : p # Undef /\ p \in Nat
  BY PricesAre DEF Undef
<1>5. found \subseteq 1..(ScanTicks - 1) /\ \A k \in 1..(ScanTicks - 1) : k \in Nat
  BY GridConstants
<1> HIDE DEF found
<1>6. best2 # Undef => best2 \in PricesOf(side) /\ q[<<side, best2>>] # <<>>
  BY <1>2, <1>3, <1>5
<1>7. ASSUME Dense(side), NEW p \in PricesOf(side), q[<<side, p>>] # <<>>
      PROVE  best2 # Undef /\ ~Better(side, p, best2)
  <2>1. p # best /\ ~Better(side, p, best)
    BY <1>7
  <2>2. PICK k \in 1..(ScanTicks - 1) : Behind(side, best, k) = p
    BY <1>7, <2>1, BehindIs
  <2>3. k \in found
    BY <1>2, <1>7, <2>2
  <2>4. Min(found) \in Nat /\ k \in Nat /\ Min(found) <= k /\ best2 = Behind(side, best, Min(found))
    BY <1>3, <1>5, <2>3
  <2>5. best2 # Undef
    BY <1>2, <1>3, <1>4, <1>5, <2>3, <2>4
  <2>6. ~Better(side, Behind(side, best, k), Behind(side, best, Min(found)))
    BY <1>4, <2>4, NearerIs
  <2> HIDE DEF best2
  <2> QED
    BY <2>2, <2>4, <2>5, <2>6
<1>8. BestIs(side, best2, q)
  <2> HIDE DEF best2
  <2> QED
    BY <1>6, <1>7 DEF BestIs
<1> QED
  BY <1>1, <1>8

\* The orders that change when one leaves.
LEMMA LeavesElse ==
  ASSUME NEW b, NEW a, NEW bk, NEW q, NEW loc, Arrayed(b, a, bk, q, loc),
         NEW id, NEW side, NEW price, NEW p, NEW n, NEW i, Sits(a, bk, q, loc, id, side, price, p, n, i),
         NEW at, at = <<side, price>>, NEW total, total = TotalAt(bk, at) - bk[id].size,
         NEW next, next = NextOf(loc, q[at], p), NEW prev, prev = PrevOf(loc, q[at], p),
         NEW bk2, bk2 = Shrunk(bk, id), NEW q2, q2 = Unlined(q, at, p), NEW loc2, loc2 = Shrunk(loc, id)
  PROVE  /\ OnSpots(q2) /\ FromFeed(bk2) /\ Within(a, q2)
         /\ SameElse(at, bk, q, loc, bk2, q2, loc2)
         /\ LevelOf(LevelRecord(bk2, q2, loc2, at), price, total,
                    IF prev = None THEN next ELSE HeadOf(loc, q[at]),
                    IF next = None THEN prev ELSE TailOf(loc, q[at]))
         /\ (total = 0 <=> q2[at] = <<>>)
<1>1. /\ at \in DOMAIN q /\ p \in 1..Len(q[at]) /\ q[at][p] = id /\ loc[id] = n /\ SpotOf(bk[id]) = at
      /\ b.nodes[n].next_idx = next /\ b.nodes[n].prev_idx = prev /\ q[at] # <<>>
  BY SitsIs
<1>2. Shelf(MaxOrders, IdMapCapacity, b, bk, q, loc) /\ OnSpots(q) /\ FromFeed(bk) /\ Within(a, q)
  BY DEF Arrayed
<1>3. IsBook(bk) /\ Queues(bk, q)
  BY <1>2 DEF Shelf
<1>4. DOMAIN q2 = DOMAIN q /\ q2[at] = RemoveAt(q[at], p) /\ \A s \in DOMAIN q : s # at => q2[s] = q[s]
  <2>1. q2 = [q EXCEPT ![at] = RemoveAt(q[at], p)]
    BY DEF Unlined
  <2> QED
    BY <1>1, <1>3, <2>1, QueueChanged
<1>5. OnSpots(q2)
  BY <1>2, <1>4 DEF OnSpots
<1>6. FromFeed(bk2)
  BY <1>2 DEF FromFeed, Shrunk
<1>7. Within(a, q2)
  BY <1>1, <1>2, <1>4 DEF Within
<1>8. /\ LevelRecord(bk2, q2, loc2, at) =
              [price |-> at[2], total_qty |-> TotalAt(bk, at) - bk[id].size,
               head_idx |-> IF prev = NoLink THEN next ELSE HeadOf(loc, q[at]),
               tail_idx |-> IF next = NoLink THEN prev ELSE TailOf(loc, q[at])]
      /\ \A s \in DOMAIN q : s # at => LevelRecord(bk2, q2, loc2, s) = LevelRecord(bk, q, loc, s)
  <2>1. next = b.nodes[loc[id]].next_idx /\ prev = b.nodes[loc[id]].prev_idx
    BY <1>1
  <2> QED
    BY <1>1, <1>2, <2>1, ConstantsAre, LevelWithout
<1>9. SameElse(at, bk, q, loc, bk2, q2, loc2)
  BY <1>4, <1>8 DEF SameElse
<1>10. LevelOf(LevelRecord(bk2, q2, loc2, at), price, total,
               IF prev = None THEN next ELSE HeadOf(loc, q[at]),
               IF next = None THEN prev ELSE TailOf(loc, q[at]))
  BY <1>8, PoolIs DEF LevelOf
<1>11. total = 0 <=> q2[at] = <<>>
  <2>1. IsBook(bk2) /\ Queues(bk2, q2)
    BY <1>1, <1>3, RestingWithout, QueuesWithout
  <2>2. TotalAt(bk2, at) = total
    BY <1>8 DEF LevelRecord
  <2> QED
    BY <1>1, <1>4, <2>1, <2>2, TotalIs
<1> QED
  BY <1>5, <1>6, <1>7, <1>9, <1>10, <1>11

\* The node of the order that leaves is bare, and its neighbours are linked to each other.
LEMMA GoneNodes ==
  ASSUME NEW P \in Nat, NEW b, NEW bk, NEW q, NEW loc, Holding(P, b, bk, q, loc),
         NEW n \in 0..(P - 1), NEW size, NEW next, NEW prev,
         NEW b2, b2.nodes = NodesGone(NodesResized(b.nodes, n, size), n, next, prev)
  PROVE  NodeTaken(P, b, b2, n, next, prev)
<1> DEFINE f == b.nodes
           nodes == NodesResized(f, n, size)
           u == NodesUnlinked(nodes, next, prev)
<1>1. f = [k \in 0..(P - 1) |-> f[k]]
  BY DEF Holding
<1>2. nodes = [f EXCEPT ![n] = [f[n] EXCEPT !.size = size]]
  BY DEF NodesResized
<1>3. u = NodesUnlinked(nodes, next, prev)
  OBVIOUS
<1>4. b2.nodes = [u EXCEPT ![n] = BareNode]
  BY PoolIs DEF NodesGone
<1> HIDE DEF f, nodes, u
<1>5. DOMAIN nodes = 0..(P - 1) /\ \A k \in 0..(P - 1) : k # n => nodes[k] = f[k]
  BY <1>1, <1>2
<1>6. u = [k \in 0..(P - 1) |-> IF k = prev THEN LinkedOn(nodes[k], next)
                               ELSE IF k = next THEN LinkedBack(nodes[k], prev) ELSE nodes[k]]
  BY <1>3, <1>5 DEF NodesUnlinked, LinkedOn, LinkedBack
<1>7. b2.nodes = [k \in 0..(P - 1) |-> IF k = n THEN BareNode ELSE u[k]]
  BY <1>4, <1>6
<1>8. \A k \in 0..(P - 1) : (IF k = n THEN BareNode ELSE u[k]) =
         (IF k = n THEN BareNode ELSE IF k = prev THEN LinkedOn(f[k], next)
          ELSE IF k = next THEN LinkedBack(f[k], prev) ELSE f[k])
  BY <1>5, <1>6
<1>9. b2.nodes = [k \in 0..(P - 1) |-> IF k = n THEN BareNode ELSE IF k = prev THEN LinkedOn(f[k], next)
                                       ELSE IF k = next THEN LinkedBack(f[k], prev) ELSE f[k]]
  BY <1>7, <1>8
<1> QED
  BY <1>9 DEF NodeTaken, f

\* A book with another best price.
LEMMA BestSet ==
  ASSUME NEW c, IsArray(c), NEW side \in Sides, NEW best, NEW row, c.levels[side] = row,
         NEW d, d = [c EXCEPT !.best[side] = best]
  PROVE  Becomes(c, d, c.nodes, c.free, c.id_map, side, row, best)
<1> DEFINE lv == c.levels
           bs == c.best
<1>1. c = [nodes |-> c.nodes, free |-> c.free, id_map |-> c.id_map, levels |-> lv, best |-> bs, base |-> c.base, error |-> c.error]
      /\ lv = [s \in Sides |-> lv[s]] /\ lv[side] = row
  BY DEF IsArray
<1>2. d = [c EXCEPT !.best = [bs EXCEPT ![side] = best]]
  OBVIOUS
<1> HIDE DEF lv, bs
<1>3. [lv EXCEPT ![side] = row] = lv
  BY <1>1
<1>4. d = [nodes |-> c.nodes, free |-> c.free, id_map |-> c.id_map, levels |-> lv, best |-> [bs EXCEPT ![side] = best],
           base |-> c.base, error |-> c.error]
  BY <1>1, <1>2
<1> QED
  BY <1>3, <1>4 DEF Becomes, lv, bs

\* An order of which all is cancelled is gone: its node is free, and the best price follows.
LEMMA LeavesGood ==
  ASSUME NEW b, NEW a, NEW bk, NEW q, NEW loc, Arrayed(b, a, bk, q, loc),
         NEW id, NEW side, NEW price, NEW p, NEW n, NEW i, Sits(a, bk, q, loc, id, side, price, p, n, i),
         NEW at, at = <<side, price>>, NEW asked \in Nat, bk[id].size <= asked,
         NEW b2, b2 = CancelOrder(b, id, asked)
  PROVE  /\ Arrayed(b2, a, Shrunk(bk, id), Unlined(q, at, p), Shrunk(loc, id))
         /\ b2.error = b.error /\ b2.free = Append(b.free, n)
<1> DEFINE bk2 == Shrunk(bk, id)
           q2 == Unlined(q, at, p)
           loc2 == Shrunk(loc, id)
           total == TotalAt(bk, at) - bk[id].size
           next == NextOf(loc, q[at], p)
           prev == PrevOf(loc, q[at], p)
           head == IF prev = None THEN next ELSE HeadOf(loc, q[at])
           tail == IF next = None THEN prev ELSE TailOf(loc, q[at])
           row == b.levels[side]
           best == b.best[side]
           nodes2 == NodesGone(NodesResized(b.nodes, n, 0), n, next, prev)
           free2 == Append(b.free, n)
           map2 == Hash(IdMapCapacity)!Erase(b.id_map, id)
<1>0. /\ next = NextOf(loc, q[at], p) /\ prev = PrevOf(loc, q[at], p)
      /\ total = TotalAt(bk, at) - bk[id].size /\ bk2 = Shrunk(bk, id) /\ q2 = Unlined(q, at, p) /\ loc2 = Shrunk(loc, id)
      /\ (head = IF prev = None THEN next ELSE HeadOf(loc, q[at]))
      /\ (tail = IF next = None THEN prev ELSE TailOf(loc, q[at]))
  OBVIOUS
<1>1. /\ at \in DOMAIN q /\ p \in 1..Len(q[at]) /\ q[at][p] = id /\ loc[id] = n /\ SpotOf(bk[id]) = at
      /\ n \in 0..(MaxOrders - 1) /\ b.nodes[n].next_idx = next /\ b.nodes[n].prev_idx = prev /\ q[at] # <<>>
  BY <1>0, SitsIs
<1>2. /\ IsArray(b) /\ Shelf(MaxOrders, IdMapCapacity, b, bk, q, loc) /\ OnSpots(q) /\ b.base = a
      /\ side \in Sides /\ BucketAt(a, side, i, price) /\ BestIs(side, best, q)
      /\ Buckets(a, side, row, bk, q, loc) /\ Holding(MaxOrders, b, bk, q, loc)
  BY DEF Arrayed, Sits, Shelf
<1>3. a \in Prices /\ price \in PricesOf(side) /\ i \in Places
  BY <1>2, BucketIs
<1> HIDE DEF bk2, q2, loc2, total, next, prev, head, tail
<1>4. PICK row2, r2, c :
           /\ Replaced(row, row2, i, r2) /\ LevelLeft(r2, price, total, head, tail)
           /\ Becomes(b, c, nodes2, free2, map2, side, row2, best)
           /\ b2 = IF total = 0 /\ price = best THEN Rescanned(c, side) ELSE c
  BY <1>0, LeavesIs
<1>5. /\ OnSpots(q2) /\ FromFeed(bk2) /\ Within(a, q2) /\ SameElse(at, bk, q, loc, bk2, q2, loc2)
      /\ LevelOf(LevelRecord(bk2, q2, loc2, at), price, total, head, tail) /\ (total = 0 <=> q2[at] = <<>>)
  <2>1. /\ OnSpots(q2) /\ FromFeed(bk2) /\ Within(a, q2) /\ SameElse(at, bk, q, loc, bk2, q2, loc2)
        /\ LevelOf(LevelRecord(bk2, q2, loc2, at), price, total,
                   IF prev = None THEN next ELSE HeadOf(loc, q[at]),
                   IF next = None THEN prev ELSE TailOf(loc, q[at])) /\ (total = 0 <=> q2[at] = <<>>)
    BY <1>0, LeavesElse
  <2> QED
    BY <1>0, <2>1
<1>6. IsSlot(r2, bk2, q2, loc2, at)
  BY <1>4, <1>5 DEF IsSlot, Slot, LevelLeft, LevelOf
<1> HIDE DEF row, best, nodes2, free2, map2
<1>7. Parts(b, c, nodes2, free2, map2, side, row2, best)
  BY <1>2, <1>4, BecomesIs
<1>8. /\ IsArray(c) /\ c.nodes = nodes2 /\ c.free = free2 /\ c.id_map = map2 /\ c.levels[side] = row2
      /\ c.best[side] = best /\ c.base = a
  BY <1>2, <1>7 DEF Parts
<1>9. Shelf(MaxOrders, IdMapCapacity, c, bk2, q2, loc2)
  <2>1. NodeTaken(MaxOrders, b, c, n, next, prev)
    BY <1>1, <1>2, <1>8, ConstantsAre, GoneNodes DEF nodes2
  <2>2. c.free = Append(b.free, n) /\ c.id_map = Hash(IdMapCapacity)!Erase(b.id_map, id)
    BY <1>8 DEF free2, map2
  <2>3. Shelf(MaxOrders, IdMapCapacity, c, Shrunk(bk, id), Unlined(q, at, p), Shrunk(loc, id))
    BY <1>1, <1>2, <2>1, <2>2, ConstantsAre, ShelfWithout
  <2> QED
    BY <1>0, <2>3
<1>10. \A s \in PricesOf(side) : q2[<<side, s>>] # <<>> => q[<<side, s>>] # <<>>
  <2>1. ASSUME NEW s \in PricesOf(side) PROVE <<side, s>> \in DOMAIN q
    BY <1>2, <2>1, PricesAre DEF OnSpots
  <2> QED
    BY <1>1, <1>5, <2>1 DEF SameElse
<1>11. Dense(side) => \A s \in PricesOf(side) : q2[<<side, s>>] # <<>> => best # Undef /\ ~Better(side, s, best)
  BY <1>2, <1>10 DEF BestIs
<1>12. CASE ~(total = 0 /\ price = best)
  <2>1. b2 = c
    BY <1>4, <1>12
  <2>2. ASSUME best # Undef PROVE best \in PricesOf(side) /\ q2[<<side, best>>] # <<>>
    <3>1. best \in PricesOf(side) /\ q[<<side, best>>] # <<>>
      BY <1>2, <2>2 DEF BestIs
    <3>2. CASE best = price
      BY <1>5, <1>12, <3>1, <3>2
    <3>3. CASE best # price
      <4> DEFINE s == <<side, best>>
      <4>1. s \in DOMAIN q
        BY <1>2, <3>1, PricesAre DEF OnSpots
      <4>2. s # at
        BY <3>3
      <4> HIDE DEF s
      <4>3. q2[s] = q[s]
        BY <1>5, <4>1, <4>2 DEF SameElse
      <4> QED
        BY <3>1, <4>3 DEF s
    <3> QED
      BY <3>2, <3>3
  <2>3. BestIs(side, best, q2)
    BY <1>11, <2>2 DEF BestIs
  <2>4. Replaced(b.levels[side], row2, i, r2) /\ Becomes(b, b2, nodes2, free2, map2, side, row2, best)
    BY <1>4, <2>1 DEF row
  <2>5. Shelf(MaxOrders, IdMapCapacity, b2, bk2, q2, loc2)
    BY <1>9, <2>1
  <2>6. Arrayed(b2, a, bk2, q2, loc2) /\ b2.error = b.error
    BY <1>2, <1>3, <1>5, <1>6, <2>3, <2>4, <2>5, ArrayedAgain
  <2> QED
    BY <1>0, <1>8, <2>1, <2>6 DEF free2
<1>13. CASE total = 0 /\ price = best
  <2>1. b2 = Rescanned(c, side)
    BY <1>4, <1>13
  <2>2. Buckets(a, side, c.levels[side], bk2, q2, loc2)
    <3>1. Buckets(a, side, row2, bk2, q2, loc2)
      BY <1>2, <1>3, <1>4, <1>5, <1>6, BucketsChanged
    <3> QED
      BY <1>8, <3>1
  <2>3. q2[<<side, best>>] = <<>> /\ best \in PricesOf(side)
    BY <1>3, <1>5, <1>13
  <2>4. Dense(side) => \A s \in PricesOf(side) : q2[<<side, s>>] # <<>> => ~Better(side, s, best)
    BY <1>11
  <2>5. PICK best2 : Rescanned(c, side) = [c EXCEPT !.best[side] = best2] /\ BestIs(side, best2, q2)
    BY <1>2, <1>3, <1>5, <1>8, <1>9, <2>2, <2>3, <2>4, RescanIs
  <2>6. Becomes(c, b2, c.nodes, c.free, c.id_map, side, row2, best2)
    <3>1. b2 = [c EXCEPT !.best[side] = best2]
      BY <2>1, <2>5
    <3> QED
      BY <1>2, <1>8, <3>1, BestSet
  <2>7. Becomes(c, b2, nodes2, free2, map2, side, row2, best2)
    BY <1>8, <2>6
  <2>8. Parts(c, b2, nodes2, free2, map2, side, row2, best2)
    BY <1>2, <1>8, <2>7, BecomesIs
  <2>9. Becomes(b, b2, nodes2, free2, map2, side, row2, best2)
    BY <1>2, <1>4, <2>7, BecomesTwice
  <2>10. b2.nodes = c.nodes /\ b2.free = c.free /\ b2.id_map = c.id_map
    BY <1>8, <2>8 DEF Parts
  <2>11. Shelf(MaxOrders, IdMapCapacity, b2, bk2, q2, loc2)
    BY <1>9, <2>10, ShelfSame
  <2>12. Replaced(b.levels[side], row2, i, r2)
    BY <1>4 DEF row
  <2>13. Arrayed(b2, a, bk2, q2, loc2) /\ b2.error = b.error
    BY <1>2, <1>3, <1>5, <1>6, <2>5, <2>9, <2>11, <2>12, ArrayedAgain
  <2> QED
    BY <1>0, <1>8, <2>10, <2>13 DEF free2
<1> QED
  BY <1>12, <1>13

---------------------------------------------------------------------------
(* An order is modified at its price. *)
\* An order that leaves its queue and lines up again is the last.
NoneTwice(s) == \A j, k \in 1..Len(s) : s[j] = s[k] => j = k
LinesUp(t, s, p) == t = Append(RemoveAt(s, p), s[p])

\* The order is the last of as many, and the first only when it was alone or another one is.
LEMMA Requeued ==
  ASSUME NEW X, NEW s \in Seq(X), NEW p \in 1..Len(s), NoneTwice(s), NEW t, LinesUp(t, s, p)
  PROVE  /\ t # <<>> /\ t \in Seq(X) /\ Len(t) = Len(s) /\ t[Len(t)] = s[p]
         /\ RemoveAt(s, p) = <<>> => t[1] = s[p]
         /\ RemoveAt(s, p) # <<>> => /\ t[1] = RemoveAt(s, p)[1] /\ RemoveAt(s, p)[1] \in X
                                     /\ RemoveAt(s, p)[1] # s[p]
         /\ p = Len(s) => t = s
<1> DEFINE r == RemoveAt(s, p)
<1>1. /\ r \in Seq(X) /\ Len(r) = Len(s) - 1 /\ Len(s) \in Nat
      /\ \A k \in 1..(Len(s) - 1) : r[k] = s[IF k < p THEN k ELSE k + 1]
  <2>1. Len(s) \in Nat
    OBVIOUS
  <2>2. /\ RemoveAt(s, p) \in Seq(X) /\ Len(RemoveAt(s, p)) = Len(s) - 1
        /\ \A k \in 1..(Len(s) - 1) : RemoveAt(s, p)[k] = s[IF k < p THEN k ELSE k + 1]
    BY RemoveAtIs
  <2> QED
    BY <2>1, <2>2
<1> HIDE DEF r
<1>2. s[p] \in X
  OBVIOUS
<1>3. /\ Append(r, s[p]) \in Seq(X) /\ Len(Append(r, s[p])) = Len(r) + 1 /\ Len(r) \in Nat
      /\ Append(r, s[p])[Len(r) + 1] = s[p] /\ \A k \in 1..Len(r) : Append(r, s[p])[k] = r[k] /\ r[k] \in X
  BY <1>1, <1>2, AppendIs
<1>4. t = Append(r, s[p])
  BY DEF r, LinesUp
<1>5. t \in Seq(X) /\ Len(t) = Len(s) /\ t[Len(s)] = s[p] /\ Len(s) >= 1 /\ \A k \in 1..(Len(s) - 1) : t[k] = r[k]
  BY <1>1, <1>3, <1>4
<1>6. t # <<>>
  BY <1>5, EmptySeq
<1>7. ASSUME r = <<>> PROVE t[1] = s[p]
  <2>1. Len(r) = 0
    BY <1>7
  <2> QED
    BY <1>1, <1>5, <2>1
<1>8. ASSUME r # <<>> PROVE t[1] = r[1] /\ r[1] \in X /\ r[1] # s[p]
  <2>1. Len(r) # 0
    BY <1>1, <1>8, EmptySeq
  <2>2. 1 \in 1..Len(r) /\ 1 \in 1..(Len(s) - 1)
    BY <1>1, <1>3, <2>1
  <2>3. t[1] = r[1] /\ r[1] \in X /\ r[1] = s[IF 1 < p THEN 1 ELSE 2]
    BY <1>1, <1>3, <1>5, <2>2
  <2>4. (IF 1 < p THEN 1 ELSE 2) \in 1..Len(s) /\ (IF 1 < p THEN 1 ELSE 2) # p
    BY <1>1, <2>2
  <2> QED
    BY <2>3, <2>4 DEF NoneTwice
<1>9. ASSUME p = Len(s) PROVE t = s
  <2>1. \A k \in 1..Len(s) : t[k] = s[k]
    BY <1>1, <1>5, <1>9
  <2> QED
    BY <1>5, <2>1, SeqEqual
<1> QED
  BY <1>5, <1>6, <1>7, <1>8, <1>9 DEF r

\* The nodes when one is taken out of the links and linked again.
LEMMA RelinkedNodes ==
  ASSUME NEW P \in Nat, NEW b, NEW bk, NEW q, NEW loc, Holding(P, b, bk, q, loc),
         NEW n \in 0..(P - 1), NEW id, NEW o, NEW next, NEW prev, NEW tail,
         IsNode(b.nodes[n], id, o.side, o.price, o.size, next, prev),
         NEW b1, NodeTaken(P, b, b1, n, next, prev),
         NEW b2, b2.nodes = NodesLinked(NodesUnlinked(b.nodes, next, prev), n, tail)
  PROVE  NodeAdded(P, b1, b2, id, o, n, tail)
<1> DEFINE f == b.nodes
           u == NodesUnlinked(f, next, prev)
           g == b1.nodes
           node == [order_id |-> id, side |-> o.side, price |-> o.price, size |-> o.size,
                    next_idx |-> None, prev_idx |-> tail]
<1>1. f = [k \in 0..(P - 1) |-> f[k]] /\ u = NodesUnlinked(f, next, prev) /\ b2.nodes = NodesLinked(u, n, tail)
  BY DEF Holding
<1>2. g = [k \in 0..(P - 1) |-> IF k = n THEN BareNode ELSE IF k = prev THEN LinkedOn(f[k], next)
                                ELSE IF k = next THEN LinkedBack(f[k], prev) ELSE f[k]]
  BY DEF NodeTaken
<1>3. IsNode(f[n], id, o.side, o.price, o.size, next, prev)
  OBVIOUS
<1> HIDE DEF f, u, g
<1>4. u = [k \in 0..(P - 1) |-> IF k = prev THEN LinkedOn(f[k], next)
                               ELSE IF k = next THEN LinkedBack(f[k], prev) ELSE f[k]]
  BY <1>1 DEF NodesUnlinked, LinkedOn, LinkedBack
<1>5. b2.nodes = [k \in 0..(P - 1) |-> IF k = n THEN [u[k] EXCEPT !.next_idx = None, !.prev_idx = tail]
                                      ELSE IF k = tail THEN LinkedOn(u[k], n) ELSE u[k]]
  BY <1>1, <1>4 DEF NodesLinked, LinkedOn
<1>6. [u[n] EXCEPT !.next_idx = None, !.prev_idx = tail] = node
  <2>1. f[n] = [order_id |-> id, side |-> o.side, price |-> o.price, size |-> o.size, next_idx |-> next, prev_idx |-> prev]
    BY <1>3 DEF IsNode
  <2>2. /\ LinkedOn(f[n], next) = f[n]
        /\ LinkedBack(f[n], prev) = f[n]
    BY <2>1, LinkedIs
  <2>3. u[n] = f[n]
    BY <1>4, <2>2
  <2> DEFINE v == u[n]
  <2>4. v = [order_id |-> id, side |-> o.side, price |-> o.price, size |-> o.size, next_idx |-> next, prev_idx |-> prev]
    BY <2>1, <2>3
  <2> HIDE DEF v
  <2>5. [v EXCEPT !.next_idx = None, !.prev_idx = tail] = node
    <3> DEFINE w == [order_id |-> id, side |-> o.side, price |-> o.price, size |-> o.size, next_idx |-> None, prev_idx |-> prev]
    <3>1. LinkedOn(v, None) = w
      BY <2>4, LinkedIs
    <3>2. LinkedBack(w, tail) = node
      BY LinkedIs
    <3>3. [v EXCEPT !.next_idx = None, !.prev_idx = tail] = LinkedBack(LinkedOn(v, None), tail)
      BY DEF LinkedOn, LinkedBack
    <3> HIDE DEF w, node
    <3> QED
      BY <3>1, <3>2, <3>3
  <2> QED
    BY <2>5 DEF v
<1>7. \A k \in 0..(P - 1) : k # n => u[k] = g[k]
  BY <1>2, <1>4
<1> HIDE DEF node
<1>8. \A k \in 0..(P - 1) : (IF k = n THEN [u[k] EXCEPT !.next_idx = None, !.prev_idx = tail]
                              ELSE IF k = tail THEN LinkedOn(u[k], n) ELSE u[k]) =
                            (IF k = n THEN node ELSE IF k = tail THEN LinkedOn(g[k], n) ELSE g[k])
  BY <1>6, <1>7
<1>9. b2.nodes = [k \in 0..(P - 1) |-> IF k = n THEN node ELSE IF k = tail THEN LinkedOn(g[k], n) ELSE g[k]]
  BY <1>5, <1>8
<1> QED
  BY <1>9, PoolIs DEF NodeAdded, g, node

\* An order that is taken out of the links and linked again is the last of its queue.
LEMMA RelinkedGood ==
  ASSUME NEW b, NEW a, NEW bk, NEW q, NEW loc, Arrayed(b, a, bk, q, loc),
         NEW id, NEW side, NEW price, NEW p, NEW n, NEW i, Sits(a, bk, q, loc, id, side, price, p, n, i),
         NEW at, at = <<side, price>>, NEW b2, b2 = Linked(Unlinked(b, side, i, n), side, i, n)
  PROVE  Arrayed(b2, a, bk, LinedUp(Unlined(q, at, p), at, id), loc) /\ b2.error = b.error
<1> DEFINE bk1 == Shrunk(bk, id)
           q1 == Unlined(q, at, p)
           loc1 == Shrunk(loc, id)
           q2 == LinedUp(q1, at, id)
           total == TotalAt(bk, at) - bk[id].size
           next == NextOf(loc, q[at], p)
           prev == PrevOf(loc, q[at], p)
           head == IF prev = None THEN next ELSE HeadOf(loc, q[at])
           tail == IF next = None THEN prev ELSE TailOf(loc, q[at])
           head2 == IF head = None THEN n ELSE head
           row == b.levels[side]
           r == row[i]
           best == b.best[side]
           u == Unlinked(b, side, i, n)
           nodes1 == NodesUnlinked(b.nodes, next, prev)
           nodes2 == NodesLinked(nodes1, n, tail)
<1>0. /\ next = NextOf(loc, q[at], p) /\ prev = PrevOf(loc, q[at], p)
      /\ total = TotalAt(bk, at) - bk[id].size /\ bk1 = Shrunk(bk, id) /\ q1 = Unlined(q, at, p) /\ loc1 = Shrunk(loc, id)
      /\ (head = IF prev = None THEN next ELSE HeadOf(loc, q[at]))
      /\ (tail = IF next = None THEN prev ELSE TailOf(loc, q[at]))
      /\ (head2 = IF head = None THEN n ELSE head)
      /\ b2 = Linked(u, side, i, n) /\ u = Unlinked(b, side, i, n) /\ row = b.levels[side] /\ r = row[i]
      /\ q2 = LinedUp(q1, at, id)
  OBVIOUS
<1>1. /\ at \in DOMAIN q /\ p \in 1..Len(q[at]) /\ q[at][p] = id /\ loc[id] = n /\ SpotOf(bk[id]) = at
      /\ n \in 0..(MaxOrders - 1) /\ n # None /\ b.nodes[n].next_idx = next /\ b.nodes[n].prev_idx = prev /\ q[at] # <<>>
      /\ IsNode(b.nodes[n], id, side, price, bk[id].size, next, prev)
  BY <1>0, SitsIs
<1>2. /\ IsArray(b) /\ Shelf(MaxOrders, IdMapCapacity, b, bk, q, loc) /\ OnSpots(q) /\ FromFeed(bk) /\ Within(a, q)
      /\ side \in Sides /\ BucketAt(a, side, i, price) /\ BestIs(side, best, q) /\ id \in DOMAIN bk
      /\ bk[id].side = side /\ bk[id].price = price
  BY DEF Arrayed, Sits
<1>3. IsBook(bk) /\ Queues(bk, q) /\ Located(MaxOrders, b, bk, loc) /\ Holding(MaxOrders, b, bk, q, loc)
  BY <1>2 DEF Shelf
<1>4. a \in Prices /\ price \in PricesOf(side) /\ i \in Places /\ at[2] = price /\ IsRow(row) /\ SlotSays(r, bk, q, loc, at)
  BY <1>2, BucketIs
<1>5. IsLevel(r) /\ r.price = price /\ r.total_qty = TotalAt(bk, at) /\ r.head_idx = HeadOf(loc, q[at])
      /\ r.tail_idx = TailOf(loc, q[at])
  BY <1>1, <1>4 DEF SlotSays
<1> HIDE DEF bk1, q1, loc1, q2, total, next, prev, head, tail, head2, row, r, best, u
<1>6. PICK row1, r1 : /\ Replaced(row, row1, i, r1) /\ LevelOf(r1, r.price, r.total_qty, head, tail)
                      /\ Becomes(b, u, nodes1, b.free, b.id_map, side, row1, best)
  <2>1. /\ (head = IF prev = None THEN next ELSE r.head_idx)
        /\ (tail = IF next = None THEN prev ELSE r.tail_idx)
    BY <1>0, <1>5
  <2>2. \E row1, r1 : /\ Replaced(row, row1, i, r1) /\ LevelOf(r1, r.price, r.total_qty, head, tail)
                      /\ Becomes(b, Unlinked(b, side, i, n), NodesUnlinked(b.nodes, next, prev), b.free, b.id_map,
                                 side, row1, b.best[side])
    BY <1>0, <1>1, <1>2, <1>4, <1>5, <2>1, UnlinkedBecomes
  <2> QED
    BY <2>2 DEF u, best
<1> HIDE DEF nodes1
<1>7. Parts(b, u, nodes1, b.free, b.id_map, side, row1, best)
  BY <1>2, <1>6, BecomesIs
<1>8. /\ IsArray(u) /\ u.nodes = nodes1 /\ u.free = b.free /\ u.id_map = b.id_map /\ u.levels[side] = row1
      /\ u.best[side] = best
  BY <1>7 DEF Parts
<1>9. IsRow(row1) /\ row1[i] = r1
  BY <1>4, <1>6, ReplacedIs
<1>10. IsLevel(r1) /\ r1.price = price /\ r1.total_qty = TotalAt(bk, at) /\ r1.head_idx = head /\ r1.tail_idx = tail
  BY <1>5, <1>6 DEF LevelOf, IsLevel
<1>11. PICK row2, r2 : /\ Replaced(row1, row2, i, r2) /\ LevelOf(r2, price, TotalAt(bk, at), head2, n)
                       /\ Becomes(u, b2, nodes2, b.free, b.id_map, side, row2, best)
  <2>1. (head2 = IF r1.head_idx = None THEN n ELSE r1.head_idx) /\ tail = r1.tail_idx
    BY <1>0, <1>10
  <2>2. \E row2, r2 : /\ Replaced(row1, row2, i, r2) /\ LevelOf(r2, r1.price, r1.total_qty, head2, n)
                      /\ Becomes(u, Linked(u, side, i, n), NodesLinked(u.nodes, n, tail), u.free, u.id_map,
                                 side, row2, u.best[side])
    BY <1>2, <1>4, <1>8, <1>9, <1>10, <2>1, LinkedBecomes
  <2> QED
    BY <1>0, <1>8, <1>10, <2>2
<1> HIDE DEF nodes2
<1>12. Becomes(b, b2, nodes2, b.free, b.id_map, side, row2, best) /\ Replaced(row, row2, i, r2)
  BY <1>2, <1>4, <1>6, <1>11, BecomesTwice, ReplacedTwice
<1>13. b2.nodes = nodes2 /\ b2.free = b.free /\ b2.id_map = b.id_map
  <2>1. Parts(b, b2, nodes2, b.free, b.id_map, side, row2, best)
    BY <1>2, <1>12, BecomesIs
  <2> QED
    BY <2>1 DEF Parts
<1>14. LevelOf(LevelRecord(bk1, q1, loc1, at), price, total, head, tail) /\ OnSpots(q1)
  <2>1. LevelOf(LevelRecord(bk1, q1, loc1, at), price, total,
                IF prev = None THEN next ELSE HeadOf(loc, q[at]),
                IF next = None THEN prev ELSE TailOf(loc, q[at])) /\ OnSpots(q1)
    BY <1>0, LeavesElse
  <2> QED
    BY <1>0, <2>1
<1>15. head = HeadOf(loc1, q1[at]) /\ tail = TailOf(loc1, q1[at])
  BY <1>14 DEF LevelOf, LevelRecord
<1>16. /\ DOMAIN q1 = DOMAIN q /\ q1[at] = RemoveAt(q[at], p)
       /\ DOMAIN q2 = DOMAIN q /\ q2[at] = Append(RemoveAt(q[at], p), id)
       /\ \A s \in DOMAIN q : s # at => q2[s] = q[s]
  <2>1. q1 = [q EXCEPT ![at] = RemoveAt(q[at], p)]
    BY <1>0 DEF Unlined
  <2>2. q1 = [s \in DOMAIN q1 |-> q1[s]] /\ DOMAIN q1 = DOMAIN q /\ q1[at] = RemoveAt(q[at], p)
        /\ \A s \in DOMAIN q : s # at => q1[s] = q[s]
    BY <1>1, <1>3, <2>1, QueueChanged
  <2>3. q2 = [q1 EXCEPT ![at] = Append(q1[at], id)]
    BY <1>0 DEF LinedUp
  <2> QED
    BY <1>1, <2>2, <2>3
<1>17. OnSpots(q2) /\ Within(a, q2)
  BY <1>1, <1>2, <1>16 DEF OnSpots, Within
<1>18. q[at] \in Seq(DOMAIN bk) /\ \A j, k \in 1..Len(q[at]) : q[at][j] = q[at][k] => j = k
  <2>1. Queues(bk, q) /\ at \in DOMAIN q
    BY <1>1, <1>3
  <2> QED
    BY ONLY <2>1, QueueHolds
<1> DEFINE s == q[at]
           t == q2[at]
           w == RemoveAt(s, p)
<1>19. /\ t # <<>> /\ t[Len(t)] = id /\ (w = <<>> => t[1] = id)
       /\ w # <<>> => t[1] = w[1] /\ w[1] \in DOMAIN bk /\ w[1] # id
  <2>1. t = Append(RemoveAt(s, p), s[p]) /\ s \in Seq(DOMAIN bk) /\ p \in 1..Len(s)
        /\ \A j, k \in 1..Len(s) : s[j] = s[k] => j = k
    BY <1>1, <1>16, <1>18
  <2>2. s[p] = id
    BY <1>1
  <2> HIDE DEF s, t
  <2>3. /\ t # <<>> /\ t \in Seq(DOMAIN bk) /\ Len(t) = Len(s) /\ t[Len(t)] = s[p]
        /\ RemoveAt(s, p) = <<>> => t[1] = s[p]
        /\ RemoveAt(s, p) # <<>> => /\ t[1] = RemoveAt(s, p)[1] /\ RemoveAt(s, p)[1] \in DOMAIN bk
                                    /\ RemoveAt(s, p)[1] # s[p]
    <3>1. s \in Seq(DOMAIN bk) /\ p \in 1..Len(s) /\ NoneTwice(s) /\ LinesUp(t, s, p)
      BY <2>1 DEF NoneTwice, LinesUp
    <3> QED
      BY ONLY <3>1, Requeued
  <2> QED
    BY <2>2, <2>3
<1>20. HeadOf(loc, t) = head2 /\ TailOf(loc, t) = n
  <2>1. HeadOf(loc, t) = loc[t[1]] /\ TailOf(loc, t) = loc[t[Len(t)]]
    BY <1>19 DEF HeadOf, TailOf
  <2>2. CASE w = <<>>
    <3>1. head = None
      BY <1>15, <1>16, <2>2, PoolIs DEF HeadOf
    <3> QED
      BY <1>0, <1>1, <1>19, <2>1, <2>2, <3>1
  <2>3. CASE w # <<>>
    <3>1. head = loc1[w[1]]
      BY <1>15, <1>16, <2>3 DEF HeadOf
    <3>2. loc[w[1]] \in 0..(MaxOrders - 1) /\ loc1[w[1]] = loc[w[1]]
      BY <1>0, <1>3, <1>19, <2>3 DEF Located, Shrunk
    <3>3. head # None
      BY <3>1, <3>2 DEF None
    <3> QED
      BY <1>0, <1>1, <1>19, <2>1, <2>3, <3>1, <3>2, <3>3
  <2> QED
    BY <2>2, <2>3
<1>21. IsSlot(r2, bk, q2, loc, at)
  <2>1. LevelRecord(bk, q2, loc, at) = [price |-> price, total_qty |-> TotalAt(bk, at), head_idx |-> head2, tail_idx |-> n]
    BY <1>4, <1>20 DEF LevelRecord
  <2> QED
    BY <1>11, <1>19, <2>1 DEF IsSlot, Slot, LevelOf
<1>22. SameElse(at, bk, q, loc, bk, q2, loc)
  BY <1>16 DEF SameElse, LevelRecord
<1>23. Shelf(MaxOrders, IdMapCapacity, b2, bk, q2, loc)
  <2> DEFINE f == b.nodes
             b1 == [nodes |-> [k \in 0..(MaxOrders - 1) |->
                      IF k = n THEN BareNode ELSE IF k = prev THEN LinkedOn(f[k], next)
                      ELSE IF k = next THEN LinkedBack(f[k], prev) ELSE f[k]]]
             o == bk[id]
  <2>1. NodeTaken(MaxOrders, b, b1, n, next, prev)
    BY DEF NodeTaken
  <2>2. IsRest(o) /\ SpotOf(o) = at /\ o.side = side /\ o.price = price /\ o.size = bk[id].size
    BY <1>1, <1>2, <1>3 DEF IsRest, IsBook
  <2> HIDE DEF b1
  <2>3. NodeAdded(MaxOrders, b1, b2, id, o, n, tail)
    <3>1. IsNode(b.nodes[n], id, o.side, o.price, o.size, next, prev)
      BY <1>1, <2>2
    <3>2. b2.nodes = NodesLinked(NodesUnlinked(b.nodes, next, prev), n, tail)
      BY <1>13 DEF nodes1, nodes2
    <3> HIDE DEF o
    <3> QED
      BY <1>1, <1>3, <2>1, <3>1, <3>2, ConstantsAre, RelinkedNodes
  <2> HIDE DEF o
  <2>4. Shelf(MaxOrders, IdMapCapacity, b2, Widened(Shrunk(bk, id), id, o), LinedUp(q1, at, id), Widened(Shrunk(loc, id), id, n))
    <3>1. next = b.nodes[n].next_idx /\ prev = b.nodes[n].prev_idx /\ tail = TailOf(Shrunk(loc, id), q1[at])
      BY <1>0, <1>1, <1>15
    <3> QED
      BY <1>0, <1>1, <1>2, <1>13, <2>1, <2>2, <2>3, <3>1, ConstantsAre, ShelfRequeued
  <2>5. Widened(Shrunk(bk, id), id, o) = bk
    <3>1. bk = [x \in DOMAIN bk |-> bk[x]]
      BY <1>3 DEF IsBook
    <3> QED
      BY <1>2, <3>1 DEF Widened, Shrunk, o
  <2>6. Widened(Shrunk(loc, id), id, n) = loc
    <3>1. loc = [x \in DOMAIN bk |-> loc[x]] /\ loc[id] = n
      BY <1>1, <1>3 DEF Located
    <3> QED
      BY <1>2, <3>1 DEF Widened, Shrunk
  <2> QED
    BY <1>0, <2>4, <2>5, <2>6
<1>24. BestIs(side, best, q2)
  <2>1. \A x \in PricesOf(side) : q2[<<side, x>>] # <<>> <=> q[<<side, x>>] # <<>>
    <3>1. ASSUME NEW x \in PricesOf(side) PROVE <<side, x>> \in DOMAIN q
      BY <1>2, <3>1, PricesAre DEF OnSpots
    <3>2. ASSUME NEW x \in DOMAIN q PROVE q2[x] # <<>> <=> q[x] # <<>>
      BY <1>1, <1>16, <1>19
    <3> QED
      BY <3>1, <3>2
  <2> QED
    BY <1>2, <2>1 DEF BestIs
<1>25. Arrayed(b2, a, bk, q2, loc) /\ b2.error = b.error
  <2>1. Replaced(b.levels[side], row2, i, r2)
    BY <1>12 DEF row
  <2> QED
    BY <1>2, <1>4, <1>12, <1>17, <1>21, <1>22, <1>23, <1>24, <2>1, ArrayedAgain
<1> QED
  BY <1>0, <1>25

\* modify_order sets the size of an order and its level's total; one that grows and is not
\* the last is then linked again.
LEMMA ResizedIs ==
  ASSUME NEW b, NEW a, NEW bk, NEW q, NEW loc, Arrayed(b, a, bk, q, loc),
         NEW id, NEW side, NEW price, NEW p, NEW n, NEW i, Sits(a, bk, q, loc, id, side, price, p, n, i),
         NEW at, at = <<side, price>>, NEW old, old = bk[id].size, NEW size
  PROVE  \E set : /\ ResizedTo(b, set, n, size, side, i, TotalAt(bk, at) - old + size)
                  /\ Resized(b, n, size) = IF size > old /\ n # TailOf(loc, q[at])
                                           THEN Linked(Unlinked(set, side, i, n), side, i, n) ELSE set
<1>1. side \in Sides /\ BucketAt(a, side, i, price)
  BY DEF Sits
<1>2. b.nodes[n].side = side /\ b.nodes[n].price = price /\ b.nodes[n].size = old
  BY SitsIs
<1>3. /\ i # NoIndex /\ IndexOf(b.base, price) = i /\ b.levels[side][i].total_qty = TotalAt(bk, at)
      /\ b.levels[side][i].tail_idx = TailOf(loc, q[at])
  BY <1>1, BucketIs DEF SlotSays
<1> DEFINE t == b.levels[side][i].total_qty
           set == [b EXCEPT !.nodes[n].size = size, !.levels[side][i].total_qty = t - b.nodes[n].size + size]
<1>4. Resized(b, n, size) = IF size > old /\ n # TailOf(loc, q[at])
                            THEN Linked(Unlinked(set, side, i, n), side, i, n) ELSE set
  <2>1. Resized(b, n, size) =
          IF i = NoIndex THEN b
          ELSE IF size > b.nodes[n].size /\ n # b.levels[side][i].tail_idx
               THEN Linked(Unlinked(set, side, i, n), side, i, n) ELSE set
    BY <1>2, <1>3 DEF Resized
  <2> QED
    BY <1>2, <1>3, <2>1
<1>5. ResizedTo(b, set, n, size, side, i, TotalAt(bk, at) - old + size)
  <2>1. set = [b EXCEPT !.nodes[n].size = size, !.levels[side][i].total_qty = TotalAt(bk, at) - old + size]
    BY <1>2, <1>3
  <2> HIDE DEF set
  <2> QED
    BY <2>1 DEF ResizedTo
<1> QED
  BY <1>4, <1>5

\* An order that does not grow keeps its place, one that grows is the last of its queue.
LEMMA ModifiedGood ==
  ASSUME NEW b, NEW a, NEW bk, NEW q, NEW loc, Arrayed(b, a, bk, q, loc),
         NEW id, NEW side, NEW price, NEW p, NEW n, NEW i, Sits(a, bk, q, loc, id, side, price, p, n, i),
         NEW at, at = <<side, price>>, NEW size \in Nat \ {0}, NEW b2, b2 = Resized(b, n, size)
  PROVE  /\ b2.error = b.error
         /\ Arrayed(b2, a, Sized(bk, id, size),
                    IF size > bk[id].size THEN LinedUp(Unlined(q, at, p), at, id) ELSE q, loc)
<1> DEFINE old == bk[id].size
           bk2 == Sized(bk, id, size)
           total == TotalAt(bk, at) - old + size
           u == Unlined(q, at, p)
           q2 == LinedUp(u, at, id)
<1>1. PICK set : /\ ResizedTo(b, set, n, size, side, i, TotalAt(bk, at) - old + size)
                 /\ Resized(b, n, size) = IF size > old /\ n # TailOf(loc, q[at])
                                          THEN Linked(Unlinked(set, side, i, n), side, i, n) ELSE set
  <2>1. old = bk[id].size
    OBVIOUS
  <2> HIDE DEF old
  <2> QED
    BY <2>1, ResizedIs
<1>2. total = TotalAt(bk, at) - bk[id].size + size /\ ResizedTo(b, set, n, size, side, i, total)
  BY <1>1
<1> HIDE DEF total
<1>3. Arrayed(set, a, bk2, q, loc) /\ set.error = b.error
  BY <1>2, ResizedGood
<1>4. /\ at \in DOMAIN q /\ p \in 1..Len(q[at]) /\ q[at][p] = id /\ loc[id] = n
  BY SitsIs
<1>5. IsBook(bk) /\ Queues(bk, q) /\ Located(MaxOrders, b, bk, loc) /\ id \in DOMAIN bk
      /\ bk[id].side = side /\ bk[id].price = price /\ side \in Sides /\ BucketAt(a, side, i, price)
      /\ IsPlace(q, loc, <<side, price>>, p, id, n)
  BY DEF Arrayed, Shelf, Sits
<1>6. CASE size > old /\ n # TailOf(loc, q[at])
  <2>1. b2 = Linked(Unlinked(set, side, i, n), side, i, n)
    BY <1>1, <1>6
  <2>2. Sits(a, bk2, q, loc, id, side, price, p, n, i)
    <3>1. /\ DOMAIN Sized(bk, id, size) = DOMAIN bk
          /\ \A x \in DOMAIN bk : /\ Sized(bk, id, size)[x].side = bk[x].side
                                  /\ Sized(bk, id, size)[x].price = bk[x].price
      BY <1>5, RestingSized
    <3> QED
      BY <1>5, <3>1 DEF Sits
  <2> HIDE DEF bk2
  <2>3. Arrayed(b2, a, bk2, LinedUp(Unlined(q, at, p), at, id), loc) /\ b2.error = set.error
    BY <1>3, <2>1, <2>2, RelinkedGood
  <2> QED
    BY <1>3, <1>6, <2>3 DEF bk2
<1>7. CASE size > old /\ n = TailOf(loc, q[at])
  <2>1. b2 = set
    BY <1>1, <1>7
  <2> DEFINE s == q[at]
  <2>2. s \in Seq(DOMAIN bk) /\ NoneTwice(s) /\ p \in 1..Len(s) /\ s[p] = id /\ s # <<>> /\ Len(s) \in 1..Len(s)
    <3>1. Queues(bk, q) /\ at \in DOMAIN q
      BY <1>4, <1>5
    <3>2. q[at] \in Seq(DOMAIN bk) /\ \A j, k \in 1..Len(q[at]) : q[at][j] = q[at][k] => j = k
      BY ONLY <3>1, QueueHolds
    <3> QED
      <4>1. s \in Seq(DOMAIN bk) /\ p \in 1..Len(s) /\ s[p] = id
        BY <1>4, <3>2
      <4>2. NoneTwice(s)
        BY <3>2 DEF NoneTwice
      <4> HIDE DEF s
      <4>3. s # <<>> /\ Len(s) \in 1..Len(s)
        BY <4>1
      <4> QED
        BY <4>1, <4>2, <4>3
  <2> HIDE DEF s
  <2>3. TailOf(loc, s) = loc[s[Len(s)]] /\ s[Len(s)] \in DOMAIN bk
    BY <2>2 DEF TailOf
  <2>4. s[Len(s)] = s[p]
    BY <1>4, <1>5, <1>7, <2>2, <2>3 DEF Located, s
  <2>5. p = Len(s)
    BY <2>2, <2>4 DEF NoneTwice
  <2> DEFINE t == Append(RemoveAt(s, p), s[p])
  <2>6. t = s
    <3>1. LinesUp(t, s, p)
      BY DEF LinesUp
    <3> HIDE DEF t
    <3> QED
      BY <2>2, <2>5, <3>1, Requeued
  <2>7. q = [y \in DOMAIN q |-> q[y]]
    BY <1>5 DEF Queues
  <2>8. u = [q EXCEPT ![at] = RemoveAt(s, p)]
    BY DEF Unlined, s
  <2> HIDE DEF u
  <2>9. q2 = [u EXCEPT ![at] = Append(u[at], id)]
    BY DEF LinedUp
  <2>10. u[at] = RemoveAt(s, p)
    BY <1>4, <2>7, <2>8
  <2>11. Append(u[at], id) = q[at]
    BY <2>2, <2>6, <2>10 DEF s
  <2> HIDE DEF q2
  <2>12. q2 = [u EXCEPT ![at] = q[at]]
    BY <2>9, <2>11
  <2>13. q2 = q
    BY <1>4, <2>7, <2>8, <2>12
  <2> QED
    BY <1>3, <1>7, <2>1, <2>13 DEF q2, u
<1>8. CASE ~(size > old)
  <2>1. b2 = set
    BY <1>1, <1>8
  <2> QED
    BY <1>3, <1>8, <2>1
<1> QED
  BY <1>6, <1>7, <1>8
---------------------------------------------------------------------------
(* An order that is not there, and an empty array. *)

\* An order that the array does not have is not found.
LEMMA UnknownIs ==
  ASSUME NEW b, NEW a, NEW bk, NEW q, NEW loc, Arrayed(b, a, bk, q, loc), NEW id \in Ids, id \notin DOMAIN bk
  PROVE  /\ NodeOf(b, id) = None /\ \A asked : CancelOrder(b, id, asked) = b
         /\ \A m : m.order_id = id => ModifyOrder(b, m) = AddOrder(b, m)
<1>1. Shelf(MaxOrders, IdMapCapacity, b, bk, q, loc)
  BY DEF Arrayed
<1>2. id \in Nat \ {0}
  BY FeedAssumption
<1>3. Hash(IdMapCapacity)!Find(b.id_map, id) = -1
  BY <1>1, <1>2, ConstantsAre, FindsOrders DEF Shelf
<1>4. NodeOf(b, id) = None
  BY <1>3, FindIsHash DEF NodeOf, None
<1> QED
  BY <1>4 DEF CancelOrder, ModifyOrder

\* The queues of a market without orders.
NoQueues == [at \in Sides \X Prices |-> <<>>]

\* An array without orders.
LEMMA BareGood ==
  ASSUME NEW b, IsArray(b), b.nodes = EmptyLob.nodes, b.id_map = IdMap!EmptyMap, b.levels = EmptyLob.levels,
         b.best = EmptyLob.best, b.base = Undef, b.error \in {"none", Thrown},
         b.free \in Seq(0..(MaxOrders - 1)), \A j, k \in 1..Len(b.free) : b.free[j] = b.free[k] => j = k
  PROVE  Arrayed(b, Undef, NoOrders, NoQueues, NoOrders)
<1>1. b.nodes = [n \in 0..(MaxOrders - 1) |-> BareNode]
  BY PoolIs DEF EmptyLob
<1>2. \A side \in Sides : b.levels[side] = [i \in Places |-> NoLevel] /\ b.best[side] = Undef
  BY DEF EmptyLob
<1>3. Shelf(MaxOrders, IdMapCapacity, b, NoOrders, NoQueues, NoOrders)
  <2> DEFINE bk == NoOrders
             q == NoQueues
             ats == Sides \X Prices
  <2>1. bk = [id \in {} |-> 0] /\ q = [at \in ats |-> <<>>]
    BY DEF NoOrders, NoQueues
  <2>2. b.id_map = Hash(IdMapCapacity)!EmptyMap
    BY EmptyMapIsHash
  <2> HIDE DEF bk, q, ats
  <2>3. Shelf(MaxOrders, IdMapCapacity, b, bk, q, bk)
    BY <1>1, <2>1, <2>2, ConstantsAre, ShelfEmpty
  <2> QED
    BY <2>3 DEF bk, q
<1>4. OnSpots(NoQueues) /\ FromFeed(NoOrders) /\ Within(Undef, NoQueues)
  BY DEF OnSpots, NoQueues, FromFeed, NoOrders, Within
<1>5. ASSUME NEW side \in Sides
      PROVE  Buckets(Undef, side, b.levels[side], NoOrders, NoQueues, NoOrders) /\ BestIs(side, b.best[side], NoQueues)
  <2> DEFINE lv == b.levels[side]
             best == b.best[side]
  <2>1. lv = [i \in Places |-> NoLevel] /\ best = Undef
    BY <1>2
  <2>2. \A price \in PricesOf(side) : NoQueues[<<side, price>>] = <<>>
    BY PricesAre DEF NoQueues
  <2>3. \A i, price : ~BucketAt(Undef, side, i, price)
    BY NoneReached DEF BucketAt
  <2> HIDE DEF lv, best
  <2>4. Buckets(Undef, side, lv, NoOrders, NoQueues, NoOrders)
    <3>1. lv = [i \in Places |-> lv[i]] /\ \A i \in Places : lv[i] = NoLevel
      BY <2>1
    <3> QED
      BY <2>3, <3>1 DEF Buckets
  <2>5. BestIs(side, best, NoQueues)
    BY <2>1, <2>2 DEF BestIs
  <2> QED
    BY <2>4, <2>5 DEF lv, best
<1> QED
  BY <1>3, <1>4, <1>5 DEF Arrayed

\* A clear leaves an array without orders, and without a middle.
LEMMA ClearGood ==
  ASSUME NEW b, NEW a, NEW bk, NEW q, NEW loc, Arrayed(b, a, bk, q, loc)
  PROVE  Arrayed(ClearBook(b), Undef, NoOrders, NoQueues, NoOrders) /\ ClearBook(b).error = b.error
<1> DEFINE b2 == ClearBook(b)
           e == EmptyLob
           free == b.free
           err == b.error
<1>1. free \in Seq(0..(MaxOrders - 1)) /\ (\A j, k \in 1..Len(free) : free[j] = free[k] => j = k) /\ err \in {"none", Thrown}
  BY DEF Arrayed, Shelf, Located
<1>2. /\ e = [nodes |-> e.nodes, free |-> e.free, id_map |-> IdMap!EmptyMap, levels |-> e.levels, best |-> e.best,
              base |-> Undef, error |-> "none"]
      /\ e.levels = [side \in Sides |-> e.levels[side]] /\ e.best = [side \in Sides |-> e.best[side]]
  BY DEF EmptyLob
<1>3. b2 = [e EXCEPT !.free = free, !.error = err]
  BY DEF ClearBook
<1> HIDE DEF e, free, err, b2
<1>4. b2 = [nodes |-> e.nodes, free |-> free, id_map |-> IdMap!EmptyMap, levels |-> e.levels, best |-> e.best,
            base |-> Undef, error |-> err]
  <2> DEFINE map == IdMap!EmptyMap
             b1 == [e EXCEPT !.free = free]
  <2>1. e = [nodes |-> e.nodes, free |-> e.free, id_map |-> map, levels |-> e.levels, best |-> e.best,
              base |-> Undef, error |-> "none"]
    BY <1>2
  <2>2. b2 = [b1 EXCEPT !.error = err]
    BY <1>3
  <2>3. b1 = [e EXCEPT !.free = free]
    OBVIOUS
  <2> HIDE DEF map, b1
  <2>4. b1 = [nodes |-> e.nodes, free |-> free, id_map |-> map, levels |-> e.levels, best |-> e.best,
              base |-> Undef, error |-> "none"]
    BY <2>1, <2>3
  <2>5. b2 = [nodes |-> e.nodes, free |-> free, id_map |-> map, levels |-> e.levels, best |-> e.best,
              base |-> Undef, error |-> err]
    BY <2>2, <2>4
  <2> QED
    BY <2>5 DEF map
<1>5. /\ b2.nodes = e.nodes /\ b2.id_map = IdMap!EmptyMap /\ b2.levels = e.levels /\ b2.best = e.best
      /\ b2.base = Undef /\ b2.error = err /\ b2.free = free
  BY <1>4
<1>6. IsArray(b2)
  BY <1>2, <1>4, <1>5 DEF IsArray
<1>7. Arrayed(b2, Undef, NoOrders, NoQueues, NoOrders)
  BY <1>1, <1>5, <1>6, BareGood DEF e
<1> QED
  BY <1>5, <1>7 DEF b2, err

\* The array at the beginning.
LEMMA EmptyGood == Arrayed(EmptyLob, Undef, NoOrders, NoQueues, NoOrders) /\ EmptyLob.error = "none"
<1> DEFINE b == EmptyLob
           free == Pool!AllFree
<1>1. /\ b.nodes = EmptyLob.nodes /\ b.id_map = IdMap!EmptyMap /\ b.levels = EmptyLob.levels /\ b.best = EmptyLob.best
      /\ b.base = Undef /\ b.error = "none" /\ b.free = free
  BY DEF EmptyLob
<1>2. IsArray(b)
  BY DEF EmptyLob, IsArray
<1>3. free \in Seq(0..(MaxOrders - 1)) /\ \A j, k \in 1..Len(free) : free[j] = free[k] => j = k
  <2>1. free = [k \in 1..MaxOrders |-> MaxOrders - k]
    BY DEF Pool!AllFree
  <2>2. \A k \in 1..MaxOrders : MaxOrders - k \in 0..(MaxOrders - 1)
    BY ConstantsAre
  <2>3. Len(free) = MaxOrders
    BY <2>1, ConstantsAre
  <2> HIDE DEF free
  <2>4. free \in Seq(0..(MaxOrders - 1))
    BY <2>1, <2>2, ConstantsAre
  <2>5. ASSUME NEW j \in 1..Len(free), NEW k \in 1..Len(free), free[j] = free[k] PROVE j = k
    <3>1. free[j] = MaxOrders - j /\ free[k] = MaxOrders - k
      BY <2>1, <2>3
    <3>2. j \in 1..MaxOrders /\ k \in 1..MaxOrders /\ MaxOrders - j = MaxOrders - k
      BY <2>3, <2>5, <3>1
    <3> QED
      BY <3>2, ConstantsAre
  <2> QED
    BY <2>4, <2>5
<1> HIDE DEF free, b
<1>4. Arrayed(b, Undef, NoOrders, NoQueues, NoOrders)
  BY <1>1, <1>2, <1>3, BareGood
<1> QED
  BY <1>1, <1>4 DEF b

---------------------------------------------------------------------------
(* What is within reach. *)

\* The orders and the queues within reach.
LEMMA InReachIs ==
  ASSUME NEW bk, NEW a
  PROVE  /\ \A x : x \in DOMAIN InReach(bk, a) <=> x \in DOMAIN bk /\ ReachedFrom(a, bk[x].price)
         /\ \A x \in DOMAIN InReach(bk, a) : InReach(bk, a)[x] = bk[x]
BY DEF InReach

\* The queues within reach are the market's.
LEMMA QueuesReached ==
  ASSUME NEW q, NEW a
  PROVE  /\ DOMAIN QueuesInReach(q, a) = DOMAIN q
         /\ \A at \in DOMAIN q : QueuesInReach(q, a)[at] = IF ReachedFrom(a, at[2]) THEN q[at] ELSE <<>>
BY DEF QueuesInReach

\* A new order is within reach when its price is.
LEMMA ReachWith ==
  ASSUME NEW bk, NEW a, NEW id, id \notin DOMAIN bk, NEW o
  PROVE  /\ ReachedFrom(a, o.price) => InReach(Widened(bk, id, o), a) = Widened(InReach(bk, a), id, o)
         /\ ~ReachedFrom(a, o.price) => InReach(Widened(bk, id, o), a) = InReach(bk, a)
<1> DEFINE bk2 == Widened(bk, id, o)
           R(p) == ReachedFrom(a, p)
           S == {x \in DOMAIN bk : R(bk[x].price)}
           S2 == {x \in DOMAIN bk2 : R(bk2[x].price)}
<1>1. DOMAIN bk2 = DOMAIN bk \cup {id} /\ bk2[id] = o /\ \A x \in DOMAIN bk : bk2[x] = bk[x]
  BY DEF Widened
<1>2. InReach(bk, a) = [x \in S |-> bk[x]] /\ InReach(bk2, a) = [x \in S2 |-> bk2[x]]
  BY DEF InReach
<1> HIDE DEF bk2, R
<1>3. ASSUME R(o.price) PROVE InReach(bk2, a) = Widened(InReach(bk, a), id, o)
  <2>1. S2 = S \cup {id}
    BY <1>1, <1>3
  <2>2. Widened(InReach(bk, a), id, o) = [x \in S \cup {id} |-> IF x = id THEN o ELSE InReach(bk, a)[x]]
    BY <1>2 DEF Widened
  <2>3. \A x \in S \cup {id} : bk2[x] = IF x = id THEN o ELSE InReach(bk, a)[x]
    BY <1>1, <1>2
  <2> HIDE DEF S, S2
  <2> QED
    BY <1>2, <2>1, <2>2, <2>3
<1>4. ASSUME ~R(o.price) PROVE InReach(bk2, a) = InReach(bk, a)
  <2>1. S2 = S
    BY <1>1, <1>4
  <2>2. \A x \in S : bk2[x] = bk[x]
    BY <1>1
  <2> HIDE DEF S, S2
  <2> QED
    BY <1>2, <2>1, <2>2
<1> QED
  BY <1>3, <1>4 DEF bk2, R

\* An order that is gone is not within reach either.
LEMMA ReachWithout ==
  ASSUME NEW bk, NEW a, NEW id
  PROVE  InReach(Shrunk(bk, id), a) = Shrunk(InReach(bk, a), id)
<1> DEFINE R(p) == ReachedFrom(a, p)
           S == {x \in DOMAIN bk : R(bk[x].price)}
           bk2 == Shrunk(bk, id)
           S2 == {x \in DOMAIN bk2 : R(bk2[x].price)}
<1>1. DOMAIN bk2 = DOMAIN bk \ {id} /\ \A x \in DOMAIN bk2 : bk2[x] = bk[x]
  BY DEF Shrunk
<1>2. InReach(bk, a) = [x \in S |-> bk[x]] /\ InReach(bk2, a) = [x \in S2 |-> bk2[x]]
  BY DEF InReach
<1> HIDE DEF R, bk2
<1>3. S2 = S \ {id}
  BY <1>1
<1>4. \A x \in S2 : bk2[x] = bk[x]
  BY <1>1
<1> HIDE DEF S, S2
<1>5. Shrunk(InReach(bk, a), id) = [x \in S \ {id} |-> InReach(bk, a)[x]]
  BY <1>2 DEF Shrunk
<1>6. \A x \in S \ {id} : InReach(bk, a)[x] = bk2[x]
  BY <1>2, <1>3, <1>4
<1> QED
  BY <1>2, <1>3, <1>5, <1>6 DEF bk2

\* An order is within reach whatever its size.
LEMMA ReachSized ==
  ASSUME NEW bk, IsBook(bk), NEW a, NEW id \in DOMAIN bk, NEW size \in Nat \ {0}
  PROVE  /\ ReachedFrom(a, bk[id].price) => InReach(Sized(bk, id, size), a) = Sized(InReach(bk, a), id, size)
         /\ ~ReachedFrom(a, bk[id].price) => InReach(Sized(bk, id, size), a) = InReach(bk, a)
<1> DEFINE R(p) == ReachedFrom(a, p)
           S == {x \in DOMAIN bk : R(bk[x].price)}
           bk2 == Sized(bk, id, size)
           S2 == {x \in DOMAIN bk2 : R(bk2[x].price)}
           o2 == [bk[id] EXCEPT !.size = size]
<1>0. bk = [x \in DOMAIN bk |-> bk[x]]
  BY DEF IsBook
<1>1. DOMAIN bk2 = DOMAIN bk /\ \A x \in DOMAIN bk : bk2[x].price = bk[x].price
  <2>1. \A x \in DOMAIN bk : /\ Sized(bk, id, size)[x].side = bk[x].side
                               /\ Sized(bk, id, size)[x].price = bk[x].price
    BY RestingSized
  <2>2. DOMAIN Sized(bk, id, size) = DOMAIN bk
    BY RestingSized
  <2> QED
    BY <2>1, <2>2
<1>2. InReach(bk, a) = [x \in S |-> bk[x]] /\ InReach(bk2, a) = [x \in S2 |-> bk2[x]]
  BY DEF InReach
<1>3. \A x \in DOMAIN bk : bk2[x] = IF x = id THEN o2 ELSE bk[x]
  BY <1>0 DEF Sized
<1> HIDE DEF R, bk2
<1>4. S2 = S
  BY <1>1
<1>5. S \subseteq DOMAIN bk
  OBVIOUS
<1>6. ASSUME R(bk[id].price) PROVE InReach(bk2, a) = Sized(InReach(bk, a), id, size)
  <2>1. id \in S
    BY <1>6
  <2> HIDE DEF S, S2
  <2> DEFINE f == InReach(bk, a)
  <2>2. f[id] = bk[id] /\ f = [x \in S |-> bk[x]]
    BY <1>2, <2>1
  <2>3. Sized(f, id, size) = [f EXCEPT ![id] = [f[id] EXCEPT !.size = size]]
    BY DEF Sized
  <2> HIDE DEF f
  <2>4. [f[id] EXCEPT !.size = size] = o2
    BY <2>2
  <2> HIDE DEF o2
  <2>5. Sized(f, id, size) = [f EXCEPT ![id] = o2]
    BY <2>3, <2>4
  <2>6. Sized(f, id, size) = [x \in S |-> IF x = id THEN o2 ELSE bk[x]]
    BY <2>1, <2>2, <2>5
  <2>7. \A x \in S : bk2[x] = IF x = id THEN o2 ELSE bk[x]
    BY <1>3, <1>5
  <2>8. InReach(bk2, a) = [x \in S |-> IF x = id THEN o2 ELSE bk[x]]
    BY <1>2, <1>4, <2>7
  <2> QED
    BY <2>6, <2>8 DEF f
<1>7. ASSUME ~R(bk[id].price) PROVE InReach(bk2, a) = InReach(bk, a)
  <2>1. id \notin S
    BY <1>7
  <2>2. \A x \in S : bk2[x] = bk[x]
    BY <1>3, <1>5, <2>1
  <2> HIDE DEF S, S2
  <2> QED
    BY <1>2, <1>4, <2>2
<1> QED
  BY <1>6, <1>7 DEF bk2, R

\* A queue that changes is within reach when its price is.
QueueSet(q, q2, at, v) == q2 = [q EXCEPT ![at] = v]

\* Out of reach the change is not seen.
LEMMA ReachQueue ==
  ASSUME NEW bk, NEW q, Queues(bk, q), NEW a, NEW at \in DOMAIN q, NEW v, NEW q2, QueueSet(q, q2, at, v),
         NEW f, f = QueuesInReach(q, a)
  PROVE  /\ ReachedFrom(a, at[2]) => f[at] = q[at] /\ QueueSet(f, QueuesInReach(q2, a), at, v)
         /\ ~ReachedFrom(a, at[2]) => QueuesInReach(q2, a) = f
<1> DEFINE R(s) == ReachedFrom(a, s[2])
           g == QueuesInReach(q2, a)
<1>1. DOMAIN q2 = DOMAIN q /\ \A s \in DOMAIN q : q2[s] = IF s = at THEN v ELSE q[s]
  <2>1. q = [s \in DOMAIN q |-> q[s]]
    BY DEF Queues
  <2> QED
    BY <2>1 DEF QueueSet
<1>2. f = [s \in DOMAIN q |-> IF R(s) THEN q[s] ELSE <<>>]
  BY DEF QueuesInReach
<1>3. g = [s \in DOMAIN q |-> IF R(s) THEN q2[s] ELSE <<>>]
  BY <1>1 DEF QueuesInReach
<1> HIDE DEF R, g
<1>4. ASSUME R(at) PROVE f[at] = q[at] /\ g = [f EXCEPT ![at] = v]
  <2>1. [f EXCEPT ![at] = v] = [s \in DOMAIN q |-> IF s = at THEN v ELSE f[s]]
    BY <1>2
  <2>2. \A s \in DOMAIN q : (IF s = at THEN v ELSE f[s]) = (IF R(s) THEN q2[s] ELSE <<>>)
    BY <1>1, <1>2, <1>4
  <2>3. f[at] = q[at]
    BY <1>2, <1>4
  <2> QED
    BY <1>3, <2>1, <2>2, <2>3
<1>5. ASSUME ~R(at) PROVE g = f
  <2>1. \A s \in DOMAIN q : (IF R(s) THEN q[s] ELSE <<>>) = (IF R(s) THEN q2[s] ELSE <<>>)
    BY <1>1, <1>5
  <2> QED
    BY <1>2, <1>3, <2>1
<1> QED
  BY <1>4, <1>5 DEF R, g, QueueSet

\* An id that lines up in a queue within reach.
LEMMA ReachLinedUp ==
  ASSUME NEW bk, NEW q, Queues(bk, q), NEW a, NEW at \in DOMAIN q, NEW id
  PROVE  /\ ReachedFrom(a, at[2]) => QueuesInReach(LinedUp(q, at, id), a) = LinedUp(QueuesInReach(q, a), at, id)
         /\ ~ReachedFrom(a, at[2]) => QueuesInReach(LinedUp(q, at, id), a) = QueuesInReach(q, a)
<1> DEFINE v == Append(q[at], id)
           q2 == LinedUp(q, at, id)
           f == QueuesInReach(q, a)
<1>1. QueueSet(q, q2, at, v) /\ f = QueuesInReach(q, a) /\ QueueSet(f, LinedUp(f, at, id), at, Append(f[at], id))
  BY DEF QueueSet, LinedUp
<1> HIDE DEF q2, f
<1>2. ReachedFrom(a, at[2]) => f[at] = q[at] /\ QueueSet(f, QueuesInReach(q2, a), at, v)
  <2> HIDE DEF v
  <2> QED
    BY <1>1, ReachQueue
<1>3. ~ReachedFrom(a, at[2]) => QueuesInReach(q2, a) = f
  <2> HIDE DEF v
  <2> QED
    BY <1>1, ReachQueue
<1>4. ASSUME ReachedFrom(a, at[2]) PROVE QueuesInReach(q2, a) = LinedUp(f, at, id)
  BY <1>1, <1>2, <1>4 DEF QueueSet
<1> QED
  BY <1>3, <1>4 DEF q2, f

\* An id that leaves a queue within reach.
LEMMA ReachUnlined ==
  ASSUME NEW bk, NEW q, Queues(bk, q), NEW a, NEW at \in DOMAIN q, NEW p
  PROVE  /\ ReachedFrom(a, at[2]) => QueuesInReach(Unlined(q, at, p), a) = Unlined(QueuesInReach(q, a), at, p)
         /\ ~ReachedFrom(a, at[2]) => QueuesInReach(Unlined(q, at, p), a) = QueuesInReach(q, a)
<1> DEFINE v == RemoveAt(q[at], p)
           q2 == Unlined(q, at, p)
           f == QueuesInReach(q, a)
<1>1. QueueSet(q, q2, at, v) /\ f = QueuesInReach(q, a) /\ QueueSet(f, Unlined(f, at, p), at, RemoveAt(f[at], p))
  BY DEF QueueSet, Unlined
<1> HIDE DEF q2, f
<1>2. ReachedFrom(a, at[2]) => f[at] = q[at] /\ QueueSet(f, QueuesInReach(q2, a), at, v)
  <2> HIDE DEF v
  <2> QED
    BY <1>1, ReachQueue
<1>3. ~ReachedFrom(a, at[2]) => QueuesInReach(q2, a) = f
  <2> HIDE DEF v
  <2> QED
    BY <1>1, ReachQueue
<1>4. ASSUME ReachedFrom(a, at[2]) PROVE QueuesInReach(q2, a) = Unlined(f, at, p)
  BY <1>1, <1>2, <1>4 DEF QueueSet
<1> QED
  BY <1>3, <1>4 DEF q2, f

\* An order of the market within reach sits in the array.
LEMMA SitsInReach ==
  ASSUME NEW bk, NEW q, FromFeed(bk), NEW a, NEW id \in DOMAIN bk, NEW side, side = bk[id].side, NEW price, price = bk[id].price,
         ReachedFrom(a, price), NEW at, at = <<side, price>>, at \in DOMAIN q, NEW p \in 1..Len(q[at]), q[at][p] = id,
         NEW loc, NEW n, n = loc[id], NEW i, i = IndexOf(a, price)
  PROVE  Sits(a, InReach(bk, a), QueuesInReach(q, a), loc, id, side, price, p, n, i)
<1>1. id \in DOMAIN InReach(bk, a) /\ InReach(bk, a)[id] = bk[id] /\ side \in Sides /\ price \in PricesOf(side)
  BY InReachIs DEF FromFeed
<1>2. QueuesInReach(q, a)[at] = q[at] /\ DOMAIN QueuesInReach(q, a) = DOMAIN q
  BY QueuesReached
<1>3. BucketAt(a, side, i, price)
  BY <1>1 DEF BucketAt
<1>4. IsPlace(QueuesInReach(q, a), loc, at, p, id, n)
  BY <1>2 DEF IsPlace
<1> QED
  BY <1>1, <1>3, <1>4 DEF Sits

---------------------------------------------------------------------------
(* The market's queues. *)

\* A queue of which the ids in keep stay, when a message about id leaves those in holders at its price.
Waited(s, holders, keep, id) ==
  LET stay == KeptIn(s, keep)
  IN  IF id \in holders /\ id \notin ToSet(stay) THEN Append(stay, id) ELSE stay

KeepsAt(m, next, at) == IF Grows(m) THEN HoldersAt(next, at) \ {m.order_id} ELSE HoldersAt(next, at)

\* The queues after a message, place by place.
LEMMA QueuedIs ==
  \A m, next : Queued(m, next) = [at \in Sides \X Prices |->
                                    Waited(queue[at], HoldersAt(next, at), KeepsAt(m, next, at), m.order_id)]
<1> SUFFICES ASSUME NEW m, NEW next
             PROVE  Queued(m, next) = [at \in Sides \X Prices |->
                                         Waited(queue[at], HoldersAt(next, at), KeepsAt(m, next, at), m.order_id)]
  OBVIOUS
<1> DEFINE here(at) == {id \in DOMAIN next : at = <<next[id].side, next[id].price>>}
           kept(at) == IF Grows(m) THEN here(at) \ {m.order_id} ELSE here(at)
<1>1. Queued(m, next) = [at \in Sides \X Prices |->
                           IF m.order_id \in here(at) /\ m.order_id \notin ToSet(Those(queue[at], kept(at)))
                           THEN Append(Those(queue[at], kept(at)), m.order_id) ELSE Those(queue[at], kept(at))]
  BY DEF Queued
<1>2. \A at : here(at) = HoldersAt(next, at)
  BY DEF HoldersAt, SpotOf
<1>3. \A at : kept(at) = KeepsAt(m, next, at)
  BY <1>2 DEF KeepsAt
<1> HIDE DEF here, kept
<1>4. \A at : Those(queue[at], kept(at)) = KeptIn(queue[at], KeepsAt(m, next, at))
  BY <1>3, ThoseIs
<1> QED
  BY <1>1, <1>2, <1>4 DEF Waited

\* Of a queue the ids in keep are all but one.
KeepsRest(s, keep, id) == \A k \in 1..Len(s) : s[k] \in keep <=> s[k] # id

\* All of a queue stay but one.
LEMMA AllButOne ==
  ASSUME NEW X, NEW s \in Seq(X), NEW keep, NEW id, KeepsRest(s, keep, id), NoneTwice(s)
  PROVE  /\ id \notin ToSet(KeptIn(s, keep))
         /\ (\A k \in 1..Len(s) : s[k] # id) => KeptIn(s, keep) = s
         /\ \A p \in 1..Len(s) : s[p] = id => KeptIn(s, keep) = RemoveAt(s, p)
<1>1. ASSUME \A k \in 1..Len(s) : s[k] # id PROVE KeptIn(s, keep) = s /\ id \notin ToSet(s)
  <2>1. \A k \in 1..Len(s) : s[k] \in keep
    BY <1>1 DEF KeepsRest
  <2>2. KeptIn(s, keep) = s
    BY <2>1, KeptIs
  <2> QED
    BY <1>1, <2>2 DEF ToSet
<1>2. ASSUME NEW p \in 1..Len(s), s[p] = id PROVE KeptIn(s, keep) = RemoveAt(s, p) /\ id \notin ToSet(RemoveAt(s, p))
  <2>1. \A k \in 1..Len(s) : s[k] \in keep <=> k # p
    BY <1>2 DEF NoneTwice, KeepsRest
  <2>2. KeptIn(s, keep) = RemoveAt(s, p)
    BY <2>1, KeptIs
  <2> DEFINE r == RemoveAt(s, p)
  <2>3. /\ r \in Seq(X) /\ Len(r) = Len(s) - 1 /\ Len(s) \in Nat
        /\ \A k \in 1..(Len(s) - 1) : r[k] = s[IF k < p THEN k ELSE k + 1]
    <3>1. Len(s) \in Nat
      OBVIOUS
    <3>2. /\ RemoveAt(s, p) \in Seq(X) /\ Len(RemoveAt(s, p)) = Len(s) - 1
          /\ \A k \in 1..(Len(s) - 1) : RemoveAt(s, p)[k] = s[IF k < p THEN k ELSE k + 1]
      BY RemoveAtIs
    <3> QED
      BY <3>1, <3>2
  <2> HIDE DEF r
  <2>4. ASSUME NEW k \in 1..Len(r) PROVE r[k] # id
    <3>1. k \in 1..(Len(s) - 1) /\ k \in Nat
      BY <2>3
    <3>2. (IF k < p THEN k ELSE k + 1) \in 1..Len(s) /\ (IF k < p THEN k ELSE k + 1) # p
      BY <2>3, <3>1
    <3> QED
      BY <1>2, <2>3, <3>1, <3>2 DEF NoneTwice
  <2>5. id \notin {r[k] : k \in 1..Len(r)}
    BY <2>4
  <2>6. ToSet(r) = {r[k] : k \in 1..Len(r)}
    BY <2>3 DEF ToSet
  <2>7. id \notin ToSet(r)
    BY <2>5, <2>6
  <2> QED
    BY <2>2, <2>7 DEF r
<1>3. id \notin ToSet(KeptIn(s, keep))
  BY <1>1, <1>2
<1> QED
  BY <1>1, <1>2, <1>3

\* The queue at a, when the others stay and id stands at to or nowhere.
LEMMA QueueWaits ==
  ASSUME NEW bk, Queues(bk, queue), OnSpots(queue), NEW id, NEW m, m.order_id = id, NEW next,
         \A x : x # id => (x \in DOMAIN next <=> x \in DOMAIN bk),
         \A x \in DOMAIN bk : x # id => SpotOf(next[x]) = SpotOf(bk[x]),
         id \in DOMAIN bk /\ id \in DOMAIN next => Grows(m) \/ SpotOf(next[id]) # SpotOf(bk[id]),
         NEW a \in Sides \X Prices
  PROVE  LET now == id \in DOMAIN next /\ SpotOf(next[id]) = a
             w == Waited(queue[a], HoldersAt(next, a), KeepsAt(m, next, a), id)
         IN  /\ (\A k \in 1..Len(queue[a]) : queue[a][k] # id) => w = IF now THEN Append(queue[a], id) ELSE queue[a]
             /\ \A p \in 1..Len(queue[a]) : queue[a][p] = id =>
                   w = IF now THEN Append(RemoveAt(queue[a], p), id) ELSE RemoveAt(queue[a], p)
<1> DEFINE s == queue[a]
           keep == KeepsAt(m, next, a)
           H == HoldersAt(next, a)
           now == id \in DOMAIN next /\ SpotOf(next[id]) = a
           w == Waited(s, H, keep, id)
<1>1. a \in DOMAIN queue
  BY DEF OnSpots
<1>2. /\ s \in Seq(DOMAIN bk)
      /\ \A k \in 1..Len(s) : s[k] \in DOMAIN bk /\ SpotOf(bk[s[k]]) = a
      /\ \A j, k \in 1..Len(s) : s[j] = s[k] => j = k
  BY <1>1, QueueHolds
<1>3. id \in H <=> now
  BY DEF HoldersAt
<1>4. \A x \in DOMAIN bk : x # id /\ SpotOf(bk[x]) = a => x \in H
  BY DEF HoldersAt
<1>5. keep = (IF Grows(m) THEN H \ {id} ELSE H)
  BY DEF KeepsAt
<1>6. id \in keep => id \in DOMAIN next /\ SpotOf(next[id]) = a /\ ~Grows(m)
  BY <1>3, <1>5
<1> HIDE DEF s, H, keep
<1>7. KeepsRest(s, keep, id)
  <2>1. ASSUME NEW k \in 1..Len(s), s[k] # id PROVE s[k] \in keep
    BY <1>2, <1>4, <1>5, <2>1
  <2>2. ASSUME NEW k \in 1..Len(s), s[k] = id PROVE s[k] \notin keep
    BY <1>2, <1>6, <2>2
  <2> QED
    BY <2>1, <2>2 DEF KeepsRest
<1>8. NoneTwice(s)
  BY <1>2 DEF NoneTwice
<1> DEFINE stay == KeptIn(s, keep)
<1>9. /\ id \notin ToSet(stay)
      /\ (\A k \in 1..Len(s) : s[k] # id) => stay = s
      /\ \A p \in 1..Len(s) : s[p] = id => stay = RemoveAt(s, p)
  BY ONLY <1>2, <1>7, <1>8, AllButOne
<1>10. w = IF now THEN Append(stay, id) ELSE stay
  BY <1>3, <1>9 DEF Waited
<1> HIDE DEF stay, now, w
<1>11. (\A k \in 1..Len(s) : s[k] # id) => w = IF now THEN Append(s, id) ELSE s
  BY <1>9, <1>10
<1>12. \A p \in 1..Len(s) : s[p] = id => w = IF now THEN Append(RemoveAt(s, p), id) ELSE RemoveAt(s, p)
  BY <1>9, <1>10
<1> QED
  BY <1>11, <1>12 DEF s, H, keep, now, w

\* A new order: it lines up, and the others stay.
LEMMA QueuedNew ==
  ASSUME NEW bk, Queues(bk, queue), OnSpots(queue), NEW id, id \notin DOMAIN bk,
         NEW o, NEW at, SpotOf(o) = at, at \in Sides \X Prices, NEW m, m.order_id = id
  PROVE  Queued(m, Widened(bk, id, o)) = LinedUp(queue, at, id)
<1> DEFINE next == Widened(bk, id, o)
           w(a) == Waited(queue[a], HoldersAt(next, a), KeepsAt(m, next, a), id)
<1>1. DOMAIN next = DOMAIN bk \cup {id} /\ next[id] = o /\ \A x \in DOMAIN bk : next[x] = bk[x]
  BY DEF Widened
<1> HIDE DEF next
<1>2. ASSUME NEW a \in Sides \X Prices
      PROVE  w(a) = IF a = at THEN Append(queue[a], id) ELSE queue[a]
  <2>1. a \in DOMAIN queue
    BY DEF OnSpots
  <2>2. \A k \in 1..Len(queue[a]) : queue[a][k] # id
    BY <2>1, QueueHolds
  <2>3. w(a) = IF id \in DOMAIN next /\ SpotOf(next[id]) = a THEN Append(queue[a], id) ELSE queue[a]
    BY <1>1, <2>2, QueueWaits
  <2> HIDE DEF w
  <2> QED
    BY <1>1, <2>3
<1>3. Queued(m, next) = [a \in Sides \X Prices |-> w(a)]
  BY QueuedIs
<1> HIDE DEF w
<1>4. Queued(m, next) = [a \in Sides \X Prices |-> IF a = at THEN Append(queue[a], id) ELSE queue[a]]
  BY <1>2, <1>3
<1>5. LinedUp(queue, at, id) = [a \in Sides \X Prices |-> IF a = at THEN Append(queue[a], id) ELSE queue[a]]
  <2>1. queue = [a \in Sides \X Prices |-> queue[a]]
    BY DEF Queues, OnSpots
  <2> QED
    BY <2>1 DEF LinedUp
<1> QED
  BY <1>4, <1>5 DEF next

\* An order is gone.
LEMMA QueuedGone ==
  ASSUME NEW bk, Queues(bk, queue), OnSpots(queue), NEW at \in DOMAIN queue, NEW p \in 1..Len(queue[at]),
         NEW id, queue[at][p] = id, NEW m, m.order_id = id
  PROVE  Queued(m, Shrunk(bk, id)) = Unlined(queue, at, p)
<1> DEFINE next == Shrunk(bk, id)
           w(a) == Waited(queue[a], HoldersAt(next, a), KeepsAt(m, next, a), id)
<1>1. DOMAIN next = DOMAIN bk \ {id} /\ \A x \in DOMAIN bk \ {id} : next[x] = bk[x]
  BY DEF Shrunk
<1> HIDE DEF next
<1>2. ASSUME NEW a \in Sides \X Prices
      PROVE  w(a) = IF a = at THEN RemoveAt(queue[a], p) ELSE queue[a]
  <2>1. a \in DOMAIN queue
    BY DEF OnSpots
  <2>2. CASE a = at
    <3>1. queue[a][p] = id /\ p \in 1..Len(queue[a])
      BY <2>2
    <3>2. w(a) = IF id \in DOMAIN next /\ SpotOf(next[id]) = a THEN Append(RemoveAt(queue[a], p), id) ELSE RemoveAt(queue[a], p)
      BY <1>1, <3>1, QueueWaits
    <3> HIDE DEF w
    <3> QED
      BY <1>1, <2>2, <3>2
  <2>3. CASE a # at
    <3>1. \A k \in 1..Len(queue[a]) : queue[a][k] # id
      BY <2>1, <2>3, QueueHolds
    <3>2. w(a) = IF id \in DOMAIN next /\ SpotOf(next[id]) = a THEN Append(queue[a], id) ELSE queue[a]
      BY <1>1, <3>1, QueueWaits
    <3> HIDE DEF w
    <3> QED
      BY <1>1, <2>3, <3>2
  <2> QED
    BY <2>2, <2>3
<1>3. Queued(m, next) = [a \in Sides \X Prices |-> w(a)]
  BY QueuedIs
<1> HIDE DEF w
<1>4. Queued(m, next) = [a \in Sides \X Prices |-> IF a = at THEN RemoveAt(queue[a], p) ELSE queue[a]]
  BY <1>2, <1>3
<1>5. Unlined(queue, at, p) = [a \in Sides \X Prices |-> IF a = at THEN RemoveAt(queue[a], p) ELSE queue[a]]
  <2>1. queue = [a \in Sides \X Prices |-> queue[a]]
    BY DEF Queues, OnSpots
  <2> QED
    BY <2>1 DEF Unlined
<1> QED
  BY <1>4, <1>5 DEF next

\* An order goes to another price, or grows: it leaves one queue and is the last of the other.
LEMMA QueuedLast ==
  ASSUME NEW bk, Queues(bk, queue), OnSpots(queue), NEW at \in DOMAIN queue, NEW p \in 1..Len(queue[at]),
         NEW id, queue[at][p] = id, NEW next, NEW to, DOMAIN next = DOMAIN bk,
         \A x \in DOMAIN bk : x # id => SpotOf(next[x]) = SpotOf(bk[x]),
         SpotOf(next[id]) = to, to \in Sides \X Prices,
         NEW m, m.order_id = id, Grows(m) \/ to # at
  PROVE  Queued(m, next) = LinedUp(Unlined(queue, at, p), to, id)
<1> DEFINE w(a) == Waited(queue[a], HoldersAt(next, a), KeepsAt(m, next, a), id)
           left(a) == IF a = at THEN RemoveAt(queue[a], p) ELSE queue[a]
           q2 == [a \in Sides \X Prices |-> IF a = to THEN Append(left(a), id) ELSE left(a)]
<1>1. id \in DOMAIN bk /\ SpotOf(bk[id]) = at
  BY QueueHolds
<1>2. ASSUME NEW a \in Sides \X Prices
      PROVE  w(a) = IF a = to THEN Append(left(a), id) ELSE left(a)
  <2>1. a \in DOMAIN queue
    BY DEF OnSpots
  <2>2. CASE a = at
    <3>1. queue[a][p] = id /\ p \in 1..Len(queue[a])
      BY <2>2
    <3>3. \A x : x # id => (x \in DOMAIN next <=> x \in DOMAIN bk)
      OBVIOUS
    <3>4. \A x \in DOMAIN bk : x # id => SpotOf(next[x]) = SpotOf(bk[x])
      OBVIOUS
    <3>5. id \in DOMAIN bk /\ id \in DOMAIN next => Grows(m) \/ SpotOf(next[id]) # SpotOf(bk[id])
      BY <1>1
    <3>6. Queues(bk, queue) /\ OnSpots(queue) /\ m.order_id = id
      OBVIOUS
    <3>7. \A r \in 1..Len(queue[a]) : queue[a][r] = id =>
            w(a) = IF id \in DOMAIN next /\ SpotOf(next[id]) = a THEN Append(RemoveAt(queue[a], r), id) ELSE RemoveAt(queue[a], r)
      BY ONLY <1>2, <3>3, <3>4, <3>5, <3>6, QueueWaits
    <3>2. w(a) = IF id \in DOMAIN next /\ SpotOf(next[id]) = a THEN Append(RemoveAt(queue[a], p), id) ELSE RemoveAt(queue[a], p)
      BY ONLY <3>1, <3>7
    <3> HIDE DEF w
    <3> QED
      BY <1>1, <2>2, <3>2
  <2>3. CASE a # at
    <3>1. \A k \in 1..Len(queue[a]) : queue[a][k] # id
      BY <1>1, <2>1, <2>3, QueueHolds
    <3>3. \A x : x # id => (x \in DOMAIN next <=> x \in DOMAIN bk)
      OBVIOUS
    <3>4. \A x \in DOMAIN bk : x # id => SpotOf(next[x]) = SpotOf(bk[x])
      OBVIOUS
    <3>5. id \in DOMAIN bk /\ id \in DOMAIN next => Grows(m) \/ SpotOf(next[id]) # SpotOf(bk[id])
      BY <1>1
    <3>6. Queues(bk, queue) /\ OnSpots(queue) /\ m.order_id = id
      OBVIOUS
    <3>2. w(a) = IF id \in DOMAIN next /\ SpotOf(next[id]) = a THEN Append(queue[a], id) ELSE queue[a]
      BY ONLY <1>2, <3>1, <3>3, <3>4, <3>5, <3>6, QueueWaits
    <3> HIDE DEF w
    <3> QED
      BY <1>1, <2>3, <3>2
  <2> QED
    BY <2>2, <2>3
<1>3. Queued(m, next) = [a \in Sides \X Prices |-> w(a)]
  BY QueuedIs
<1> HIDE DEF w
<1>4. Queued(m, next) = q2
  BY <1>2, <1>3
<1>5. LinedUp(Unlined(queue, at, p), to, id) = q2
  <2>1. queue = [a \in Sides \X Prices |-> queue[a]]
    BY DEF Queues, OnSpots
  <2> DEFINE u == Unlined(queue, at, p)
  <2>2. u = [a \in Sides \X Prices |-> left(a)]
    BY <2>1 DEF Unlined
  <2> HIDE DEF u, left
  <2>3. [u EXCEPT ![to] = Append(u[to], id)] = [a \in Sides \X Prices |-> IF a = to THEN Append(u[to], id) ELSE u[a]]
    BY <2>2
  <2>4. \A a \in Sides \X Prices : u[a] = left(a)
    BY <2>2
  <2>5. LinedUp(u, to, id) = [u EXCEPT ![to] = Append(u[to], id)]
    BY DEF LinedUp
  <2>6. LinedUp(u, to, id) = q2
    BY <2>3, <2>4, <2>5
  <2> QED
    BY <2>6 DEF u
<1> QED
  BY <1>4, <1>5

\* The orders stand where they stood.
LEMMA QueuedSame ==
  ASSUME NEW bk, Queues(bk, queue), OnSpots(queue), NEW next, DOMAIN next = DOMAIN bk,
         \A x \in DOMAIN bk : SpotOf(next[x]) = SpotOf(bk[x]), NEW m, ~Grows(m)
  PROVE  Queued(m, next) = queue
<1> DEFINE id == m.order_id
           w(a) == Waited(queue[a], HoldersAt(next, a), KeepsAt(m, next, a), id)
<1>1. ASSUME NEW a \in Sides \X Prices PROVE w(a) = queue[a]
  <2> DEFINE s == queue[a]
             H == HoldersAt(next, a)
  <2>1. a \in DOMAIN queue
    BY DEF OnSpots
  <2>2. /\ s \in Seq(DOMAIN bk) /\ \A k \in 1..Len(s) : s[k] \in DOMAIN bk /\ SpotOf(bk[s[k]]) = a
        /\ \A x \in DOMAIN bk : SpotOf(bk[x]) = a => \E k \in 1..Len(s) : s[k] = x
    BY <2>1, QueueHolds
  <2>3. \A k \in 1..Len(s) : s[k] \in H
    BY <2>2 DEF HoldersAt
  <2>4. id \in H => \E k \in 1..Len(s) : s[k] = id
    BY <2>2 DEF HoldersAt
  <2>5. KeepsAt(m, next, a) = H
    BY DEF KeepsAt
  <2> HIDE DEF s, H, id
  <2>6. KeptIn(s, H) = s
    BY <2>2, <2>3, KeptIs
  <2>7. ToSet(s) = {s[k] : k \in 1..Len(s)}
    BY <2>2 DEF ToSet
  <2>8. Waited(s, H, H, id) = s
    BY <2>4, <2>6, <2>7 DEF Waited
  <2> QED
    BY <2>5, <2>8 DEF s, H
<1>2. Queued(m, next) = [a \in Sides \X Prices |-> w(a)]
  BY QueuedIs
<1> HIDE DEF w
<1>3. queue = [a \in Sides \X Prices |-> queue[a]]
  BY DEF Queues, OnSpots
<1> QED
  BY <1>1, <1>2, <1>3

\* All orders are gone.
LEMMA QueuedNone ==
  ASSUME NEW bk, Queues(bk, queue), OnSpots(queue), NEW m
  PROVE  Queued(m, NoOrders) = NoQueues
<1> DEFINE w(a) == Waited(queue[a], HoldersAt(NoOrders, a), KeepsAt(m, NoOrders, a), m.order_id)
<1>1. ASSUME NEW a \in Sides \X Prices PROVE w(a) = <<>>
  <2>1. HoldersAt(NoOrders, a) = {}
    BY DEF HoldersAt, NoOrders
  <2>2. KeepsAt(m, NoOrders, a) = {}
    BY <2>1 DEF KeepsAt
  <2>3. queue[a] \in Seq(DOMAIN bk)
    BY QueueHolds DEF OnSpots
  <2>4. KeptIn(queue[a], {}) = <<>>
    BY <2>3, KeptIs
  <2> QED
    BY <2>1, <2>2, <2>4 DEF Waited
<1>2. Queued(m, NoOrders) = [a \in Sides \X Prices |-> w(a)]
  BY QueuedIs
<1> HIDE DEF w
<1> QED
  BY <1>1, <1>2 DEF NoQueues

---------------------------------------------------------------------------
(* The messages. *)

\* The market's book after a message.
LEMMA MarketIs ==
  ASSUME NEW bk, IsBook(bk), NEW id, NEW side, NEW price, NEW size, NEW m, AsksFor(m, id, side, price, size),
         NEW o, IsOrderOf(o, side, price, size)
  PROVE  /\ Market!AddOrder(bk, m) = Widened(bk, id, o)
         /\ id \notin DOMAIN bk => Market!ModifyOrder(bk, m) = Widened(bk, id, o)
         /\ id \in DOMAIN bk =>
              /\ bk[id].side = side /\ bk[id].price # price => Market!ModifyOrder(bk, m) = Widened(Shrunk(bk, id), id, o)
              /\ bk[id].price = price => Market!ModifyOrder(bk, m) = Sized(bk, id, size)
              /\ bk[id].size = size => Market!CancelBookOrder(bk, m) = Shrunk(bk, id)
              /\ size \in Nat /\ size < bk[id].size => Market!CancelBookOrder(bk, m) = Sized(bk, id, bk[id].size - size)
<1>1. m.order_id = id /\ m.side = side /\ m.price = price /\ m.size = size
  BY DEF AsksFor
<1>2. o = [side |-> side, price |-> price, size |-> size]
  BY DEF IsOrderOf
<1>3. Market!AddOrder(bk, m) = Widened(bk, id, o)
  BY <1>1, <1>2 DEF Market!AddOrder, Widened
<1>4. id \notin DOMAIN bk => Market!ModifyOrder(bk, m) = Widened(bk, id, o)
  BY <1>1, <1>3 DEF Market!ModifyOrder
<1>5. ASSUME id \in DOMAIN bk
      PROVE  /\ bk[id].side = side /\ bk[id].price # price => Market!ModifyOrder(bk, m) = Widened(Shrunk(bk, id), id, o)
             /\ bk[id].price = price => Market!ModifyOrder(bk, m) = Sized(bk, id, size)
             /\ bk[id].size = size => Market!CancelBookOrder(bk, m) = Shrunk(bk, id)
             /\ size \in Nat /\ size < bk[id].size => Market!CancelBookOrder(bk, m) = Sized(bk, id, bk[id].size - size)
  <2> DEFINE r == bk[id]
             r1 == [r EXCEPT !.price = price]
             r2 == [r1 EXCEPT !.size = size]
             b1 == [bk EXCEPT ![id] = r1]
  <2>1. bk = [x \in DOMAIN bk |-> bk[x]] /\ r = [side |-> r.side, price |-> r.price, size |-> r.size] /\ r.size \in Nat \ {0}
    BY <1>5 DEF IsBook
  <2>2. Market!ModifyOrder(bk, m) = [b1 EXCEPT ![id] = [b1[id] EXCEPT !.size = size]]
    BY <1>1, <1>5 DEF Market!ModifyOrder
  <2> HIDE DEF r
  <2>3. r1 = [side |-> r.side, price |-> price, size |-> r.size]
    BY <2>1
  <2> HIDE DEF r1
  <2>4. r2 = [side |-> r.side, price |-> price, size |-> size]
    BY <2>3
  <2>5. b1[id] = r1 /\ [b1 EXCEPT ![id] = [b1[id] EXCEPT !.size = size]] = [bk EXCEPT ![id] = r2]
    BY <1>5, <2>1
  <2> HIDE DEF r2, b1
  <2>6. Market!ModifyOrder(bk, m) = [bk EXCEPT ![id] = r2]
    BY <2>2, <2>5
  <2>7. ASSUME r.side = side PROVE Market!ModifyOrder(bk, m) = Widened(Shrunk(bk, id), id, o)
    <3>1. r2 = o
      BY <1>2, <2>4, <2>7
    <3>2. [bk EXCEPT ![id] = o] = [x \in DOMAIN bk |-> IF x = id THEN o ELSE bk[x]]
      BY <2>1
    <3>3. DOMAIN Shrunk(bk, id) = DOMAIN bk \ {id} /\ \A x \in DOMAIN bk \ {id} : Shrunk(bk, id)[x] = bk[x]
      BY DEF Shrunk
    <3>4. Widened(Shrunk(bk, id), id, o) = [x \in DOMAIN bk |-> IF x = id THEN o ELSE bk[x]]
      BY <1>5, <3>3 DEF Widened
    <3> QED
      BY <2>6, <3>1, <3>2, <3>4
  <2>8. ASSUME r.price = price PROVE Market!ModifyOrder(bk, m) = Sized(bk, id, size)
    <3>1. [r EXCEPT !.size = size] = r2
      BY <2>1, <2>4, <2>8
    <3> QED
      BY <2>6, <3>1 DEF Sized, r
  <2>9. ASSUME r.size = size PROVE Market!CancelBookOrder(bk, m) = Shrunk(bk, id)
    BY <1>1, <2>1, <2>9 DEF Market!CancelBookOrder, Shrunk, r
  <2>10. ASSUME size \in Nat, size < r.size PROVE Market!CancelBookOrder(bk, m) = Sized(bk, id, r.size - size)
    <3>1. r.size - size # 0
      BY <2>1, <2>10
    <3> QED
      BY <1>1, <3>1 DEF Market!CancelBookOrder, Sized, r
  <2> QED
    BY <2>7, <2>8, <2>9, <2>10 DEF r
<1> QED
  BY <1>3, <1>4, <1>5

\* The parts of a message.
LEMMA MessageIs ==
  ASSUME NEW action, NEW id, NEW side, NEW price, NEW size, NEW m, m = Message(action, id, side, price, size)
  PROVE  /\ AsksFor(m, id, side, price, size) /\ m.action = action
         /\ m.order_id = id /\ m.price = price /\ m.size = size
  BY DEF Message, AsksFor

\* Sizes are positive.
LEMMA SizesPositive == \A size \in Sizes : size \in Nat \ {0}
  BY FeedAssumption

\* The array shows those of the market's orders that it reaches.
Shows(b, bk, q, a) == Trading(bk, q) /\ \E loc : Arrayed(b, a, InReach(bk, a), QueuesInReach(q, a), loc)

\* The market with a new order, without one, and with one of another size.
LEMMA TradingWith ==
  ASSUME NEW bk, NEW q, Trading(bk, q), NEW id \in Ids, id \notin DOMAIN bk, NEW side \in Sides, NEW price \in PricesOf(side),
         NEW size \in Nat \ {0}, NEW o, IsOrderOf(o, side, price, size), NEW at, at = <<side, price>>
  PROVE  Trading(Widened(bk, id, o), LinedUp(q, at, id))
<1>1. OnSpots(q) /\ FromFeed(bk) /\ IsBook(bk) /\ Queues(bk, q)
  BY DEF Trading
<1>2. IsRest(o) /\ SpotOf(o) = at /\ o.side = side /\ o.price = price
  BY OrderIs
<1>3. at \in DOMAIN q
  BY <1>1, PricesAre DEF OnSpots
<1>4. id \in Nat \ {0}
  BY FeedAssumption
<1>5. /\ IsBook(Widened(bk, id, o)) /\ DOMAIN Widened(bk, id, o) = DOMAIN bk \cup {id}
      /\ Widened(bk, id, o)[id] = o /\ \A x \in DOMAIN bk : Widened(bk, id, o)[x] = bk[x]
  <2>1. IsBook(bk) /\ id \in Nat \ {0} /\ id \notin DOMAIN bk /\ IsRest(o)
    BY <1>1, <1>2, <1>4
  <2> QED
    BY ONLY <2>1, RestingWith
<1>6. Queues(Widened(bk, id, o), LinedUp(q, at, id))
  BY <1>1, <1>2, <1>3, QueuesWith
<1>7. OnSpots(LinedUp(q, at, id))
  BY <1>1 DEF OnSpots, LinedUp
<1>8. FromFeed(Widened(bk, id, o))
  BY <1>1, <1>2, <1>5 DEF FromFeed
<1> QED
  BY <1>5, <1>6, <1>7, <1>8 DEF Trading

\* The market without one of its orders.
LEMMA TradingWithout ==
  ASSUME NEW bk, NEW q, Trading(bk, q), NEW at \in DOMAIN q, NEW p \in 1..Len(q[at]), NEW id, id = q[at][p]
  PROVE  Trading(Shrunk(bk, id), Unlined(q, at, p))
<1>1. OnSpots(q) /\ FromFeed(bk) /\ IsBook(bk) /\ Queues(bk, q)
  BY DEF Trading
<1>2. /\ IsBook(Shrunk(bk, id)) /\ DOMAIN Shrunk(bk, id) = DOMAIN bk \ {id}
      /\ \A x \in DOMAIN bk \ {id} : Shrunk(bk, id)[x] = bk[x]
  BY <1>1, RestingWithout
<1>3. Queues(Shrunk(bk, id), Unlined(q, at, p))
  BY <1>1, QueuesWithout
<1>4. OnSpots(Unlined(q, at, p))
  BY <1>1 DEF OnSpots, Unlined
<1>5. FromFeed(Shrunk(bk, id))
  BY <1>1, <1>2 DEF FromFeed
<1> QED
  BY <1>2, <1>3, <1>4, <1>5 DEF Trading

\* The market when an order's size changes.
LEMMA TradingSized ==
  ASSUME NEW bk, NEW q, Trading(bk, q), NEW id \in DOMAIN bk, NEW size \in Nat \ {0}
  PROVE  Trading(Sized(bk, id, size), q)
<1>1. OnSpots(q) /\ FromFeed(bk) /\ IsBook(bk) /\ Queues(bk, q)
  BY DEF Trading
<1>2. /\ IsBook(Sized(bk, id, size)) /\ DOMAIN Sized(bk, id, size) = DOMAIN bk
      /\ \A x \in DOMAIN bk : Sized(bk, id, size)[x].side = bk[x].side /\ Sized(bk, id, size)[x].price = bk[x].price
  BY <1>1, RestingSized
<1>3. Queues(Sized(bk, id, size), q)
  BY <1>1, QueuesSized
<1>4. FromFeed(Sized(bk, id, size))
  BY <1>1, <1>2 DEF FromFeed
<1> QED
  BY <1>1, <1>2, <1>3, <1>4 DEF Trading

\* An order goes to the end of its queue.
LEMMA TradingRequeued ==
  ASSUME NEW bk, NEW q, Trading(bk, q), NEW at \in DOMAIN q, NEW p \in 1..Len(q[at]), NEW id, id = q[at][p]
  PROVE  Trading(bk, LinedUp(Unlined(q, at, p), at, id))
<1>1. OnSpots(q) /\ FromFeed(bk) /\ IsBook(bk) /\ Queues(bk, q)
  BY DEF Trading
<1> DEFINE q1 == Unlined(q, at, p)
           bk1 == Shrunk(bk, id)
           o == bk[id]
<1>2. id \in DOMAIN bk /\ SpotOf(o) = at
  BY <1>1, QueueHolds
<1>3. Queues(bk1, q1)
  BY <1>1, QueuesWithout
<1>4. id \notin DOMAIN bk1
  BY DEF Shrunk
<1>5. OnSpots(q1) /\ at \in DOMAIN q1
  BY <1>1 DEF OnSpots, Unlined
<1>6. Widened(bk1, id, o) = bk
  <2>1. bk = [x \in DOMAIN bk |-> bk[x]]
    BY <1>1 DEF IsBook
  <2>2. DOMAIN bk1 = DOMAIN bk \ {id} /\ \A x \in DOMAIN bk \ {id} : bk1[x] = bk[x]
    BY DEF Shrunk
  <2> HIDE DEF bk1
  <2>3. Widened(bk1, id, o) = [x \in DOMAIN bk |-> bk[x]]
    BY <1>2, <2>2 DEF Widened
  <2> QED
    BY <2>1, <2>3
<1> HIDE DEF q1, bk1, o
<1>7. Queues(Widened(bk1, id, o), LinedUp(q1, SpotOf(o), id))
  BY <1>2, <1>3, <1>4, <1>5, QueuesWith
<1>8. OnSpots(LinedUp(q1, at, id))
  BY <1>5 DEF OnSpots, LinedUp
<1>9. Queues(bk, LinedUp(q1, at, id))
  BY <1>2, <1>6, <1>7
<1> QED
  BY <1>1, <1>8, <1>9 DEF Trading, q1

---------------------------------------------------------------------------
(* The array after a message, beside the market. *)

\* Who is not there cannot be taken away.
LEMMA ShrunkSame ==
  ASSUME NEW bk, IsBook(bk), NEW id, id \notin DOMAIN bk
  PROVE  Shrunk(bk, id) = bk
<1>1. bk = [x \in DOMAIN bk |-> bk[x]] /\ DOMAIN bk \ {id} = DOMAIN bk
  BY DEF IsBook
<1> QED
  BY <1>1 DEF Shrunk

\* The market's orders within reach are a book.
LEMMA ReachBook ==
  ASSUME NEW bk, IsBook(bk), NEW a
  PROVE  IsBook(InReach(bk, a))
<1> DEFINE D == {x \in DOMAIN bk : ReachedFrom(a, bk[x].price)}
<1>1. InReach(bk, a) = [x \in D |-> bk[x]]
  BY DEF InReach
<1>2. IsFiniteSet(D)
  BY FS_Subset DEF IsBook
<1>3. D \subseteq DOMAIN bk
  OBVIOUS
<1> HIDE DEF D
<1>4. DOMAIN InReach(bk, a) = D /\ \A x \in D : InReach(bk, a)[x] = bk[x]
  BY <1>1
<1>5. InReach(bk, a) = [x \in D |-> InReach(bk, a)[x]]
  BY <1>1
<1> QED
  BY <1>2, <1>3, <1>4, <1>5 DEF IsBook

\* The order at place p of a queue, of which no more than asked is left.
Goes(bk, q, at, p, id, asked) ==
  /\ at \in DOMAIN q /\ p \in 1..Len(q[at]) /\ id \in DOMAIN bk /\ q[at][p] = id /\ at = SpotOf(bk[id])
  /\ asked \in Nat /\ bk[id].size <= asked

\* The array without an order that is gone from the market.
LEMMA ShowsWithout ==
  ASSUME NEW b, NEW bk, NEW q, NEW a, Shows(b, bk, q, a),
         NEW at, NEW p, NEW id, NEW asked, Goes(bk, q, at, p, id, asked)
  PROVE  /\ Shows(CancelOrder(b, id, asked), Shrunk(bk, id), Unlined(q, at, p), a)
         /\ CancelOrder(b, id, asked).error = b.error
         /\ ReachedFrom(a, bk[id].price) => CancelOrder(b, id, asked).free # <<>>
<1>0. /\ at \in DOMAIN q /\ p \in 1..Len(q[at]) /\ id \in DOMAIN bk /\ q[at][p] = id /\ at = SpotOf(bk[id])
      /\ asked \in Nat /\ bk[id].size <= asked
  BY DEF Goes
<1> USE <1>0
<1> DEFINE b2 == CancelOrder(b, id, asked)
<1> DEFINE rb == InReach(bk, a)
           rq == QueuesInReach(q, a)
           side == bk[id].side
           price == bk[id].price
           i == IndexOf(a, price)
<1>1. OnSpots(q) /\ FromFeed(bk) /\ IsBook(bk) /\ Queues(bk, q)
  BY DEF Trading, Shows
<1>2. PICK loc : Arrayed(b, a, rb, rq, loc)
  BY DEF Shows
<1>3. Trading(Shrunk(bk, id), Unlined(q, at, p))
  BY TradingWithout DEF Shows
<1>4. InReach(Shrunk(bk, id), a) = Shrunk(rb, id)
  BY ReachWithout
<1>5. at = <<side, price>> /\ at[2] = price
  BY DEF SpotOf
<1>6. CASE ReachedFrom(a, price)
  <2> DEFINE n == loc[id]
  <2>1. Sits(a, rb, rq, loc, id, side, price, p, n, i)
    BY <1>1, <1>5, <1>6, SitsInReach
  <2>2. QueuesInReach(Unlined(q, at, p), a) = Unlined(rq, at, p)
    BY <1>1, <1>5, <1>6, ReachUnlined
  <2>3. rb[id].size <= asked
    BY <1>6, InReachIs
  <2> HIDE DEF n, i, side, price, rb, rq, b2
  <2>4. /\ Arrayed(b, a, rb, rq, loc) /\ Sits(a, rb, rq, loc, id, side, price, p, n, i) /\ at = <<side, price>>
        /\ asked \in Nat /\ rb[id].size <= asked /\ b2 = CancelOrder(b, id, asked)
    BY <1>2, <1>5, <2>1, <2>3 DEF b2
  <2>5. /\ Arrayed(b2, a, Shrunk(rb, id), Unlined(rq, at, p), Shrunk(loc, id))
        /\ b2.error = b.error /\ b2.free = Append(b.free, n)
    BY ONLY <2>4, LeavesGood
  <2>6. b2.free # <<>>
    <3>1. b.free \in Seq(0..(MaxOrders - 1))
      BY <1>2 DEF Arrayed, Shelf, Located
    <3>2. n \in 0..(MaxOrders - 1)
      BY ONLY <2>4, SitsIs
    <3> QED
      BY ONLY <2>5, <3>1, <3>2
  <2> QED
    BY <1>3, <1>4, <2>2, <2>5, <2>6 DEF Shows, b2, rb, rq, price
<1>7. CASE ~ReachedFrom(a, price)
  <2>1. id \notin DOMAIN rb
    BY <1>7, InReachIs
  <2>2. Shrunk(rb, id) = rb
    BY <1>1, <2>1, ReachBook, ShrunkSame
  <2>3. QueuesInReach(Unlined(q, at, p), a) = rq
    BY <1>1, <1>5, <1>7, ReachUnlined
  <2>4. id \in Ids
    BY <1>1 DEF FromFeed
  <2>5. b2 = b
    <3> HIDE DEF rb, rq
    <3>1. \A x : CancelOrder(b, id, x) = b
      BY <1>2, <2>1, <2>4, UnknownIs
    <3> QED
      BY <3>1
  <2> QED
    BY <1>2, <1>3, <1>4, <1>7, <2>2, <2>3, <2>5 DEF Shows
<1> QED
  BY <1>6, <1>7

\* The array when a part of an order is cancelled.
LEMMA ShowsPart ==
  ASSUME NEW b, NEW bk, NEW q, NEW a, Shows(b, bk, q, a), NEW id \in DOMAIN bk,
         NEW asked \in Nat, asked < bk[id].size, NEW size, size = bk[id].size - asked, size \in Nat \ {0},
         NEW b2, b2 = CancelOrder(b, id, asked)
  PROVE  Shows(b2, Sized(bk, id, size), q, a) /\ b2.error = b.error
<1> DEFINE rb == InReach(bk, a)
           rq == QueuesInReach(q, a)
           price == bk[id].price
<1>1. OnSpots(q) /\ FromFeed(bk) /\ IsBook(bk) /\ Queues(bk, q)
  BY DEF Trading, Shows
<1>2. PICK loc : Arrayed(b, a, rb, rq, loc)
  BY DEF Shows
<1>3. Trading(Sized(bk, id, size), q)
  BY TradingSized DEF Shows
<1>4. /\ ReachedFrom(a, price) => InReach(Sized(bk, id, size), a) = Sized(rb, id, size)
      /\ ~ReachedFrom(a, price) => InReach(Sized(bk, id, size), a) = rb
  BY <1>1, ReachSized
<1>5. CASE ReachedFrom(a, price)
  <2>1. id \in DOMAIN rb /\ rb[id] = bk[id]
    BY <1>5, InReachIs
  <2>2. Arrayed(b2, a, Sized(rb, id, size), rq, loc) /\ b2.error = b.error
    <3> HIDE DEF rb, rq
    <3>1. /\ Arrayed(b, a, rb, rq, loc) /\ id \in DOMAIN rb /\ asked \in Nat /\ asked < rb[id].size
          /\ size = rb[id].size - asked /\ b2 = CancelOrder(b, id, asked)
      BY <1>2, <2>1
    <3> QED
      BY ONLY <3>1, PartGood
  <2> QED
    BY <1>3, <1>4, <1>5, <2>2 DEF Shows
<1>6. CASE ~ReachedFrom(a, price)
  <2>1. id \notin DOMAIN rb
    BY <1>6, InReachIs
  <2>2. id \in Ids
    BY <1>1 DEF FromFeed
  <2>3. b2 = b
    <3> HIDE DEF rb, rq
    <3>1. \A x : CancelOrder(b, id, x) = b
      BY <1>2, <2>1, <2>2, UnknownIs
    <3> QED
      BY <3>1
  <2> QED
    BY <1>2, <1>3, <1>4, <1>6, <2>3 DEF Shows
<1> QED
  BY <1>5, <1>6

\* A new order comes to the market, and to an array that becomes c when it has a middle.
Comes(b, bk, q, a, id, side, price, size, m, o, at, c) ==
  /\ a \in Prices /\ id \in Ids /\ id \notin DOMAIN bk /\ side \in Sides /\ price \in PricesOf(side) /\ size \in Nat \ {0}
  /\ AsksFor(m, id, side, price, size) /\ IsOrderOf(o, side, price, size) /\ at = <<side, price>>
  /\ c = Anchored(b, price) /\ Shows(c, bk, q, a)

\* The array when an order comes to the market: a full pool throws.
LEMMA ShowsWith ==
  ASSUME NEW b, NEW bk, NEW q, NEW a, NEW id, NEW side, NEW price, NEW size, NEW m, NEW o, NEW at, NEW c,
         Comes(b, bk, q, a, id, side, price, size, m, o, at, c)
  PROVE  \/ ReachedFrom(a, price) /\ c.free = <<>> /\ AddOrder(b, m) = Throw(c, Thrown)
         \/ Shows(AddOrder(b, m), Widened(bk, id, o), LinedUp(q, at, id), a) /\ AddOrder(b, m).error = c.error
<1>0. /\ a \in Prices /\ id \in Ids /\ id \notin DOMAIN bk /\ side \in Sides /\ price \in PricesOf(side) /\ size \in Nat \ {0}
      /\ AsksFor(m, id, side, price, size) /\ IsOrderOf(o, side, price, size) /\ at = <<side, price>>
      /\ c = Anchored(b, price) /\ Shows(c, bk, q, a)
  BY DEF Comes
<1> USE <1>0
<1> DEFINE b2 == AddOrder(b, m)
<1> DEFINE rb == InReach(bk, a)
           rq == QueuesInReach(q, a)
           i == IndexOf(a, price)
<1>1. OnSpots(q) /\ FromFeed(bk) /\ IsBook(bk) /\ Queues(bk, q) /\ Trading(bk, q)
  BY DEF Trading, Shows
<1>2. PICK loc : Arrayed(c, a, rb, rq, loc)
  BY DEF Shows
<1>3. Trading(Widened(bk, id, o), LinedUp(q, at, id))
  BY <1>1, TradingWith
<1>4. at \in DOMAIN q /\ at[2] = price /\ o.price = price
  BY <1>1, PricesAre, OrderIs DEF OnSpots
<1>5. /\ ReachedFrom(a, price) => InReach(Widened(bk, id, o), a) = Widened(rb, id, o)
      /\ ~ReachedFrom(a, price) => InReach(Widened(bk, id, o), a) = rb
  BY <1>4, ReachWith
<1>6. /\ ReachedFrom(a, price) => QueuesInReach(LinedUp(q, at, id), a) = LinedUp(rq, at, id)
      /\ ~ReachedFrom(a, price) => QueuesInReach(LinedUp(q, at, id), a) = rq
  BY <1>1, <1>4, ReachLinedUp
<1>7. id \notin DOMAIN rb
  BY InReachIs
<1> HIDE DEF rb, rq, i, b2
<1>8. /\ ~ReachedFrom(a, price) => b2 = c
      /\ ReachedFrom(a, price) =>
           /\ BucketAt(a, side, i, price)
           /\ c.free = <<>> => b2 = Throw(c, Thrown)
           /\ c.free # <<>> => b2 = Placed(c, m, i)
  <2>1. i = IndexOf(a, price)
    BY DEF i
  <2>2. /\ ~ReachedFrom(a, price) => AddOrder(b, m) = c
        /\ ReachedFrom(a, price) =>
             /\ BucketAt(a, side, i, price)
             /\ c.free = <<>> => AddOrder(b, m) = Throw(c, Thrown)
             /\ c.free # <<>> => AddOrder(b, m) = Placed(c, m, i)
    BY <1>2, <2>1, AddIs
  <2> QED
    BY <2>2 DEF b2
<1>9. CASE ~ReachedFrom(a, price)
  BY <1>2, <1>3, <1>5, <1>6, <1>8, <1>9 DEF Shows, rb, rq, b2
<1>10. CASE ReachedFrom(a, price) /\ c.free = <<>>
  BY <1>8, <1>10 DEF b2
<1>11. CASE ReachedFrom(a, price) /\ c.free # <<>>
  <2> DEFINE n == Last(c.free)
  <2>1. n = Last(c.free)
    OBVIOUS
  <2> HIDE DEF n
  <2>2. Enters(c, a, rb, rq, loc, id, side, price, i, size, m, o, at, n)
    BY <1>2, <1>7, <1>8, <1>11, <2>1 DEF Enters
  <2>3. /\ Arrayed(Placed(c, m, i), a, Widened(rb, id, o), LinedUp(rq, at, id), Widened(loc, id, n))
        /\ Placed(c, m, i).error = c.error
    BY ONLY <2>2, EntersGood
  <2> QED
    BY <1>3, <1>5, <1>6, <1>8, <1>11, <2>3 DEF Shows, rb, rq, b2
<1> QED
  BY <1>9, <1>10, <1>11 DEF b2

\* An array that throws shows what it showed.
LEMMA ShowsThrow ==
  ASSUME NEW b, NEW bk, NEW q, NEW a, Shows(b, bk, q, a), NEW b2, b2 = Throw(b, Thrown)
  PROVE  Shows(b2, bk, q, a) /\ b2.error = Thrown
<1>1. PICK loc : Arrayed(b, a, InReach(bk, a), QueuesInReach(q, a), loc)
  BY DEF Shows
<1>2. Arrayed(b2, a, InReach(bk, a), QueuesInReach(q, a), loc) /\ b2.error = Thrown
  BY <1>1, ThrowGood
<1> QED
  BY <1>2 DEF Shows

\* The first price after a clear is the middle of the array.
LEMMA ShowsAnchored ==
  ASSUME NEW b, NEW bk, NEW q, NEW a, Good(b, bk, q, a), NEW price \in Prices,
         NEW a2, a2 = (IF a = Undef THEN price ELSE a), NEW c, c = Anchored(b, price)
  PROVE  Shows(c, bk, q, a2) /\ a2 \in Prices /\ a2 # Undef /\ c.error = b.error /\ c.base = a2
<1>1. OnSpots(q) /\ FromFeed(bk) /\ IsBook(bk) /\ Queues(bk, q) /\ Trading(bk, q)
  BY DEF Trading, Good
<1>2. PICK loc : Arrayed(b, a, InReach(bk, a), QueuesInReach(q, a), loc)
  BY DEF Good
<1>3. a \in Prices \cup {Undef}
  BY <1>2 DEF Arrayed
<1>4. price # Undef /\ a2 \in Prices /\ a2 # Undef
  BY <1>3, GridIs
<1>5. CASE a # Undef
  <2>1. Anchored(b, price) = b
    BY <1>2, <1>5, AnchoredStays
  <2>2. b.base = a
    BY <1>2 DEF Arrayed
  <2> QED
    BY <1>1, <1>2, <1>4, <1>5, <2>1, <2>2 DEF Shows
<1>6. CASE a = Undef
  <2>1. DOMAIN bk = {}
    BY <1>6 DEF Good
  <2>2. InReach(bk, a) = InReach(bk, price)
    BY <2>1 DEF InReach
  <2>3. QueuesInReach(q, a) = QueuesInReach(q, price)
    <3>1. \A at \in DOMAIN q : q[at] = <<>>
      <4>1. \A at \in DOMAIN q : q[at] \in Seq(DOMAIN bk)
        BY <1>1, QueueHolds
      <4> QED
        BY <2>1, <4>1, EmptySeq
    <3>2. \A at \in DOMAIN q : (IF ReachedFrom(a, at[2]) THEN q[at] ELSE <<>>) = IF ReachedFrom(price, at[2]) THEN q[at] ELSE <<>>
      BY <3>1
    <3> QED
      BY <3>2 DEF QueuesInReach
  <2>4. Arrayed(b, Undef, InReach(bk, price), QueuesInReach(q, price), loc)
    BY <1>2, <1>6, <2>2, <2>3
  <2>5. Arrayed(Anchored(b, price), price, InReach(bk, price), QueuesInReach(q, price), loc) /\ Anchored(b, price).error = b.error
    BY <2>4, AnchoredFirst
  <2>6. Anchored(b, price).base = price
    BY <2>5 DEF Arrayed
  <2> QED
    BY <1>1, <1>4, <1>6, <2>5, <2>6 DEF Shows
<1> QED
  BY <1>5, <1>6

\* The array when an order stays at its price with another size: one that grows is the last there.
LEMMA ShowsResized ==
  ASSUME NEW b, NEW bk, NEW q, NEW a, Shows(b, bk, q, a), a # Undef, NEW id \in DOMAIN bk,
         NEW side, side = bk[id].side, NEW price, price = bk[id].price, NEW at, at = <<side, price>>,
         at \in DOMAIN q, NEW p \in 1..Len(q[at]), q[at][p] = id, NEW size \in Nat \ {0},
         NEW m, AsksFor(m, id, side, price, size), NEW b2, b2 = ModifyOrder(b, m),
         NEW q2, q2 = IF size > bk[id].size THEN LinedUp(Unlined(q, at, p), at, id) ELSE q
  PROVE  Shows(b2, Sized(bk, id, size), q2, a) /\ b2.error = b.error
<1> DEFINE rb == InReach(bk, a)
           rq == QueuesInReach(q, a)
           i == IndexOf(a, price)
           bk2 == Sized(bk, id, size)
<1>1. OnSpots(q) /\ FromFeed(bk) /\ IsBook(bk) /\ Queues(bk, q) /\ Trading(bk, q)
  BY DEF Trading, Shows
<1>2. PICK loc : Arrayed(b, a, rb, rq, loc)
  BY DEF Shows
<1>3. Trading(bk2, q2)
  <2>1. Trading(bk, q2)
    BY <1>1, TradingRequeued
  <2>2. Trading(Sized(bk, id, size), q2)
    BY <2>1, TradingSized
  <2> QED
    BY <2>2
<1>4. m.order_id = id /\ m.side = side /\ m.price = price /\ m.size = size
  BY DEF AsksFor
<1>5. at[2] = price /\ SpotOf(bk[id]) = at /\ id \in Ids /\ side \in Sides /\ price \in PricesOf(side)
  BY <1>1 DEF SpotOf, FromFeed
<1>6. /\ ReachedFrom(a, price) => InReach(bk2, a) = Sized(rb, id, size)
      /\ ~ReachedFrom(a, price) => InReach(bk2, a) = rb
  BY <1>1, ReachSized
<1>7. /\ ReachedFrom(a, price) => QueuesInReach(q2, a) = IF size > bk[id].size THEN LinedUp(Unlined(rq, at, p), at, id) ELSE rq
      /\ ~ReachedFrom(a, price) => QueuesInReach(q2, a) = rq
  <2> DEFINE u == Unlined(q, at, p)
  <2>1. Trading(Shrunk(bk, id), u)
    BY <1>1, TradingWithout
  <2>2. Queues(Shrunk(bk, id), u) /\ at \in DOMAIN u
    BY <2>1, <1>1 DEF Trading, OnSpots
  <2>3. /\ ReachedFrom(a, price) => QueuesInReach(u, a) = Unlined(rq, at, p)
        /\ ~ReachedFrom(a, price) => QueuesInReach(u, a) = rq
    BY <1>1, <1>5, ReachUnlined
  <2> HIDE DEF u
  <2>4. /\ ReachedFrom(a, price) => QueuesInReach(LinedUp(u, at, id), a) = LinedUp(QueuesInReach(u, a), at, id)
        /\ ~ReachedFrom(a, price) => QueuesInReach(LinedUp(u, at, id), a) = QueuesInReach(u, a)
    BY <1>5, <2>2, ReachLinedUp
  <2>5. q2 = IF size > bk[id].size THEN LinedUp(u, at, id) ELSE q
    BY DEF u
  <2> HIDE DEF rq
  <2>6. CASE size > bk[id].size
    BY <2>3, <2>4, <2>5, <2>6
  <2>7. CASE ~(size > bk[id].size)
    BY <2>5, <2>7 DEF rq
  <2> QED
    BY <2>6, <2>7
<1>8. CASE ReachedFrom(a, price)
  <2> DEFINE n == loc[id]
  <2>1. Sits(a, rb, rq, loc, id, side, price, p, n, i)
    BY <1>1, <1>8, SitsInReach
  <2>2. id \in DOMAIN rb /\ rb[id] = bk[id]
    BY <1>8, InReachIs
  <2> HIDE DEF n, i, rb, rq, bk2
  <2>3. Arrayed(b, a, rb, rq, loc) /\ Sits(a, rb, rq, loc, id, side, price, p, n, i) /\ at = <<side, price>> /\ size \in Nat \ {0}
    BY <1>2, <2>1
  <2>4. NodeOf(b, id) = n /\ n # None /\ b.nodes[n].price = price
    BY ONLY <2>3, SitsIs
  <2>5. b2 = Resized(b, n, size)
    BY <1>4, <2>4 DEF ModifyOrder
  <2>6. /\ b2.error = b.error
        /\ Arrayed(b2, a, Sized(rb, id, size),
                   IF size > rb[id].size THEN LinedUp(Unlined(rq, at, p), at, id) ELSE rq, loc)
    BY ONLY <2>3, <2>5, ModifiedGood
  <2>7. Arrayed(b2, a, InReach(bk2, a), QueuesInReach(q2, a), loc)
    BY <1>6, <1>7, <1>8, <2>2, <2>6
  <2> QED
    BY <1>3, <2>6, <2>7 DEF Shows, bk2
<1>9. CASE ~ReachedFrom(a, price)
  <2>1. id \notin DOMAIN rb
    BY <1>9, InReachIs
  <2>2. a \in Prices
    BY <1>2 DEF Arrayed
  <2>3. Anchored(b, price) = b
    BY <1>2, AnchoredStays
  <2> HIDE DEF rb, rq, bk2, i
  <2>4. b2 = AddOrder(b, m)
    BY <1>2, <1>4, <1>5, <2>1, UnknownIs
  <2>5. AddOrder(b, m) = b
    <3>1. Arrayed(Anchored(b, price), a, rb, rq, loc)
      BY <1>2, <2>3
    <3>2. ~ReachedFrom(a, price) => AddOrder(b, m) = Anchored(b, price)
      BY <1>5, <2>2, <3>1, AddIs
    <3> QED
      BY <1>9, <2>3, <3>2
  <2>6. Arrayed(b2, a, InReach(bk2, a), QueuesInReach(q2, a), loc)
    BY <1>2, <1>6, <1>7, <1>9, <2>4, <2>5
  <2> QED
    BY <1>3, <2>4, <2>5, <2>6 DEF Shows, bk2
<1> QED
  BY <1>8, <1>9

\* The order at place p of a queue goes to another price.
Moves(bk, q, id, side, was, at, p, price, to, size, m, o) ==
  /\ id \in DOMAIN bk /\ side = bk[id].side /\ was = bk[id].price /\ at = <<side, was>>
  /\ at \in DOMAIN q /\ p \in 1..Len(q[at]) /\ q[at][p] = id
  /\ price \in PricesOf(side) /\ price # was /\ to = <<side, price>> /\ size \in Nat \ {0}
  /\ AsksFor(m, id, side, price, size) /\ IsOrderOf(o, side, price, size)

\* The array when an order goes to another price: out of reach, into reach, or within it.
LEMMA ShowsMoved ==
  ASSUME NEW b, NEW bk, NEW q, NEW a, Shows(b, bk, q, a), a # Undef,
         NEW id, NEW side, NEW was, NEW at, NEW p, NEW price, NEW to, NEW size, NEW m, NEW o,
         Moves(bk, q, id, side, was, at, p, price, to, size, m, o),
         NEW b2, b2 = ModifyOrder(b, m)
  PROVE  \/ Shows(b2, bk, q, a) /\ b2.error = Thrown
         \/ Shows(b2, Widened(Shrunk(bk, id), id, o), LinedUp(Unlined(q, at, p), to, id), a) /\ b2.error = b.error
<1>0. /\ id \in DOMAIN bk /\ side = bk[id].side /\ was = bk[id].price /\ at = <<side, was>>
      /\ at \in DOMAIN q /\ p \in 1..Len(q[at]) /\ q[at][p] = id
      /\ price \in PricesOf(side) /\ price # was /\ to = <<side, price>> /\ size \in Nat \ {0}
      /\ AsksFor(m, id, side, price, size) /\ IsOrderOf(o, side, price, size)
  BY DEF Moves
<1> USE <1>0
<1> DEFINE rb == InReach(bk, a)
           rq == QueuesInReach(q, a)
           bk1 == Shrunk(bk, id)
           q1 == Unlined(q, at, p)
           taken == bk[id].size
           b1 == CancelOrder(b, id, taken)
           c == Anchored(b1, price)
           b3 == AddOrder(b1, m)
<1>1. OnSpots(q) /\ FromFeed(bk) /\ IsBook(bk) /\ Queues(bk, q) /\ Trading(bk, q)
  BY DEF Trading, Shows
<1>2. PICK loc : Arrayed(b, a, rb, rq, loc)
  BY DEF Shows
<1>3. taken \in Nat \ {0} /\ id \in Ids /\ side \in Sides /\ at = SpotOf(bk[id]) /\ a \in Prices
  BY <1>1, <1>2 DEF IsBook, FromFeed, SpotOf, Arrayed
<1>4. m.order_id = id /\ m.side = side /\ m.price = price /\ m.size = size
  BY DEF AsksFor
<1>5. Shows(b1, bk1, q1, a) /\ b1.error = b.error /\ (ReachedFrom(a, was) => b1.free # <<>>)
  <2>1. Goes(bk, q, at, p, id, taken)
    BY <1>3 DEF Goes
  <2> HIDE DEF taken
  <2>2. /\ Shows(CancelOrder(b, id, taken), Shrunk(bk, id), Unlined(q, at, p), a)
        /\ CancelOrder(b, id, taken).error = b.error
        /\ ReachedFrom(a, bk[id].price) => CancelOrder(b, id, taken).free # <<>>
    BY <2>1, ShowsWithout
  <2> QED
    BY <2>2
<1>6. id \notin DOMAIN bk1
  BY DEF Shrunk
<1> HIDE DEF bk1, q1, b1
<1>7. c = b1
  <2>1. PICK loc1 : Arrayed(b1, a, InReach(bk1, a), QueuesInReach(q1, a), loc1)
    BY <1>5 DEF Shows
  <2> QED
    BY <2>1, AnchoredStays
<1>8. c = Anchored(b1, price) /\ b3 = AddOrder(b1, m) /\ Shows(c, bk1, q1, a)
  BY <1>5, <1>7
<1> HIDE DEF c, b3
<1>9. \/ ReachedFrom(a, price) /\ c.free = <<>> /\ b3 = Throw(c, Thrown)
      \/ Shows(b3, Widened(bk1, id, o), LinedUp(q1, to, id), a) /\ b3.error = c.error
  <2>1. Comes(b1, bk1, q1, a, id, side, price, size, m, o, to, c)
    BY <1>3, <1>6, <1>8 DEF Comes
  <2> QED
    BY <1>8, <2>1, ShowsWith
<1>10. CASE ReachedFrom(a, was)
  <2>1. b2 = b3
    <3> DEFINE i == IndexOf(a, was)
               n == loc[id]
    <3>1. Sits(a, rb, rq, loc, id, side, was, p, n, i)
      BY <1>1, <1>10, SitsInReach
    <3>2. id \in DOMAIN rb /\ rb[id] = bk[id]
      BY <1>10, InReachIs
    <3> HIDE DEF n, i, rb, rq, taken
    <3>3. Arrayed(b, a, rb, rq, loc) /\ Sits(a, rb, rq, loc, id, side, was, p, n, i) /\ at = <<side, was>>
      BY <1>2, <3>1
    <3>4. NodeOf(b, id) = n /\ n # None /\ b.nodes[n].price = was /\ b.nodes[n].size = rb[id].size
      BY ONLY <3>3, SitsIs
    <3> QED
      BY <1>4, <3>2, <3>4 DEF ModifyOrder, b3, b1, taken
  <2> QED
    BY <1>5, <1>7, <1>9, <1>10, <2>1 DEF bk1, q1
<1>11. CASE ~ReachedFrom(a, was)
  <2>1. id \notin DOMAIN rb
    BY <1>11, InReachIs
  <2> HIDE DEF rb, rq
  <2>2. /\ \A x : CancelOrder(b, id, x) = b
        /\ \A x : x.order_id = id => ModifyOrder(b, x) = AddOrder(b, x)
    BY <1>2, <1>3, <2>1, UnknownIs
  <2>3. b1 = b /\ b2 = b3
    BY <1>4, <2>2 DEF b1, b3
  <2>4. CASE b3 = Throw(c, Thrown)
    <3>1. b2 = Throw(b, Thrown)
      BY <1>7, <2>3, <2>4
    <3> QED
      BY <3>1, ShowsThrow
  <2>5. CASE Shows(b3, Widened(bk1, id, o), LinedUp(q1, to, id), a) /\ b3.error = c.error
    BY <1>5, <1>7, <2>3, <2>5 DEF bk1, q1
  <2> QED
    BY <1>9, <2>4, <2>5
<1> QED
  BY <1>10, <1>11

---------------------------------------------------------------------------
(* The invariant. *)

\* A good state, from what the array shows.
LEMMA GoodFrom ==
  ASSUME NEW b, NEW bk, NEW q, NEW a, Shows(b, bk, q, a), a # Undef
  PROVE  Good(b, bk, q, a)
BY DEF Good, Shows

\* Where there are orders there is a middle, and each order stands in its queue.
LEMMA KnownOrder ==
  ASSUME NEW b, NEW bk, NEW q, NEW a, Good(b, bk, q, a), NEW id \in DOMAIN bk
  PROVE  /\ Shows(b, bk, q, a) /\ a \in Prices /\ a # Undef /\ SpotOf(bk[id]) \in DOMAIN q /\ SpotOf(bk[id]) \in Sides \X Prices
         /\ \E p \in 1..Len(q[SpotOf(bk[id])]) : q[SpotOf(bk[id])][p] = id
         /\ id \in Ids /\ bk[id].side \in Sides /\ bk[id].price \in PricesOf(bk[id].side) /\ bk[id].size \in Nat \ {0}
         /\ SpotOf(bk[id]) = <<bk[id].side, bk[id].price>>
<1>1. OnSpots(q) /\ FromFeed(bk) /\ IsBook(bk) /\ Queues(bk, q) /\ Trading(bk, q)
  BY DEF Trading, Good
<1>2. Shows(b, bk, q, a) /\ a # Undef
  BY <1>1 DEF Good, Shows
<1>3. a \in Prices
  BY <1>2 DEF Shows, Arrayed
<1>4. id \in Ids /\ bk[id].side \in Sides /\ bk[id].price \in PricesOf(bk[id].side) /\ bk[id].size \in Nat \ {0}
  BY <1>1 DEF FromFeed, IsBook
<1>5. SpotOf(bk[id]) = <<bk[id].side, bk[id].price>>
  BY DEF SpotOf
<1>6. SpotOf(bk[id]) \in Sides \X Prices /\ SpotOf(bk[id]) \in DOMAIN q
  BY <1>1, <1>4, <1>5, PricesAre DEF OnSpots
<1>7. \E p \in 1..Len(q[SpotOf(bk[id])]) : q[SpotOf(bk[id])][p] = id
  <2> DEFINE at == SpotOf(bk[id])
  <2>1. at \in DOMAIN q /\ SpotOf(bk[id]) = at
    BY <1>6
  <2> HIDE DEF at
  <2>2. \E p \in 1..Len(q[at]) : q[at][p] = id
    BY <1>1, <2>1, QueueHolds
  <2> QED
    BY <2>2 DEF at
<1> QED
  BY <1>2, <1>3, <1>4, <1>5, <1>6, <1>7

\* A new order, for both books.
LEMMA AddsGood ==
  ASSUME Good(lob, book, queue, anchor), lob.error = "none",
         NEW id \in Ids, id \notin DOMAIN book, NEW side \in Sides, NEW price \in PricesOf(side), NEW size \in Nat \ {0},
         NEW m, AsksFor(m, id, side, price, size), m.order_id = id,
         NEW b2, b2 = AddOrder(lob, m),
         NEW bk2, bk2 = (IF b2.error = "none" THEN Market!AddOrder(book, m) ELSE book),
         NEW q2, q2 = (IF b2.error = "none" THEN Queued(m, bk2) ELSE queue),
         NEW a2, a2 = IF anchor = Undef THEN price ELSE anchor
  PROVE  Good(b2, bk2, q2, a2)
<1> DEFINE at == <<side, price>>
           o == [side |-> side, price |-> price, size |-> size]
           c == Anchored(lob, price)
<1>1. IsOrderOf(o, side, price, size) /\ at = <<side, price>>
  BY DEF IsOrderOf
<1>2. at \in Sides \X Prices /\ price \in Prices
  BY PricesAre
<1> HIDE DEF o, at
<1>3. Queues(book, queue) /\ OnSpots(queue) /\ IsBook(book)
  BY DEF Good, Trading
<1>4. SpotOf(o) = at
  BY <1>1, OrderIs
<1>5. Shows(c, book, queue, a2) /\ a2 \in Prices /\ a2 # Undef /\ c.error = "none" /\ c = Anchored(lob, price)
  BY <1>2, ShowsAnchored
<1> HIDE DEF c
<1>6. \/ b2 = Throw(c, Thrown)
      \/ Shows(b2, Widened(book, id, o), LinedUp(queue, at, id), a2) /\ b2.error = c.error
  <2>1. Comes(lob, book, queue, a2, id, side, price, size, m, o, at, c)
    BY <1>1, <1>5 DEF Comes
  <2> QED
    BY <2>1, ShowsWith
<1>7. CASE b2 = Throw(c, Thrown)
  <2>1. Shows(b2, book, queue, a2) /\ b2.error = Thrown
    BY <1>5, <1>7, ShowsThrow
  <2>2. bk2 = book /\ q2 = queue
    BY <2>1 DEF Thrown
  <2> QED
    BY <1>5, <2>1, <2>2, GoodFrom
<1>8. CASE Shows(b2, Widened(book, id, o), LinedUp(queue, at, id), a2) /\ b2.error = c.error
  <2>1. b2.error = "none"
    BY <1>5, <1>8
  <2>2. Market!AddOrder(book, m) = Widened(book, id, o)
    BY <1>1, <1>3, MarketIs
  <2>3. Queued(m, Widened(book, id, o)) = LinedUp(queue, at, id)
    BY <1>2, <1>3, <1>4, QueuedNew
  <2>4. bk2 = Widened(book, id, o) /\ q2 = LinedUp(queue, at, id)
    BY <2>1, <2>2, <2>3
  <2> QED
    BY <1>5, <1>8, <2>4, GoodFrom
<1> QED
  BY <1>6, <1>7, <1>8

\* An order is added.
LEMMA AddKeeps ==
  ASSUME Good(lob, book, queue, anchor), lob.error = "none", Add
  PROVE  Good(lob, book, queue, anchor)'
<1>1. PICK id \in Ids \ DOMAIN book, side \in Sides, size \in Sizes :
        \E price \in PricesOf(side) : Feed(Message("Add", id, side, price, size))
  BY DEF Add
<1>2. PICK price \in PricesOf(side) : Feed(Message("Add", id, side, price, size))
  BY <1>1
<1> DEFINE m == Message("Add", id, side, price, size)
<1>3. AsksFor(m, id, side, price, size) /\ m.order_id = id /\ m.price = price /\ m.action = "Add"
  BY MessageIs
<1>4. Feed(m)
  BY <1>2
<1> HIDE DEF m
<1>5. /\ lob' = AddOrder(lob, m) /\ book' = (IF lob'.error = "none" THEN Market!AddOrder(book, m) ELSE book)
      /\ queue' = (IF lob'.error = "none" THEN Queued(m, book') ELSE queue)
      /\ anchor' = IF anchor = Undef THEN price ELSE anchor
  BY <1>3, <1>4 DEF Feed, UpdateBook, Market!UpdateBook
<1>6. size \in Nat \ {0}
  BY SizesPositive
<1>7. Good(lob', book', queue', anchor')
  BY <1>3, <1>5, <1>6, AddsGood
<1> QED
  BY <1>7 DEF Good

\* An order that rests is modified.
LEMMA ModifiesGood ==
  ASSUME Good(lob, book, queue, anchor), lob.error = "none",
         NEW id \in DOMAIN book, NEW side, side = book[id].side, NEW price \in PricesOf(side), NEW size \in Nat \ {0},
         NEW m, AsksFor(m, id, side, price, size), m.order_id = id, m.size = size, m.action = "Modify",
         NEW b2, b2 = ModifyOrder(lob, m),
         NEW bk2, bk2 = (IF b2.error = "none" THEN Market!ModifyOrder(book, m) ELSE book),
         NEW q2, q2 = IF b2.error = "none" THEN Queued(m, bk2) ELSE queue
  PROVE  anchor # Undef /\ Good(b2, bk2, q2, anchor)
<1> DEFINE was == book[id].price
           at == <<side, was>>
           to == <<side, price>>
           o == [side |-> side, price |-> price, size |-> size]
<1>1. Queues(book, queue) /\ OnSpots(queue) /\ IsBook(book) /\ FromFeed(book)
  BY DEF Good, Trading
<1>2. /\ Shows(lob, book, queue, anchor) /\ anchor \in Prices /\ anchor # Undef /\ SpotOf(book[id]) \in DOMAIN queue
      /\ SpotOf(book[id]) \in Sides \X Prices
      /\ \E p \in 1..Len(queue[SpotOf(book[id])]) : queue[SpotOf(book[id])][p] = id
      /\ id \in Ids /\ book[id].side \in Sides /\ SpotOf(book[id]) = <<book[id].side, book[id].price>>
  BY KnownOrder
<1>3. at = <<side, was>> /\ to = <<side, price>> /\ SpotOf(book[id]) = at /\ at \in DOMAIN queue /\ side \in Sides
  BY <1>2
<1>4. IsOrderOf(o, side, price, size)
  BY DEF IsOrderOf
<1>5. to \in Sides \X Prices
  BY <1>3, PricesAre
<1>6. was = book[id].price
  OBVIOUS
<1> HIDE DEF was, at, to, o
<1>7. PICK p \in 1..Len(queue[at]) : queue[at][p] = id
  BY <1>2, <1>3
<1>8. SpotOf(o) = to
  BY <1>3, <1>4, OrderIs
<1>9. CASE price = was
  <2> DEFINE q3 == IF size > book[id].size THEN LinedUp(Unlined(queue, at, p), at, id) ELSE queue
             bk3 == Sized(book, id, size)
  <2>1. Shows(b2, bk3, q3, anchor) /\ b2.error = lob.error
    <3>1. at = <<side, price>> /\ price = book[id].price /\ q3 = IF size > book[id].size THEN LinedUp(Unlined(queue, at, p), at, id) ELSE queue
      BY <1>3, <1>6, <1>9
    <3> HIDE DEF q3
    <3> QED
      BY <1>2, <1>3, <1>7, <3>1, ShowsResized
  <2>2. Market!ModifyOrder(book, m) = bk3
    BY <1>1, <1>4, <1>6, <1>9, MarketIs
  <2>3. /\ DOMAIN bk3 = DOMAIN book /\ \A x \in DOMAIN book : SpotOf(bk3[x]) = SpotOf(book[x])
    <3>1. /\ DOMAIN bk3 = DOMAIN book
          /\ \A x \in DOMAIN book : bk3[x].side = book[x].side /\ bk3[x].price = book[x].price
      <4>1. IsBook(book) /\ id \in DOMAIN book /\ size \in Nat \ {0}
        BY <1>1
      <4>2. /\ DOMAIN Sized(book, id, size) = DOMAIN book
            /\ \A x \in DOMAIN book : /\ Sized(book, id, size)[x].side = book[x].side
                                      /\ Sized(book, id, size)[x].price = book[x].price
        BY ONLY <4>1, RestingSized
      <4> QED
        BY ONLY <4>2
    <3> QED
      BY <3>1 DEF SpotOf
  <2>4. Queued(m, bk3) = q3
    <3> HIDE DEF bk3
    <3>1. CASE size > book[id].size
      <4>1. Grows(m)
        BY <3>1 DEF Grows
      <4>2. Queued(m, bk3) = LinedUp(Unlined(queue, at, p), at, id)
        <5>1. SpotOf(bk3[id]) = at /\ at \in Sides \X Prices
          BY <1>2, <1>3, <2>3
        <5>2. \A x \in DOMAIN book : x # id => SpotOf(bk3[x]) = SpotOf(book[x])
          BY <2>3
        <5> QED
          BY <1>1, <1>3, <1>7, <2>3, <4>1, <5>1, <5>2, QueuedLast
      <4> QED
        BY <3>1, <4>2
    <3>2. CASE ~(size > book[id].size)
      <4>1. ~Grows(m)
        BY <3>2 DEF Grows
      <4>2. Queued(m, bk3) = queue
        BY <1>1, <2>3, <4>1, QueuedSame
      <4> QED
        BY <3>2, <4>2
    <3> QED
      BY <3>1, <3>2
  <2>5. bk2 = bk3 /\ q2 = q3
    BY <2>1, <2>2, <2>4
  <2> HIDE DEF q3, bk3
  <2> QED
    BY <1>2, <2>1, <2>5, GoodFrom
<1>10. CASE price # was
  <2> DEFINE q3 == LinedUp(Unlined(queue, at, p), to, id)
             bk3 == Widened(Shrunk(book, id), id, o)
  <2>1. \/ Shows(b2, book, queue, anchor) /\ b2.error = Thrown
        \/ Shows(b2, bk3, q3, anchor) /\ b2.error = lob.error
    <3>1. Moves(book, queue, id, side, was, at, p, price, to, size, m, o)
      BY <1>2, <1>3, <1>4, <1>6, <1>7, <1>10 DEF Moves
    <3>3. Shows(lob, book, queue, anchor) /\ anchor # Undef /\ b2 = ModifyOrder(lob, m)
      BY <1>2
    <3> HIDE DEF bk3, q3
    <3>2. \/ Shows(b2, book, queue, anchor) /\ b2.error = Thrown
          \/ /\ Shows(b2, Widened(Shrunk(book, id), id, o), LinedUp(Unlined(queue, at, p), to, id), anchor)
             /\ b2.error = lob.error
      BY ONLY <3>1, <3>3, ShowsMoved
    <3> QED
      BY <3>2 DEF bk3, q3
  <2>2. CASE Shows(b2, book, queue, anchor) /\ b2.error = Thrown
    <3>1. bk2 = book /\ q2 = queue
      BY <2>2 DEF Thrown
    <3> QED
      BY <1>2, <2>2, <3>1, GoodFrom
  <2>3. CASE Shows(b2, bk3, q3, anchor) /\ b2.error = lob.error
    <3>1. Market!ModifyOrder(book, m) = bk3
      BY <1>1, <1>4, <1>6, <1>10, MarketIs
    <3>2. DOMAIN bk3 = DOMAIN book /\ bk3[id] = o /\ \A x \in DOMAIN book : x # id => bk3[x] = book[x]
      BY DEF Shrunk, Widened
    <3>3. to # at
      BY <1>10 DEF to, at
    <3>4. Queued(m, bk3) = q3
      <4> HIDE DEF bk3
      <4>1. SpotOf(bk3[id]) = to /\ \A x \in DOMAIN book : x # id => SpotOf(bk3[x]) = SpotOf(book[x])
        BY <1>8, <3>2
      <4> QED
        BY <1>1, <1>3, <1>5, <1>7, <3>2, <3>3, <4>1, QueuedLast
    <3>5. bk2 = bk3 /\ q2 = q3
      BY <2>3, <3>1, <3>4
    <3> HIDE DEF q3, bk3
    <3> QED
      BY <1>2, <2>3, <3>5, GoodFrom
  <2> QED
    BY <2>1, <2>2, <2>3
<1> QED
  BY <1>2, <1>9, <1>10

\* An order is modified.
LEMMA ModifyKeeps ==
  ASSUME Good(lob, book, queue, anchor), lob.error = "none", Modify
  PROVE  Good(lob, book, queue, anchor)'
<1>1. PICK id \in Ids, side \in Sides, size \in Sizes :
        \E price \in PricesOf(side) :
          /\ id \in DOMAIN book => side = book[id].side
          /\ Feed(Message("Modify", id, side, price, size))
  BY DEF Modify
<1>2. PICK price \in PricesOf(side) :
          /\ id \in DOMAIN book => side = book[id].side
          /\ Feed(Message("Modify", id, side, price, size))
  BY <1>1
<1> DEFINE m == Message("Modify", id, side, price, size)
           o == [side |-> side, price |-> price, size |-> size]
<1>3. AsksFor(m, id, side, price, size) /\ m.order_id = id /\ m.price = price /\ m.size = size /\ m.action = "Modify"
  BY MessageIs
<1>4. Feed(m) /\ IsOrderOf(o, side, price, size)
  BY <1>2 DEF IsOrderOf
<1> HIDE DEF m, o
<1>5. /\ lob' = ModifyOrder(lob, m) /\ book' = (IF lob'.error = "none" THEN Market!ModifyOrder(book, m) ELSE book)
      /\ queue' = (IF lob'.error = "none" THEN Queued(m, book') ELSE queue)
      /\ anchor' = IF anchor = Undef THEN price ELSE anchor
  BY <1>3, <1>4 DEF Feed, UpdateBook, Market!UpdateBook
<1>6. size \in Nat \ {0}
  BY SizesPositive
<1>7. CASE id \notin DOMAIN book
  <2>1. PICK loc : Arrayed(lob, anchor, InReach(book, anchor), QueuesInReach(queue, anchor), loc)
    BY DEF Good
  <2>2. id \notin DOMAIN InReach(book, anchor)
    BY <1>7, InReachIs
  <2>3. lob' = AddOrder(lob, m)
    BY <1>3, <1>5, <2>1, <2>2, UnknownIs
  <2>4. IsBook(book)
    BY DEF Good, Trading
  <2>5. Market!ModifyOrder(book, m) = Market!AddOrder(book, m)
    BY <1>3, <1>4, <1>7, <2>4, MarketIs
  <2>6. /\ book' = (IF lob'.error = "none" THEN Market!AddOrder(book, m) ELSE book)
        /\ queue' = (IF lob'.error = "none" THEN Queued(m, book') ELSE queue)
        /\ anchor' = IF anchor = Undef THEN price ELSE anchor
    BY <1>5, <2>5
  <2>7. Good(lob', book', queue', anchor')
    BY <1>3, <1>6, <1>7, <2>3, <2>6, AddsGood
  <2> QED
    BY <2>7 DEF Good
<1>8. CASE id \in DOMAIN book
  <2>1. side = book[id].side
    BY <1>2, <1>8
  <2>2. anchor # Undef /\ Good(lob', book', queue', anchor)
    BY <1>3, <1>5, <1>6, <1>8, <2>1, ModifiesGood
  <2>3. anchor' = anchor
    BY <1>5, <2>2
  <2>4. Good(lob', book', queue', anchor')
    BY <2>2, <2>3
  <2> QED
    BY <2>4 DEF Good
<1> QED
  BY <1>7, <1>8

\* An order of which no more than asked is left is gone from both books.
LEMMA GoneGood ==
  ASSUME Good(lob, book, queue, anchor), NEW id \in DOMAIN book, NEW asked \in Nat, book[id].size <= asked,
         NEW m, m.order_id = id
  PROVE  /\ Good(CancelOrder(lob, id, asked), Shrunk(book, id), Queued(m, Shrunk(book, id)), anchor)
         /\ CancelOrder(lob, id, asked).error = lob.error /\ anchor # Undef
<1> DEFINE at == SpotOf(book[id])
<1>1. Queues(book, queue) /\ OnSpots(queue)
  BY DEF Good, Trading
<1>2. /\ Shows(lob, book, queue, anchor) /\ anchor # Undef /\ SpotOf(book[id]) \in DOMAIN queue
      /\ \E p \in 1..Len(queue[SpotOf(book[id])]) : queue[SpotOf(book[id])][p] = id
  BY KnownOrder
<1>3. at \in DOMAIN queue /\ at = SpotOf(book[id])
  BY <1>2
<1>4. PICK p \in 1..Len(queue[at]) : queue[at][p] = id
  BY <1>2
<1> HIDE DEF at
<1>5. Goes(book, queue, at, p, id, asked)
  BY <1>3, <1>4 DEF Goes
<1>6. /\ Shows(CancelOrder(lob, id, asked), Shrunk(book, id), Unlined(queue, at, p), anchor)
      /\ CancelOrder(lob, id, asked).error = lob.error
  BY <1>2, <1>5, ShowsWithout
<1>7. Queued(m, Shrunk(book, id)) = Unlined(queue, at, p)
  BY <1>1, <1>3, <1>4, QueuedGone
<1> QED
  BY <1>2, <1>6, <1>7, GoodFrom

\* An order is cancelled, in part or all of it.
LEMMA CancelKeeps ==
  ASSUME Good(lob, book, queue, anchor), lob.error = "none", Cancel
  PROVE  Good(lob, book, queue, anchor)'
<1>1. PICK id \in DOMAIN book, size \in Sizes :
        /\ size <= book[id].size
        /\ Feed(Message("Cancel", id, book[id].side, book[id].price, size))
  BY DEF Cancel
<1> DEFINE side == book[id].side
           price == book[id].price
           m == Message("Cancel", id, side, price, size)
           o == [side |-> side, price |-> price, size |-> size]
<1>2. AsksFor(m, id, side, price, size) /\ m.order_id = id /\ m.price = price /\ m.size = size /\ m.action = "Cancel"
  BY MessageIs
<1>3. Feed(m) /\ IsOrderOf(o, side, price, size)
  BY <1>1 DEF IsOrderOf
<1> HIDE DEF m, o, side, price
<1>4. /\ Shows(lob, book, queue, anchor) /\ anchor # Undef /\ book[id].size \in Nat \ {0}
  BY KnownOrder
<1>5. /\ lob' = CancelOrder(lob, id, size) /\ book' = (IF lob'.error = "none" THEN Market!CancelBookOrder(book, m) ELSE book)
      /\ queue' = (IF lob'.error = "none" THEN Queued(m, book') ELSE queue)
      /\ anchor' = anchor
  BY <1>2, <1>3, <1>4 DEF Feed, UpdateBook, Market!UpdateBook
<1>6. size \in Nat \ {0}
  BY SizesPositive
<1>7. Queues(book, queue) /\ OnSpots(queue) /\ IsBook(book)
  BY DEF Good, Trading
<1>8. CASE size = book[id].size
  <2>1. size \in Nat /\ book[id].size <= size
    BY <1>6, <1>8
  <2>2. /\ Good(CancelOrder(lob, id, size), Shrunk(book, id), Queued(m, Shrunk(book, id)), anchor)
        /\ CancelOrder(lob, id, size).error = lob.error
    BY <1>2, <2>1, GoneGood
  <2>3. Market!CancelBookOrder(book, m) = Shrunk(book, id)
    BY <1>2, <1>3, <1>7, <1>8, MarketIs
  <2>4. Good(lob', book', queue', anchor')
    BY <1>5, <2>2, <2>3
  <2> QED
    BY <2>4 DEF Good
<1>9. CASE size # book[id].size
  <2> DEFINE left == book[id].size - size
             bk2 == Sized(book, id, left)
  <2>1. size < book[id].size /\ left \in Nat \ {0}
    BY <1>1, <1>4, <1>6, <1>9
  <2>2. Shows(lob', bk2, queue, anchor) /\ lob'.error = lob.error
    <3>1. left = book[id].size - size /\ left \in Nat \ {0} /\ size \in Nat /\ size < book[id].size
      BY <1>6, <2>1
    <3> HIDE DEF left
    <3> QED
      BY <1>4, <1>5, <3>1, ShowsPart
  <2>3. Market!CancelBookOrder(book, m) = bk2
    BY <1>2, <1>3, <1>6, <1>7, <2>1, MarketIs
  <2>4. DOMAIN bk2 = DOMAIN book /\ \A x \in DOMAIN book : SpotOf(bk2[x]) = SpotOf(book[x])
    <3>1. IsBook(book) /\ id \in DOMAIN book /\ left \in Nat \ {0}
      BY <1>7, <2>1
    <3> HIDE DEF left
    <3>2. /\ DOMAIN Sized(book, id, left) = DOMAIN book
          /\ \A x \in DOMAIN book : /\ Sized(book, id, left)[x].side = book[x].side
                                    /\ Sized(book, id, left)[x].price = book[x].price
      BY ONLY <3>1, RestingSized
    <3> QED
      BY <3>2 DEF SpotOf
  <2>5. ~Grows(m)
    BY <1>2 DEF Grows
  <2> HIDE DEF bk2
  <2>6. Queued(m, bk2) = queue
    BY <1>7, <2>4, <2>5, QueuedSame
  <2>7. book' = bk2 /\ queue' = queue
    BY <1>5, <2>2, <2>3, <2>6
  <2>8. Good(lob', book', queue', anchor')
    BY <1>4, <1>5, <2>2, <2>7, GoodFrom
  <2> QED
    BY <2>8 DEF Good
<1> QED
  BY <1>8, <1>9

\* More than there is is cancelled.
LEMMA OverCancelKeeps ==
  ASSUME Good(lob, book, queue, anchor), lob.error = "none", OverCancel
  PROVE  Good(lob, book, queue, anchor)'
<1>1. PICK id \in DOMAIN book, size \in Sizes :
                /\ size > book[id].size
                /\ lob' = UpdateBook(lob, Message("Cancel", id, "None", 0, size))
                /\ book' = Market!UpdateBook(book, Message("Cancel", id, "None", 0, book[id].size))
                /\ queue' = Queued(Message("Cancel", id, "None", 0, size), book')
                /\ UNCHANGED anchor
  BY DEF OverCancel
<1> DEFINE side == "None"
           m == Message("Cancel", id, side, 0, size)
           m2 == Message("Cancel", id, side, 0, book[id].size)
           o == [side |-> side, price |-> 0, size |-> book[id].size]
<1>2. m.order_id = id /\ m.size = size /\ m.action = "Cancel"
  BY MessageIs
<1>3. AsksFor(m2, id, side, 0, book[id].size) /\ m2.action = "Cancel" /\ IsOrderOf(o, side, 0, book[id].size)
  BY MessageIs DEF IsOrderOf
<1>4. lob' = UpdateBook(lob, m) /\ book' = Market!UpdateBook(book, m2) /\ queue' = Queued(m, book') /\ anchor' = anchor
  BY <1>1
<1> HIDE DEF m, m2, o, side
<1>5. lob' = CancelOrder(lob, id, size) /\ book' = Market!CancelBookOrder(book, m2)
  BY <1>2, <1>3, <1>4 DEF UpdateBook, Market!UpdateBook
<1>6. IsBook(book) /\ book[id].size \in Nat \ {0}
  BY DEF Good, Trading, IsBook
<1>7. size \in Nat /\ book[id].size <= size
  BY <1>1, <1>6, SizesPositive
<1>8. Market!CancelBookOrder(book, m2) = Shrunk(book, id)
  BY <1>3, <1>6, MarketIs
<1>9. Good(CancelOrder(lob, id, size), Shrunk(book, id), Queued(m, Shrunk(book, id)), anchor)
  BY <1>2, <1>7, GoneGood
<1>10. Good(lob', book', queue', anchor')
  BY <1>4, <1>5, <1>8, <1>9
<1> QED
  BY <1>10 DEF Good

\* An order that is not there is cancelled.
LEMMA LateCancelKeeps ==
  ASSUME Good(lob, book, queue, anchor), lob.error = "none", LateCancel
  PROVE  Good(lob, book, queue, anchor)'
<1>1. PICK id \in Ids \ DOMAIN book, size \in Sizes :
        /\ lob' = UpdateBook(lob, Message("Cancel", id, "None", 0, size))
        /\ UNCHANGED <<book, queue, anchor>>
  BY DEF LateCancel
<1> DEFINE m == Message("Cancel", id, "None", 0, size)
<1>2. m.order_id = id /\ m.size = size /\ m.action = "Cancel"
  BY MessageIs
<1> HIDE DEF m
<1>3. lob' = CancelOrder(lob, id, size)
  BY <1>1, <1>2 DEF UpdateBook, m
<1>4. PICK loc : Arrayed(lob, anchor, InReach(book, anchor), QueuesInReach(queue, anchor), loc)
  BY DEF Good
<1>5. id \notin DOMAIN InReach(book, anchor)
  BY InReachIs
<1>6. lob' = lob
  BY <1>3, <1>4, <1>5, UnknownIs
<1> QED
  BY <1>1, <1>6 DEF Good

\* A market without orders, and an array that has none.
LEMMA GoodWithout ==
  ASSUME NEW b, Arrayed(b, Undef, NoOrders, NoQueues, NoOrders)
  PROVE  Good(b, NoOrders, NoQueues, Undef)
<1>1. DOMAIN NoOrders = {} /\ NoOrders = [id \in DOMAIN NoOrders |-> NoOrders[id]]
  BY DEF NoOrders
<1>2. DOMAIN NoQueues = Sides \X Prices /\ \A at \in Sides \X Prices : NoQueues[at] = <<>>
  BY DEF NoQueues
<1>3. InReach(NoOrders, Undef) = NoOrders
  <2>1. InReach(NoOrders, Undef) = [id \in {} |-> NoOrders[id]]
    BY <1>1 DEF InReach
  <2>2. NoOrders = [id \in {} |-> NoOrders[id]]
    BY <1>1
  <2> QED
    BY <2>1, <2>2
<1>4. QueuesInReach(NoQueues, Undef) = NoQueues
  <2>1. QueuesInReach(NoQueues, Undef) = [at \in Sides \X Prices |-> <<>>]
    BY <1>2 DEF QueuesInReach
  <2> QED
    BY <2>1 DEF NoQueues
<1>5. Queues(NoOrders, NoQueues)
  BY DEF Arrayed, Shelf
<1>6. IsBook(NoOrders)
  BY <1>1, FS_EmptySet DEF IsBook
<1>7. OnSpots(NoQueues) /\ FromFeed(NoOrders)
  BY DEF Arrayed
<1> QED
  BY <1>1, <1>3, <1>4, <1>5, <1>6, <1>7 DEF Good, Trading

\* A clear leaves nothing.
LEMMA ClearKeeps ==
  ASSUME Good(lob, book, queue, anchor), lob.error = "none", Clear
  PROVE  Good(lob, book, queue, anchor)'
<1> DEFINE m == Message("Clear", 0, "None", 0, 0)
<1>1. Feed(m) /\ m.action = "Clear"
  BY MessageIs DEF Clear
<1> HIDE DEF m
<1>2. PICK loc : Arrayed(lob, anchor, InReach(book, anchor), QueuesInReach(queue, anchor), loc)
  BY DEF Good
<1>3. Arrayed(ClearBook(lob), Undef, NoOrders, NoQueues, NoOrders) /\ ClearBook(lob).error = "none"
  BY <1>2, ClearGood
<1>4. Market!EmptyBook = NoOrders
  BY DEF Market!EmptyBook, NoOrders
<1>5. /\ lob' = ClearBook(lob) /\ book' = (IF lob'.error = "none" THEN Market!EmptyBook ELSE book)
      /\ queue' = (IF lob'.error = "none" THEN Queued(m, book') ELSE queue) /\ anchor' = Undef
  BY <1>1 DEF Feed, UpdateBook, Market!UpdateBook
<1>6. Queued(m, NoOrders) = NoQueues
  BY QueuedNone DEF Good, Trading
<1>7. Good(lob', book', queue', anchor')
  BY <1>3, <1>4, <1>5, <1>6, GoodWithout
<1> QED
  BY <1>7 DEF Good

\* The array at the beginning.
LEMMA InitGood == ASSUME Init PROVE Good(lob, book, queue, anchor)
<1>1. lob = EmptyLob /\ book = NoOrders /\ queue = NoQueues /\ anchor = Undef
  BY DEF Init, Market!EmptyBook, NoOrders, NoQueues
<1> QED
  BY <1>1, EmptyGood, GoodWithout

\* Every message keeps the array good.
LEMMA NextGood == ASSUME Good(lob, book, queue, anchor), [Next]_vars PROVE Good(lob, book, queue, anchor)'
<1>1. ASSUME Next PROVE Good(lob, book, queue, anchor)'
  BY <1>1, AddKeeps, ModifyKeeps, CancelKeeps, OverCancelKeeps, LateCancelKeeps, ClearKeeps DEF Next
<1>2. ASSUME UNCHANGED vars PROVE Good(lob, book, queue, anchor)'
  BY <1>2 DEF vars, Good
<1> QED
  BY <1>1, <1>2

\* The array has the market's orders within its reach.
ArrayGood == Good(lob, book, queue, anchor)

\* The array, its buckets, its links and its id map always hold exactly those of the market's
\* orders that are within reach of the first price since the last clear.
THEOREM ArrayAlwaysGood == Spec => []ArrayGood
<1>1. Init => ArrayGood
  BY InitGood DEF ArrayGood
<1>2. ArrayGood /\ [Next]_vars => ArrayGood'
  BY NextGood DEF ArrayGood
<1> QED
  BY <1>1, <1>2, PTL DEF Spec

---------------------------------------------------------------------------
(* The properties, from the goodness of the array. *)

\* A bucket is that of a price, or has nothing.
LEMMA BucketKnown ==
  ASSUME NEW b, NEW a, NEW bk, NEW q, NEW loc, Arrayed(b, a, bk, q, loc), NEW side \in Sides, NEW i \in Places
  PROVE  \/ \E price : BucketAt(a, side, i, price)
         \/ b.levels[side][i] = NoLevel
BY DEF Arrayed, Buckets, BucketAt

\* The nodes at the bucket of a price are those of its orders, in their turn.
IsChain(q, loc, at, side, i, c) ==
  /\ at \in DOMAIN q /\ DOMAIN c = 1..Len(q[at]) /\ Len(q[at]) \in Nat /\ c \in Seq(0..(MaxOrders - 1))
  /\ \A k \in DOMAIN c : IsPlace(q, loc, at, k, q[at][k], c[k])
  /\ lob.levels[side][i].tail_idx = IF c = <<>> THEN NoLink ELSE Last(c)
  /\ \A k \in DOMAIN c : PrevOf(loc, q[at], k) = IF k = 1 THEN NoLink ELSE c[k - 1]

\* So are the nodes met from the head of the bucket of a price.
LEMMA ChainAt ==
  ASSUME NEW a, NEW bk, NEW q, NEW loc, Arrayed(lob, a, bk, q, loc),
         NEW side \in Sides, NEW i, NEW price, BucketAt(a, side, i, price), NEW at, at = <<side, price>>
  PROVE  IsChain(q, loc, at, side, i, Chain(side, i))
<1> DEFINE c == Chain(side, i)
<1>0. c = Chain(side, i)
  OBVIOUS
<1> HIDE DEF c
<1>1. at \in DOMAIN q /\ SlotSays(lob.levels[side][i], bk, q, loc, at)
  BY BucketIs
<1>2. lob.levels[side][i].head_idx = HeadOf(loc, q[at]) /\ lob.levels[side][i].tail_idx = TailOf(loc, q[at])
  BY <1>1 DEF SlotSays
<1>3. c = NodesMet(MaxOrders, lob.nodes, HeadOf(loc, q[at]))
  BY <1>0, <1>2, ChainMet
<1>4. Shelf(MaxOrders, IdMapCapacity, lob, bk, q, loc) /\ MaxOrders \in Nat
  BY ConstantsAre DEF Arrayed
<1>5. /\ DOMAIN c = 1..Len(q[at]) /\ Len(q[at]) \in Nat /\ c \in Seq(0..(MaxOrders - 1))
      /\ \A k \in DOMAIN c : c[k] = loc[q[at][k]] /\ IsPlace(q, loc, at, k, q[at][k], c[k])
      /\ TailOf(loc, q[at]) = IF c = <<>> THEN NoLink ELSE Last(c)
      /\ \A k \in DOMAIN c : PrevOf(loc, q[at], k) = IF k = 1 THEN NoLink ELSE c[k - 1]
  BY ONLY <1>1, <1>3, <1>4, ChainHolds
<1> QED
  BY <1>0, <1>1, <1>2, <1>5 DEF IsChain

\* Nothing is linked at a bucket that has nothing.
LEMMA ChainNone ==
  ASSUME NEW side, NEW i, lob.levels[side][i] = NoLevel
  PROVE  Chain(side, i) = <<>>
<1>1. lob.levels[side][i].head_idx = NoLink
  BY PoolIs DEF NoLevel
<1>2. Chain(side, i) = NodesMet(MaxOrders, lob.nodes, NoLink)
  BY <1>1, ChainMet
<1>3. LinkedFrom(NoLink, lob.nodes, <<>>)
  BY DEF LinkedFrom
<1>4. <<>> \in Seq(Nat) /\ Len(<<>>) <= MaxOrders
  BY ConstantsAre
<1>5. NodesMet(MaxOrders, lob.nodes, NoLink) = <<>>
  BY <1>3, <1>4, ConstantsAre, MetIs
<1> QED
  BY <1>2, <1>5

\* The node of an order at a place.
LEMMA NodeRead ==
  ASSUME NEW b, NEW a, NEW bk, NEW q, NEW loc, Arrayed(b, a, bk, q, loc),
         NEW at, NEW k, NEW id, NEW n, IsPlace(q, loc, at, k, id, n)
  PROVE  /\ b.nodes[n].order_id = id /\ b.nodes[n].side = at[1] /\ b.nodes[n].price = at[2] /\ b.nodes[n].size = bk[id].size
         /\ b.nodes[n].prev_idx = PrevOf(loc, q[at], k)
         /\ id \in DOMAIN bk /\ n \in 0..(MaxOrders - 1) /\ NodeOf(b, id) = n /\ loc[id] = n
<1>1. Shelf(MaxOrders, IdMapCapacity, b, bk, q, loc)
  BY DEF Arrayed
<1>2. NodeHolds(b.nodes[n], id, at, bk[id].size, NextOf(loc, q[at], k), PrevOf(loc, q[at], k))
  BY ONLY <1>1, IsPlace(q, loc, at, k, id, n), NodeAtIs
<1>3. id \in DOMAIN bk /\ n \in 0..(MaxOrders - 1) /\ Hash(IdMapCapacity)!Find(b.id_map, id) = n
  BY <1>1, ConstantsAre, PlaceFound
<1>4. NodeOf(b, id) = n
  BY <1>3, FindIsHash DEF NodeOf
<1>5. loc[id] = n
  BY DEF IsPlace
<1> QED
  BY <1>2, <1>3, <1>4, <1>5 DEF NodeHolds

\* The links are whole.
LEMMA GoodLists ==
  ASSUME NEW a, NEW bk, NEW q, NEW loc, Arrayed(lob, a, bk, q, loc)
  PROVE  ListsIntact
<1> SUFFICES ASSUME NEW side \in Sides, NEW i \in Places
             PROVE  /\ lob.levels[side][i].tail_idx = IF Chain(side, i) = <<>> THEN None ELSE Last(Chain(side, i))
                    /\ \A k \in DOMAIN Chain(side, i) :
                         /\ lob.nodes[Chain(side, i)[k]].prev_idx = IF k = 1 THEN None ELSE Chain(side, i)[k - 1]
                         /\ NodeOf(lob, lob.nodes[Chain(side, i)[k]].order_id) = Chain(side, i)[k]
                         /\ Chain(side, i)[k] \notin ToSet(lob.free)
  BY DEF ListsIntact
<1> DEFINE c == Chain(side, i)
<1>1. CASE lob.levels[side][i] = NoLevel
  <2>1. c = <<>> /\ DOMAIN c = {}
    BY <1>1, ChainNone
  <2>2. lob.levels[side][i].tail_idx = None
    BY <1>1 DEF NoLevel
  <2> QED
    BY <2>1, <2>2
<1>2. ASSUME NEW price, BucketAt(a, side, i, price)
      PROVE  /\ lob.levels[side][i].tail_idx = IF c = <<>> THEN None ELSE Last(c)
             /\ \A k \in DOMAIN c : /\ lob.nodes[c[k]].prev_idx = IF k = 1 THEN None ELSE c[k - 1]
                                    /\ NodeOf(lob, lob.nodes[c[k]].order_id) = c[k]
                                    /\ c[k] \notin ToSet(lob.free)
  <2> DEFINE at == <<side, price>>
  <2>1. c = Chain(side, i) /\ at = <<side, price>>
    OBVIOUS
  <2> HIDE DEF c, at
  <2>2. /\ at \in DOMAIN q /\ DOMAIN c = 1..Len(q[at]) /\ Len(q[at]) \in Nat
        /\ \A k \in DOMAIN c : IsPlace(q, loc, at, k, q[at][k], c[k])
        /\ lob.levels[side][i].tail_idx = IF c = <<>> THEN NoLink ELSE Last(c)
        /\ \A k \in DOMAIN c : PrevOf(loc, q[at], k) = IF k = 1 THEN NoLink ELSE c[k - 1]
    <3>1. Arrayed(lob, a, bk, q, loc) /\ side \in Sides /\ BucketAt(a, side, i, price) /\ at = <<side, price>>
      BY <1>2, <2>1
    <3>2. IsChain(q, loc, at, side, i, Chain(side, i))
      BY ONLY <3>1, ChainAt
    <3> QED
      BY <2>1, <3>2 DEF IsChain
  <2>3. ASSUME NEW k \in DOMAIN c
        PROVE  /\ lob.nodes[c[k]].prev_idx = IF k = 1 THEN None ELSE c[k - 1]
               /\ NodeOf(lob, lob.nodes[c[k]].order_id) = c[k]
               /\ c[k] \notin ToSet(lob.free)
    <3> DEFINE x == q[at][k]
               n == c[k]
    <3>1. IsPlace(q, loc, at, k, x, n)
      BY <2>2
    <3> HIDE DEF x, n
    <3>2. /\ lob.nodes[n].order_id = x /\ lob.nodes[n].prev_idx = PrevOf(loc, q[at], k)
          /\ x \in DOMAIN bk /\ NodeOf(lob, x) = n /\ loc[x] = n
      BY <3>1, NodeRead
    <3>3. Located(MaxOrders, lob, bk, loc)
      BY DEF Arrayed, Shelf
    <3>4. n \notin ToSet(lob.free)
      <4>1. \A j \in 1..Len(lob.free) : lob.free[j] # loc[x]
        BY <3>2, <3>3 DEF Located
      <4>2. DOMAIN lob.free = 1..Len(lob.free)
        BY <3>3 DEF Located
      <4> QED
        BY <3>2, <4>1, <4>2 DEF ToSet
    <3> QED
      BY <2>2, <3>2, <3>4, PoolIs DEF n
  <2> QED
    BY <2>2, <2>3, PoolIs
<1> HIDE DEF c
<1>3. \/ \E price : BucketAt(a, side, i, price)
      \/ lob.levels[side][i] = NoLevel
  BY BucketKnown
<1> QED
  BY <1>1, <1>2, <1>3 DEF c

\* The nodes have their types.
LEMMA NodesTyped ==
  ASSUME NEW b, NEW a, NEW bk, NEW q, NEW loc, Arrayed(b, a, bk, q, loc)
  PROVE  b.nodes \in [Pool!Indices ->
           [order_id : Ids \cup {0}, side : Sides \cup {"None"}, price : Prices \cup {0},
            size : Nat, next_idx : Pool!Indices \cup {None}, prev_idx : Pool!Indices \cup {None}]]
<1> DEFINE N == [order_id : Ids \cup {0}, side : Sides \cup {"None"}, price : Prices \cup {0},
                 size : Nat, next_idx : Pool!Indices \cup {None}, prev_idx : Pool!Indices \cup {None}]
<1>1. Shelf(MaxOrders, IdMapCapacity, b, bk, q, loc) /\ FromFeed(bk)
  BY DEF Arrayed
<1>2. Holding(MaxOrders, b, bk, q, loc) /\ Queues(bk, q)
  BY <1>1 DEF Shelf
<1>3. b.nodes = [n \in Pool!Indices |-> b.nodes[n]]
  BY <1>2, PoolIs DEF Holding
<1>4. ASSUME NEW x \in DOMAIN bk PROVE b.nodes[loc[x]] \in N
  <2> DEFINE at == SpotOf(bk[x])
             n == loc[x]
  <2>1. PICK k : IsPlace(q, loc, at, k, x, n)
    BY <1>2, OrderPlaced
  <2>2. at[1] \in Sides /\ at[2] \in Prices
    <3>1. bk[x].side \in Sides /\ bk[x].price \in PricesOf(bk[x].side)
      BY <1>1 DEF FromFeed
    <3>2. bk[x].price \in Prices
      BY <3>1, PricesAre
    <3> QED
      BY <3>1, <3>2 DEF SpotOf
  <2> HIDE DEF at, n
  <2>3. /\ NodeHolds(b.nodes[n], x, at, bk[x].size, NextOf(loc, q[at], k), PrevOf(loc, q[at], k))
        /\ bk[x].size \in Nat
    BY ONLY <1>1, <2>1, NodeAtIs
  <2>4. x \in Ids
    BY <1>1 DEF FromFeed
  <2>5. at \in DOMAIN q /\ k \in 1..Len(q[at])
    BY <2>1 DEF IsPlace
  <2>6. /\ NextOf(loc, q[at], k) \in Pool!Indices \cup {None}
        /\ PrevOf(loc, q[at], k) \in Pool!Indices \cup {None}
    <3>1. /\ NextOf(loc, q[at], k) \in (0..(MaxOrders - 1)) \cup {NoLink}
          /\ PrevOf(loc, q[at], k) \in (0..(MaxOrders - 1)) \cup {NoLink}
      BY ONLY <1>1, <2>5, LinksAre
    <3> QED
      BY <3>1, PoolIs
  <2>7. b.nodes[n] \in N
    BY <2>2, <2>3, <2>4, <2>6 DEF NodeHolds
  <2> QED
    BY <2>7 DEF n
<1>5. BareNode \in N
  BY PoolIs DEF BareNode
<1>6. ASSUME NEW n \in Pool!Indices PROVE b.nodes[n] \in N
  <2>1. CASE \E x \in DOMAIN bk : loc[x] = n
    BY <1>4, <2>1
  <2>2. CASE \A x \in DOMAIN bk : loc[x] # n
    <3>1. b.nodes[n] = BareNode
      BY <1>2, <2>2, PoolIs DEF Holding
    <3> QED
      BY <1>5, <3>1
  <2> QED
    BY <2>1, <2>2
<1> QED
  BY <1>3, <1>6

\* A level of the array has its type.
IsLevelType(r) ==
  r \in [price : Prices \cup {0}, total_qty : Nat,
         head_idx : Pool!Indices \cup {None}, tail_idx : Pool!Indices \cup {None}]

\* Every bucket has such a level.
LEMMA LevelTyped ==
  ASSUME NEW b, NEW a, NEW bk, NEW q, NEW loc, Arrayed(b, a, bk, q, loc), NEW side \in Sides, NEW i \in Places
  PROVE  IsLevelType(b.levels[side][i])
<1> DEFINE r == b.levels[side][i]
<1>1. CASE r = NoLevel
  BY <1>1 DEF NoLevel, IsLevelType
<1>2. ASSUME NEW price, BucketAt(a, side, i, price) PROVE IsLevelType(r)
  <2> DEFINE at == <<side, price>>
  <2>1. at = <<side, price>>
    OBVIOUS
  <2> HIDE DEF at
  <2>2. at \in DOMAIN q /\ IsSlot(r, bk, q, loc, at) /\ price \in Prices /\ at[2] = price
    BY <1>2, <2>1, BucketIs
  <2>3. Shelf(MaxOrders, IdMapCapacity, b, bk, q, loc)
    BY DEF Arrayed
  <2>4. IsBook(bk) /\ Queues(bk, q)
    BY <2>3 DEF Shelf
  <2>5. TotalAt(bk, at) \in Nat
    BY <2>2, <2>4, TotalIs
  <2>6. HeadOf(loc, q[at]) \in (0..(MaxOrders - 1)) \cup {NoLink} /\ TailOf(loc, q[at]) \in (0..(MaxOrders - 1)) \cup {NoLink}
    BY ONLY <2>2, <2>3, LinksAre
  <2> HIDE DEF r
  <2>7. CASE q[at] = <<>>
    BY <2>2, <2>7 DEF IsSlot, Slot, NoLevel, IsLevelType
  <2>8. CASE q[at] # <<>>
    <3>1. r = LevelRecord(bk, q, loc, at)
      BY <2>2, <2>8 DEF IsSlot, Slot
    <3> QED
      BY <2>2, <2>5, <2>6, <3>1, PoolIs DEF LevelRecord, IsLevelType
  <2> QED
    BY <2>7, <2>8
<1> HIDE DEF r
<1>3. \/ \E price : BucketAt(a, side, i, price)
      \/ b.levels[side][i] = NoLevel
  BY BucketKnown
<1> QED
  BY <1>1, <1>2, <1>3 DEF r

\* The array has its type.
LEMMA GoodTyped ==
  ASSUME NEW a, NEW bk, NEW q, NEW loc, Arrayed(lob, a, bk, q, loc)
  PROVE  TypeOK
<1> DEFINE L == [price : Prices \cup {0}, total_qty : Nat,
                 head_idx : Pool!Indices \cup {None}, tail_idx : Pool!Indices \cup {None}]
<1>1. ToSet(lob.free) \subseteq Pool!Indices
  <2>1. lob.free \in Seq(Pool!Indices)
    BY PoolIs DEF Arrayed, Shelf, Located
  <2>2. \A k \in DOMAIN lob.free : lob.free[k] \in Pool!Indices
    BY <2>1
  <2> QED
    BY <2>2 DEF ToSet
<1>2. lob.levels \in [Sides -> [Places -> L]]
  <2>1. ASSUME NEW side \in Sides PROVE lob.levels[side] \in [Places -> L]
    <3>1. lob.levels[side] = [i \in Places |-> lob.levels[side][i]]
      BY DEF Arrayed, Buckets
    <3>2. \A i \in Places : IsLevelType(lob.levels[side][i])
      BY LevelTyped
    <3>3. \A i \in Places : lob.levels[side][i] \in L
      BY <3>2 DEF IsLevelType
    <3> HIDE DEF L
    <3> QED
      BY <3>1, <3>3
  <2>2. lob.levels = [side \in Sides |-> lob.levels[side]]
    BY DEF Arrayed, IsArray
  <2> HIDE DEF L
  <2> QED
    BY <2>1, <2>2
<1>3. lob.best \in [Sides -> Prices \cup {Undef}]
  <2>1. ASSUME NEW side \in Sides PROVE lob.best[side] \in Prices \cup {Undef}
    <3>1. lob.best[side] # Undef => lob.best[side] \in PricesOf(side)
      BY DEF Arrayed, BestIs
    <3> QED
      BY <3>1, PricesAre
  <2>2. lob.best = [side \in Sides |-> lob.best[side]]
    BY DEF Arrayed, IsArray
  <2> QED
    BY <2>1, <2>2
<1>4. lob.base \in Prices \cup {Undef}
  BY DEF Arrayed
<1>5. lob.error \in {"none", "ObjectPool exhausted"}
  BY Zenon DEF Arrayed, Thrown
<1>6. lob.nodes \in [Pool!Indices ->
           [order_id : Ids \cup {0}, side : Sides \cup {"None"}, price : Prices \cup {0},
            size : Nat, next_idx : Pool!Indices \cup {None}, prev_idx : Pool!Indices \cup {None}]]
  BY NodesTyped
<1> QED
  BY <1>1, <1>2, <1>3, <1>4, <1>5, <1>6, Zenon DEF TypeOK

---------------------------------------------------------------------------
\* What stands at the bucket of a price is what the market has there.
LEMMA ShownAt ==
  ASSUME NEW loc, Arrayed(lob, anchor, InReach(book, anchor), QueuesInReach(queue, anchor), loc),
         Trading(book, queue), NEW side \in Sides, NEW price, NEW i, BucketAt(anchor, side, i, price)
  PROVE  OrdersAt(side, i) = MarketAt(side, price)
<1> DEFINE at == <<side, price>>
           bk == InReach(book, anchor)
           q == QueuesInReach(queue, anchor)
           c == Chain(side, i)
           s == queue[at]
<1>0. at = <<side, price>> /\ Arrayed(lob, anchor, bk, q, loc) /\ c = Chain(side, i)
  OBVIOUS
<1>1. /\ ReachedFrom(anchor, price) /\ at \in DOMAIN q /\ at[1] = side /\ at[2] = price
  <2> HIDE DEF at, bk, q
  <2> QED
    BY <1>0, BucketIs
<1>2. DOMAIN q = DOMAIN queue /\ q[at] = s
  BY <1>1 DEF QueuesInReach
<1>3. s \in Seq(DOMAIN book)
  <2>1. Queues(book, queue)
    BY DEF Trading
  <2> HIDE DEF at, q
  <2> QED
    BY <1>1, <1>2, <2>1, QueueHolds
<1>4. \A x \in DOMAIN bk : bk[x] = book[x]
  BY DEF InReach
<1>5. MarketAt(side, price) = [k \in 1..Len(s) |-> [order_id |-> s[k], side |-> side, price |-> price, size |-> book[s[k]].size]]
  BY <1>3 DEF MarketAt
<1> HIDE DEF at, bk, q, c, s
<1>6. IsChain(q, loc, at, side, i, c)
  <2>1. IsChain(q, loc, at, side, i, Chain(side, i))
    BY ONLY <1>0, BucketAt(anchor, side, i, price), side \in Sides, ChainAt
  <2> QED
    BY <1>0, <2>1
<1>7. DOMAIN c = 1..Len(s) /\ \A k \in DOMAIN c : IsPlace(q, loc, at, k, s[k], c[k])
  BY <1>2, <1>6 DEF IsChain
<1>8. ASSUME NEW k \in DOMAIN c
      PROVE  /\ lob.nodes[c[k]].order_id = s[k] /\ lob.nodes[c[k]].side = side /\ lob.nodes[c[k]].price = price
             /\ lob.nodes[c[k]].size = book[s[k]].size
  <2> DEFINE x == s[k]
             n == c[k]
  <2>1. IsPlace(q, loc, at, k, x, n)
    BY <1>7
  <2> HIDE DEF x, n
  <2>2. /\ lob.nodes[n].order_id = x /\ lob.nodes[n].side = at[1] /\ lob.nodes[n].price = at[2]
        /\ lob.nodes[n].size = bk[x].size /\ x \in DOMAIN bk
    BY <1>0, <2>1, NodeRead
  <2> QED
    BY <1>1, <1>4, <2>2 DEF x, n
<1>9. OrdersAt(side, i) = [k \in DOMAIN c |-> [order_id |-> lob.nodes[c[k]].order_id, side |-> lob.nodes[c[k]].side,
                                               price |-> lob.nodes[c[k]].price, size |-> lob.nodes[c[k]].size]]
  BY DEF OrdersAt, c
<1> QED
  BY <1>5, <1>7, <1>8, <1>9

\* The array has the market's orders within its reach, and no others.
LEMMA GoodFollows ==
  ASSUME Good(lob, book, queue, anchor)
  PROVE  FollowsMarket
<1>1. PICK loc : Arrayed(lob, anchor, InReach(book, anchor), QueuesInReach(queue, anchor), loc)
  BY DEF Good
<1>2. Trading(book, queue) /\ lob.base = anchor /\ anchor \in Prices \cup {Undef}
  BY <1>1 DEF Good, Arrayed
<1>3. ASSUME NEW side \in Sides, NEW price \in PricesOf(side), Reached(price)
      PROVE  IndexOf(lob.base, price) # NoIndex /\ OrdersAt(side, IndexOf(lob.base, price)) = MarketAt(side, price)
  <2> DEFINE i == IndexOf(lob.base, price)
  <2>1. ReachedFrom(anchor, price) /\ price \in Prices
    BY <1>3, ReachedIs, PricesAre
  <2>2. anchor \in Prices
    BY <1>2, <2>1 DEF ReachedFrom
  <2>3. i # NoIndex /\ i \in Places
    BY <1>2, <2>1, <2>2, GridIs
  <2>4. BucketAt(anchor, side, i, price)
    BY <1>2, <2>1 DEF BucketAt
  <2> HIDE DEF i
  <2>5. OrdersAt(side, i) = MarketAt(side, price)
    BY <1>1, <1>2, <2>4, ShownAt
  <2> QED
    BY <2>3, <2>5 DEF i
<1>4. ASSUME NEW side \in Sides, NEW i \in Places, lob.levels[side][i].total_qty > 0
      PROVE  Reached(lob.levels[side][i].price) /\ IndexOf(lob.base, lob.levels[side][i].price) = i
  <2> DEFINE bk == InReach(book, anchor)
             q == QueuesInReach(queue, anchor)
             r == lob.levels[side][i]
  <2>1. Arrayed(lob, anchor, bk, q, loc)
    BY <1>1
  <2> HIDE DEF bk, q
  <2>2. r # NoLevel
    BY <1>4 DEF NoLevel
  <2>3. PICK price : BucketAt(anchor, side, i, price)
    BY <2>1, <2>2, BucketKnown
  <2> DEFINE at == <<side, price>>
  <2>4. at = <<side, price>>
    OBVIOUS
  <2> HIDE DEF at
  <2>5. SlotSays(r, bk, q, loc, at) /\ at[2] = price /\ ReachedFrom(anchor, price) /\ IndexOf(lob.base, price) = i
    BY <2>1, <2>3, <2>4, BucketIs
  <2>6. r.price = price
    BY <1>4, <2>5 DEF SlotSays
  <2> QED
    BY <2>5, <2>6, ReachedIs
<1> QED
  BY <1>3, <1>4 DEF FollowsMarket

---------------------------------------------------------------------------
\* A side and price whose queue is not empty.
LEMMA QueueReached ==
  ASSUME NEW b, NEW a, NEW bk, NEW q, NEW loc, Arrayed(b, a, bk, q, loc), NEW side \in Sides, NEW price \in Prices,
         NEW at, at = <<side, price>>
  PROVE  /\ at \in DOMAIN q /\ at[2] = price
         /\ q[at] # <<>> => price \in PricesOf(side) /\ ReachedFrom(a, price) /\ a \in Prices
         /\ q[at] # <<>> <=> \E id \in DOMAIN bk : bk[id].side = side /\ bk[id].price = price
<1>1. OnSpots(q) /\ FromFeed(bk) /\ Within(a, q) /\ Queues(bk, q) /\ a \in Prices \cup {Undef}
  BY DEF Arrayed, Shelf
<1>2. at \in DOMAIN q /\ at[1] = side /\ at[2] = price
  BY <1>1 DEF OnSpots
<1>3. /\ q[at] \in Seq(DOMAIN bk)
      /\ \A k \in 1..Len(q[at]) : q[at][k] \in DOMAIN bk /\ SpotOf(bk[q[at][k]]) = at
      /\ \A id \in DOMAIN bk : SpotOf(bk[id]) = at => \E k \in 1..Len(q[at]) : q[at][k] = id
  <2>1. Queues(bk, q) /\ at \in DOMAIN q
    BY <1>1, <1>2
  <2> QED
    BY ONLY <2>1, QueueHolds
<1>4. ASSUME q[at] # <<>>
      PROVE  /\ price \in PricesOf(side) /\ ReachedFrom(a, price) /\ a \in Prices
             /\ \E id \in DOMAIN bk : bk[id].side = side /\ bk[id].price = price
  <2> DEFINE x == q[at][1]
  <2>1. 1 \in 1..Len(q[at])
    BY <1>3, <1>4
  <2>2. x \in DOMAIN bk /\ SpotOf(bk[x]) = at
    BY <1>3, <2>1
  <2>3. bk[x].side = side /\ bk[x].price = price
    BY <2>2 DEF SpotOf
  <2>4. price \in PricesOf(side)
    BY <1>1, <2>2, <2>3 DEF FromFeed
  <2>5. ReachedFrom(a, price)
    BY <1>1, <1>2, <1>4 DEF Within
  <2> QED
    BY <1>1, <2>2, <2>3, <2>4, <2>5 DEF ReachedFrom
<1>5. ASSUME NEW id \in DOMAIN bk, bk[id].side = side, bk[id].price = price PROVE q[at] # <<>>
  <2>1. SpotOf(bk[id]) = at
    BY <1>5 DEF SpotOf
  <2>2. PICK k \in 1..Len(q[at]) : q[at][k] = id
    BY <1>3, <2>1
  <2> QED
    BY <2>2
<1> QED
  BY <1>2, <1>4, <1>5

\* The market's volume at a price, as a sum.
LEMMA MarketQtyIs ==
  ASSUME NEW bk, IsBook(bk), NEW side, NEW price, NEW at, at = <<side, price>>
  PROVE  Market!LevelQty(bk, side, price) = TotalAt(bk, at)
<1> DEFINE S == {id \in Market!Resting(bk, side) : bk[id].price = price}
           w == SizesIn(bk)
           f == CHOOSE g : g = [T \in SUBSET S |-> IF T = {} THEN 0
                  ELSE bk[CHOOSE x \in T : TRUE].size + g[T \ {CHOOSE x \in T : TRUE}]]
<1>1. S = HoldersAt(bk, at)
  BY DEF Market!Resting, HoldersAt, SpotOf
<1>2. IsFiniteSet(S) /\ Weighs(w, S)
  BY <1>1, SizesAre
<1>3. Market!LevelQty(bk, side, price) = f[S]
  BY DEF Market!LevelQty, Market!MapThenSumSet, Market!MapThenFoldSet, MapThenSumSet, MapThenFoldSet
<1>4. \A T \in SUBSET S : T # {} => w[CHOOSE x \in T : TRUE] = bk[CHOOSE x \in T : TRUE].size
  BY DEF SizesIn, Market!Resting
<1> HIDE DEF w, S
<1>5. PICK g : Unfolds(g, w, S)
  BY <1>2, SumUnfolds
<1>6. g = [T \in SUBSET S |-> IF T = {} THEN 0
             ELSE bk[CHOOSE x \in T : TRUE].size + g[T \ {CHOOSE x \in T : TRUE}]]
  BY <1>4, <1>5 DEF Unfolds
<1>7. f = [T \in SUBSET S |-> IF T = {} THEN 0
             ELSE bk[CHOOSE x \in T : TRUE].size + f[T \ {CHOOSE x \in T : TRUE}]]
  BY <1>6 DEF f
<1> HIDE DEF f
<1>8. Unfolds(f, w, S)
  BY <1>4, <1>7 DEF Unfolds
<1>9. f[S] = SumOver(w, S)
  BY <1>2, <1>8, SumUnfolds
<1> QED
  BY <1>1, <1>3, <1>9 DEF w, TotalAt

\* The level of a price within reach has the volume there, and other prices have none.
LEMMA QtyAgrees ==
  ASSUME NEW a, NEW bk, NEW q, NEW loc, Arrayed(lob, a, bk, q, loc), NEW side \in Sides, NEW price \in Prices
  PROVE  LevelQty(lob, side, price) = Market!LevelQty(bk, side, price)
<1> DEFINE at == <<side, price>>
           i == IndexOf(lob.base, price)
           r == lob.levels[side][i]
<1>0. at = <<side, price>>
  OBVIOUS
<1>1. IsBook(bk) /\ Queues(bk, q) /\ lob.base = a
  BY DEF Arrayed, Shelf
<1>2. LevelQty(lob, side, price) = IF i # NoIndex /\ r.price = price THEN r.total_qty ELSE 0
  BY DEF LevelQty
<1>3. i # NoIndex => i \in Places
  <2>1. LobCapacity \div 2 \in Places
    BY GridConstants DEF Places
  <2> QED
    BY <2>1 DEF IndexOf
<1> HIDE DEF at, i, r
<1>4. /\ at \in DOMAIN q /\ at[2] = price
      /\ q[at] # <<>> => price \in PricesOf(side) /\ ReachedFrom(a, price)
  BY <1>0, QueueReached
<1>5. TotalAt(bk, at) = 0 <=> q[at] = <<>>
  BY <1>1, <1>4, TotalIs
<1>6. Market!LevelQty(bk, side, price) = TotalAt(bk, at)
  BY <1>0, <1>1, MarketQtyIs
<1>7. CASE q[at] # <<>>
  <2>1. BucketAt(a, side, i, price)
    BY <1>1, <1>4, <1>7 DEF BucketAt, i
  <2>2. SlotSays(r, bk, q, loc, at) /\ i # NoIndex
    BY <1>0, <2>1, BucketIs DEF r
  <2>3. r.total_qty = TotalAt(bk, at) /\ r.price = price
    BY <1>4, <1>7, <2>2 DEF SlotSays
  <2> QED
    BY <1>2, <1>6, <2>2, <2>3
<1>8. CASE q[at] = <<>>
  <2>1. ASSUME i # NoIndex, r.price = price PROVE r.total_qty = 0
    <3>1. i \in Places
      BY <1>3, <2>1
    <3>2. CASE r = NoLevel
      BY <3>2 DEF NoLevel
    <3>3. ASSUME NEW p, BucketAt(a, side, i, p) PROVE r.total_qty = 0
      <4> DEFINE s == <<side, p>>
      <4>1. s = <<side, p>>
        OBVIOUS
      <4> HIDE DEF s
      <4>2. SlotSays(r, bk, q, loc, s) /\ s[2] = p
        BY <3>3, <4>1, BucketIs DEF r
      <4>3. CASE q[s] = <<>>
        BY <4>2, <4>3 DEF SlotSays
      <4>4. CASE q[s] # <<>>
        <5>1. p = price
          BY <2>1, <4>2, <4>4 DEF SlotSays
        <5> QED
          BY <1>0, <1>8, <4>1, <4>4, <5>1
      <4> QED
        BY <4>3, <4>4
    <3>4. \/ \E p : BucketAt(a, side, i, p)
          \/ r = NoLevel
      BY <3>1, BucketKnown DEF r
    <3> QED
      BY <3>2, <3>3, <3>4
  <2> QED
    BY <1>2, <1>5, <1>6, <1>8, <2>1
<1> QED
  BY <1>7, <1>8

\* The greatest and the least of a set.
LEMMA ExtremesAre ==
  ASSUME NEW S \in SUBSET Int, NEW p \in S
  PROVE  /\ (\A y \in S : p >= y) => Market!Max(S) = p
         /\ (\A y \in S : p <= y) => Market!Min(S) = p
<1>1. ASSUME \A y \in S : p >= y PROVE Market!Max(S) = p
  <2>1. Market!Max(S) = CHOOSE x \in S : \A y \in S : x >= y
    BY DEF Market!Max
  <2>2. \A x \in S : (\A y \in S : x >= y) => x = p
    BY <1>1
  <2> QED
    BY <1>1, <2>1, <2>2
<1>2. ASSUME \A y \in S : p <= y PROVE Market!Min(S) = p
  <2>1. Market!Min(S) = CHOOSE x \in S : \A y \in S : x <= y
    BY DEF Market!Min
  <2>2. \A x \in S : (\A y \in S : x <= y) => x = p
    BY <1>2
  <2> QED
    BY <1>2, <2>1, <2>2
<1> QED
  BY <1>1, <1>2

\* The cached best price of a side without wide gaps is the best there is.
LEMMA BestAgrees ==
  ASSUME NEW a, NEW bk, NEW q, NEW loc, Arrayed(lob, a, bk, q, loc), NEW side \in Sides, Dense(side)
  PROVE  lob.best[side] = Market!Best(bk, side)
<1> DEFINE best == lob.best[side]
           prices == {bk[id].price : id \in Market!Resting(bk, side)}
<1>1. /\ best # Undef => best \in PricesOf(side) /\ q[<<side, best>>] # <<>>
      /\ \A price \in PricesOf(side) : q[<<side, price>>] # <<>> => best # Undef /\ ~Better(side, price, best)
  BY DEF Arrayed, BestIs
<1>2. \A p : p \in prices <=> \E id \in DOMAIN bk : bk[id].side = side /\ bk[id].price = p
  BY DEF Market!Resting
<1>3. Market!Best(bk, side) = IF prices = {} THEN 0 ELSE IF side = "Bid" THEN Market!Max(prices) ELSE Market!Min(prices)
  BY DEF Market!Best
<1> HIDE DEF prices, best
<1>4. ASSUME NEW p \in prices PROVE p \in PricesOf(side) /\ p \in Nat \ {0} /\ q[<<side, p>>] # <<>>
  <2> DEFINE at == <<side, p>>
  <2>1. at = <<side, p>>
    OBVIOUS
  <2> HIDE DEF at
  <2>2. PICK id \in DOMAIN bk : bk[id].side = side /\ bk[id].price = p
    BY <1>2
  <2>3. p \in PricesOf(side)
    BY <2>2 DEF Arrayed, FromFeed
  <2>4. p \in Prices /\ p \in Nat \ {0}
    BY <2>3, PricesAre
  <2>5. q[at] # <<>>
    BY <2>1, <2>2, <2>4, QueueReached
  <2> QED
    BY <2>1, <2>3, <2>4, <2>5
<1>5. ASSUME best # Undef PROVE best \in prices
  <2> DEFINE at == <<side, best>>
  <2>1. at = <<side, best>> /\ q[at] # <<>>
    BY <1>1, <1>5
  <2> HIDE DEF at
  <2>2. best \in Prices
    BY <1>1, <1>5, PricesAre
  <2>3. \E id \in DOMAIN bk : bk[id].side = side /\ bk[id].price = best
    BY <2>1, <2>2, QueueReached
  <2> QED
    BY <1>2, <2>3
<1>6. CASE best = Undef
  <2>1. prices = {}
    BY <1>1, <1>4, <1>6
  <2> QED
    BY <1>3, <1>6, <2>1 DEF Undef, best
<1>7. CASE best # Undef
  <2>1. best \in prices
    BY <1>5, <1>7
  <2>2. prices \in SUBSET Int
    <3>1. \A p \in prices : p \in Nat \ {0}
      BY <1>4
    <3>2. \A p \in prices : p \in Int
      BY ONLY <3>1
    <3> QED
      BY ONLY <3>2
  <2>3. \A y \in prices : ~Better(side, y, best)
    BY <1>1, <1>4
  <2>4. CASE side = "Bid"
    <3>1. \A y \in prices : best >= y
      BY <2>1, <2>2, <2>3, <2>4 DEF Better
    <3>2. Market!Max(prices) = best
      BY <2>1, <2>2, <3>1, ExtremesAre
    <3> QED
      BY <1>3, <2>1, <2>4, <3>2 DEF best
  <2>5. CASE side # "Bid"
    <3>1. \A y \in prices : best <= y
      BY <2>1, <2>2, <2>3, <2>5 DEF Better
    <3>2. Market!Min(prices) = best
      BY <2>1, <2>2, <3>1, ExtremesAre
    <3> QED
      BY <1>3, <2>1, <2>5, <3>2 DEF best
  <2> QED
    BY <2>4, <2>5
<1> QED
  BY <1>6, <1>7

\* A cached best price has orders.
LEMMA BestAlive ==
  ASSUME NEW a, NEW bk, NEW q, NEW loc, Arrayed(lob, a, bk, q, loc), NEW side \in Sides, lob.best[side] # Undef
  PROVE  IsAlive(lob, side, lob.best[side])
<1> DEFINE best == lob.best[side]
           at == <<side, best>>
<1>1. best \in PricesOf(side) /\ q[at] # <<>> /\ at = <<side, best>>
  BY DEF Arrayed, BestIs
<1>2. best \in Prices
  BY <1>1, PricesAre
<1>3. Arrayed(lob, a, bk, q, loc)
  OBVIOUS
<1> HIDE DEF best, at
<1>4. a \in Prices
  BY <1>1, <1>2, QueueReached
<1>5. /\ Shelf(MaxOrders, IdMapCapacity, lob, bk, q, loc) /\ OnSpots(q) /\ Within(a, q)
      /\ lob.base = a /\ Buckets(a, side, lob.levels[side], bk, q, loc)
  BY DEF Arrayed
<1>6. IsAlive(lob, side, best) <=> best \in PricesOf(side) /\ q[<<side, best>>] # <<>>
  BY <1>4, <1>5, AliveIs
<1> QED
  BY <1>1, <1>6 DEF best

\* The queries agree.
LEMMA GoodAgrees ==
  ASSUME NEW loc, Arrayed(lob, anchor, InReach(book, anchor), QueuesInReach(queue, anchor), loc)
  PROVE  QueriesAgree
<1> DEFINE bk == InReach(book, anchor)
           q == QueuesInReach(queue, anchor)
<1>1. Arrayed(lob, anchor, bk, q, loc)
  OBVIOUS
<1>2. BookInReach = bk
  BY ReachedIs DEF BookInReach, InReach
<1> HIDE DEF bk, q
<1>3. ASSUME NEW side \in Sides
      PROVE  /\ \A price \in Prices : LevelQty(lob, side, price) = Market!LevelQty(bk, side, price)
             /\ \/ lob.best[side] = Market!Best(bk, side)
                \/ ~Dense(side) /\ (lob.best[side] # Undef => IsAlive(lob, side, lob.best[side]))
  <2>1. \A price \in Prices : LevelQty(lob, side, price) = Market!LevelQty(bk, side, price)
    BY <1>1, QtyAgrees
  <2>2. Dense(side) => lob.best[side] = Market!Best(bk, side)
    BY <1>1, BestAgrees
  <2>3. lob.best[side] # Undef => IsAlive(lob, side, lob.best[side])
    BY <1>1, BestAlive
  <2> QED
    BY <2>1, <2>2, <2>3
<1> QED
  BY <1>2, <1>3 DEF QueriesAgree

\* The four properties of the array.
LEMMA GoodShows == ASSUME ArrayGood PROVE TypeOK /\ QueriesAgree /\ ListsIntact /\ FollowsMarket
<1>1. Good(lob, book, queue, anchor)
  BY DEF ArrayGood
<1>2. PICK loc : Arrayed(lob, anchor, InReach(book, anchor), QueuesInReach(queue, anchor), loc)
  BY <1>1 DEF Good
<1>3. TypeOK /\ ListsIntact
  BY <1>2, GoodTyped, GoodLists
<1>4. QueriesAgree
  BY <1>2, GoodAgrees
<1>5. FollowsMarket
  BY <1>1, GoodFollows
<1> QED
  BY <1>3, <1>4, <1>5

\* Nodes, buckets and cached prices of the array have their types; no size or total is
\* ever below zero.
THEOREM ArrayTyped == Spec => []TypeOK
  BY ArrayAlwaysGood, GoodShows, PTL

\* get_level_qty always answers what a look at every order within reach would, and so do the
\* cached best prices on a side without wide gaps.
THEOREM ArrayAnswers == Spec => []QueriesAgree
  BY ArrayAlwaysGood, GoodShows, PTL

\* The intrusive lists of every bucket are always whole, and the id map finds the orders in them.
THEOREM ArrayIntact == Spec => []ListsIntact
  BY ArrayAlwaysGood, GoodShows, PTL

\* The array always has the market's orders within its reach and no others, each in the bucket
\* of its price and in its turn, whatever was dropped, moved or came back.
THEOREM ArrayFollows == Spec => []FollowsMarket
  BY ArrayAlwaysGood, GoodShows, PTL
====
