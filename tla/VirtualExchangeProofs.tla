---- MODULE VirtualExchangeProofs ----
(* The virtual exchange under any legal sequence of calls, with levels and orders of
   any number: the levels stay intact, a cancel takes no one's place, and fills keep
   price-time priority, are acknowledged, and use up the volume they reach.  A fill's
   two nested walks are folds; each is unrolled into the sequence of its states, from
   which follows what it leaves of a level (Filling) and of a side (Passage), and then
   what it takes at each place of the side (Course, Trades). *)
EXTENDS VirtualExchangeClient, ContainerFacts

---------------------------------------------------------------------------
(* Arithmetic of words. *)

Words == 0..(Word - 1)

\* A number is a multiple of Word and its remainder.
LEMMA Remainder ==
  ASSUME NEW a \in Int
  PROVE  a % Word \in Words /\ a \div Word \in Int /\ a = Word * (a \div Word) + (a % Word)
  BY WordAssumption DEF Words

\* Two words that differ by a multiple of Word are equal.
LEMMA WordsDiffer ==
  ASSUME NEW r \in Words, NEW s \in Words, NEW k \in Int, r = s + Word * k
  PROVE  r = s
<1>1. Word \in Nat /\ Word > 0
  BY WordAssumption
<1>2. CASE k >= 1
  <2>1. k - 1 \in Nat /\ Word * k = Word + Word * (k - 1)
    BY <1>1, <1>2
  <2>2. Word * (k - 1) >= 0
    BY <1>1, <2>1
  <2> QED
    BY <1>1, <2>1, <2>2 DEF Words
<1>3. CASE k <= -1
  <2>1. -1 - k \in Nat /\ Word * k = -Word - Word * (-1 - k)
    BY <1>1, <1>3
  <2>2. Word * (-1 - k) >= 0
    BY <1>1, <2>1
  <2> QED
    BY <1>1, <2>1, <2>2 DEF Words
<1>4. CASE k = 0
  BY <1>1, <1>4 DEF Words
<1> QED
  BY <1>2, <1>3, <1>4

\* A sum may be reduced at any time.
LEMMA ReducedSum ==
  ASSUME NEW a \in Int, NEW b \in Int
  PROVE  ((a % Word) + b) % Word = (a + b) % Word
<1> DEFINE r == a % Word
           s == (r + b) % Word
           t == (a + b) % Word
           p == a \div Word
           q == (r + b) \div Word
           u == (a + b) \div Word
<1>0. Word \in Nat
  BY WordAssumption
<1>1. r \in Words /\ p \in Int /\ a = Word * p + r
  BY Remainder
<1>2. r \in Int /\ r + b \in Int /\ a + b \in Int
  BY <1>0, <1>1 DEF Words
<1>3. s \in Words /\ q \in Int /\ r + b = Word * q + s
  BY <1>2, Remainder
<1>4. t \in Words /\ u \in Int /\ a + b = Word * u + t
  BY <1>2, Remainder
<1> HIDE DEF r, s, t, p, q, u
<1>5. s = t + Word * ((u - p) - q) /\ (u - p) - q \in Int
  <2> DEFINE wu == Word * u
             wp == Word * p
             wq == Word * q
  <2>1. Word * ((u - p) - q) = (wu - wp) - wq /\ wu \in Int /\ wp \in Int /\ wq \in Int
    BY <1>0, <1>1, <1>3, <1>4
  <2>2. s \in Int /\ t \in Int /\ r \in Int
    BY <1>0, <1>1, <1>3, <1>4 DEF Words
  <2>3. a = wp + r /\ r + b = wq + s /\ a + b = wu + t
    BY <1>1, <1>3, <1>4
  <2> HIDE DEF wu, wp, wq
  <2>4. s = t + ((wu - wp) - wq)
    BY <2>1, <2>2, <2>3
  <2> QED
    BY <1>1, <1>3, <1>4, <2>1, <2>4
<1>6. s = t
  BY <1>3, <1>4, <1>5, WordsDiffer
<1> QED
  BY <1>6 DEF s, t, r

\* A word is its own remainder.
LEMMA WordReduced ==
  ASSUME NEW r \in Words
  PROVE  r % Word = r
  BY WordAssumption DEF Words

---------------------------------------------------------------------------
(* Filtered sequences. *)

\* The elements of r are the val[j] of those j up to n that are in K, in their order:
\* the k-th is that of at[k].
Selects(at, r, n, K, val) ==
  /\ at \in [1..Len(r) -> 1..n]
  /\ \A k, l \in 1..Len(r) : k < l => at[k] < at[l]
  /\ \A k \in 1..Len(r) : at[k] \in K /\ r[k] = val[at[k]]
  /\ \A j \in 1..n : j \in K => \E k \in 1..Len(r) : at[k] = j

Filtered(r, n, K, val) == \E at : Selects(at, r, n, K, val)

\* Of nothing, nothing is kept.
LEMMA FilteredNone ==
  ASSUME NEW K, NEW val
  PROVE  Filtered(<<>>, 0, K, val)
<1> DEFINE at == [k \in {} |-> 1]
<1>1. Selects(at, <<>>, 0, K, val)
  BY DEF Selects
<1> QED
  BY <1>1 DEF Filtered

\* One element more is kept or not.
LEMMA FilteredNext ==
  ASSUME NEW X, NEW r \in Seq(X), NEW n \in Nat, NEW K, NEW val, Filtered(r, n, K, val)
  PROVE  /\ n + 1 \in K /\ val[n + 1] \in X => Filtered(Append(r, val[n + 1]), n + 1, K, val)
         /\ n + 1 \notin K => Filtered(r, n + 1, K, val)
<1>1. PICK at : Selects(at, r, n, K, val)
  BY DEF Filtered
<1> DEFINE m == Len(r)
<1>2. m \in Nat
  OBVIOUS
<1>3. ASSUME n + 1 \in K, val[n + 1] \in X
      PROVE  Filtered(Append(r, val[n + 1]), n + 1, K, val)
  <2> DEFINE s == Append(r, val[n + 1])
             to == [k \in 1..(m + 1) |-> IF k = m + 1 THEN n + 1 ELSE at[k]]
  <2>1. Len(s) = m + 1 /\ s[m + 1] = val[n + 1] /\ \A k \in 1..m : s[k] = r[k]
    BY <1>3
  <2>2. \A k \in 1..(m + 1) : k = m + 1 \/ k \in 1..m
    BY <1>2
  <2>3. \A k \in 1..m : at[k] \in 1..n /\ k # m + 1 /\ k \in 1..(m + 1)
    BY <1>1, <1>2 DEF Selects
  <2>4. m + 1 \in 1..(m + 1) /\ to[m + 1] = n + 1 /\ \A k \in 1..m : to[k] = at[k]
    BY <1>2, <2>3
  <2>5. \A k \in 1..(m + 1) : to[k] \in 1..(n + 1) /\ to[k] \in K /\ s[k] = val[to[k]]
    <3> HIDE DEF s, to
    <3> SUFFICES ASSUME NEW k \in 1..(m + 1)
                 PROVE  to[k] \in 1..(n + 1) /\ to[k] \in K /\ s[k] = val[to[k]]
      OBVIOUS
    <3>1. CASE k = m + 1
      BY <1>3, <2>1, <2>4, <3>1
    <3>2. CASE k \in 1..m
      <4>1. to[k] = at[k] /\ at[k] \in 1..n /\ at[k] \in K /\ r[k] = val[at[k]] /\ s[k] = r[k]
        BY <1>1, <2>1, <2>4, <3>2 DEF Selects
      <4> QED
        BY <4>1
    <3> QED
      BY <2>2, <3>1, <3>2
  <2>6. to \in [1..(m + 1) -> 1..(n + 1)]
    BY <2>5
  <2>7. \A k, l \in 1..(m + 1) : k < l => to[k] < to[l]
    <3> HIDE DEF s, to
    <3> SUFFICES ASSUME NEW k \in 1..(m + 1), NEW l \in 1..(m + 1), k < l
                 PROVE  to[k] < to[l]
      OBVIOUS
    <3>1. k \in 1..m
      BY <1>2
    <3>2. CASE l = m + 1
      BY <2>3, <2>4, <3>1, <3>2
    <3>3. CASE l \in 1..m
      BY <1>1, <2>4, <3>1, <3>3 DEF Selects
    <3> QED
      BY <2>2, <3>2, <3>3
  <2>8. \A j \in 1..(n + 1) : j \in K => \E k \in 1..(m + 1) : to[k] = j
    <3> HIDE DEF s, to
    <3> SUFFICES ASSUME NEW j \in 1..(n + 1), j \in K
                 PROVE  \E k \in 1..(m + 1) : to[k] = j
      OBVIOUS
    <3>1. CASE j = n + 1
      BY <2>4, <3>1
    <3>2. CASE j \in 1..n
      <4>1. PICK k \in 1..m : at[k] = j
        BY <1>1, <3>2 DEF Selects
      <4> QED
        BY <2>3, <2>4, <4>1
    <3> QED
      BY <3>1, <3>2
  <2> HIDE DEF s, to
  <2>9. Selects(to, s, n + 1, K, val)
    BY <2>1, <2>5, <2>6, <2>7, <2>8 DEF Selects
  <2> QED
    BY <2>9 DEF Filtered, s
<1>4. ASSUME n + 1 \notin K
      PROVE  Filtered(r, n + 1, K, val)
  <2>1. Selects(at, r, n + 1, K, val)
    <3>1. at \in [1..m -> 1..(n + 1)]
      BY <1>1 DEF Selects
    <3>2. \A j \in 1..(n + 1) : j \in K => \E k \in 1..m : at[k] = j
      BY <1>1, <1>4 DEF Selects
    <3> QED
      BY <1>1, <3>1, <3>2 DEF Selects
  <2> QED
    BY <2>1 DEF Filtered
<1> QED
  BY <1>3, <1>4

---------------------------------------------------------------------------
(* A fill goes through one level. *)

FillRecord == [order_id : 1..MaxOrders, qty : Nat \ {0}]

\* What a fill with `left` units takes of the volume ahead of an order, and of the order.
Pass(o, left) == MinOf(o.qty_ahead, left)
Take(o, left) == MinOf(o.remaining_qty, left - Pass(o, left))

\* An order with so much less ahead of it, and of it.
Less(o, p, q) == [order_id |-> o.order_id, qty_ahead |-> o.qty_ahead - p,
                  remaining_qty |-> o.remaining_qty - q]

\* The walk when it has passed the levels `front` and stands in `level`.
Walked(front, level, left, fills) ==
  [left |-> left, levels |-> Append(front, level), fills |-> fills]

\* The level in hand, and the fills, after o was met.
Met(level, o, left) ==
  [price |-> level.price,
   total_qty_ahead |-> (level.total_qty_ahead - Pass(o, left)) % Word,
   orders |-> IF o.remaining_qty - Take(o, left) > 0
              THEN Append(level.orders, Less(o, Pass(o, left), Take(o, left)))
              ELSE level.orders]
Noted(fills, o, left) ==
  IF Take(o, left) > 0 THEN Append(fills, [order_id |-> o.order_id, qty |-> Take(o, left)])
  ELSE fills

\* A function that changed at one point.
LEMMA Replaced ==
  ASSUME NEW full, NEW s, s = [i \in DOMAIN full |-> s[i]], NEW n \in DOMAIN full,
         NEW x, s[n] = x, \A i \in DOMAIN full : i # n => s[i] = full[i]
  PROVE  s = [full EXCEPT ![n] = x]
  OBVIOUS

\* A walk after a step, as the step writes it.
Stepped(left, full, fills, n, p, d, orders, noted) ==
  [[left |-> left, levels |-> full, fills |-> fills] EXCEPT
     !.left = @ - p - d,
     !.levels[n].orders = orders,
     !.levels[n].total_qty_ahead = (@ - p) % Word,
     !.fills = noted]

\* How a step of several EXCEPTs changes the level in hand.
LEMMA Excepts ==
  ASSUME NEW left, NEW full, NEW fills, NEW n \in DOMAIN full,
         full[n] \in VirtualLevel,
         NEW p, NEW d, NEW orders, NEW noted
  PROVE  Stepped(left, full, fills, n, p, d, orders, noted)
         = [left |-> left - p - d,
            levels |-> [full EXCEPT ![n] = [price |-> full[n].price, total_qty_ahead |-> (full[n].total_qty_ahead - p) % Word,
                                            orders |-> orders]],
            fills |-> noted]
<1> DEFINE taken == [[left |-> left, levels |-> full, fills |-> fills] EXCEPT
                       !.left = @ - p - d,
                       !.levels[n].orders = orders,
                       !.levels[n].total_qty_ahead = (@ - p) % Word,
                       !.fills = noted]
           level == [price |-> full[n].price, total_qty_ahead |-> (full[n].total_qty_ahead - p) % Word, orders |-> orders]
           levels == taken.levels
           lv == full[n]
           kept == [lv EXCEPT !.orders = orders]
           one == [kept EXCEPT !.total_qty_ahead = (@ - p) % Word]
<1>1. taken.left = left - p - d
  OBVIOUS
<1>2. taken.fills = noted
  OBVIOUS
<1>3. \A i \in DOMAIN full : i # n => levels[i] = full[i]
  OBVIOUS
<1>4. levels = [i \in DOMAIN full |-> levels[i]]
  OBVIOUS
<1>5. levels[n] = one
  OBVIOUS
<1>6. taken = [left |-> taken.left, levels |-> taken.levels, fills |-> taken.fills]
  <2>1. taken = [k \in {"left", "levels", "fills"} |-> taken[k]]
    OBVIOUS
  <2> HIDE DEF taken
  <2> QED
    BY <2>1
<1>7. one = level
  <2>1. lv = [price |-> lv.price, total_qty_ahead |-> lv.total_qty_ahead, orders |-> lv.orders]
    BY DEF VirtualLevel
  <2> HIDE DEF lv
  <2>2. kept = [price |-> lv.price, total_qty_ahead |-> lv.total_qty_ahead, orders |-> orders]
    BY <2>1
  <2> HIDE DEF kept
  <2> QED
    BY <2>2 DEF lv
<1> HIDE DEF taken, one, level
<1>8. levels = [full EXCEPT ![n] = level]
  <2> HIDE DEF levels
  <2> QED
    BY <1>3, <1>4, <1>5, <1>7, Replaced
<1>9. taken = [left |-> left - p - d, levels |-> [full EXCEPT ![n] = level], fills |-> noted]
  BY <1>1, <1>2, <1>6, <1>8, Zenon
<1> QED
  BY <1>9, Zenon DEF Stepped, taken, level

\* A sequence that was appended to, with its last element replaced.
LEMMA AppendReplaced ==
  ASSUME NEW X, NEW s \in Seq(X), NEW y \in X
  PROVE  LET n == Len(Append(s, y))
         IN  /\ n = Len(s) + 1 /\ Append(s, y)[n] = y /\ n \in DOMAIN Append(s, y)
             /\ \A x \in X : [Append(s, y) EXCEPT ![n] = x] = Append(s, x)
<1> DEFINE n == Len(Append(s, y))
<1>1. /\ n = Len(s) + 1 /\ Append(s, y)[n] = y /\ n \in DOMAIN Append(s, y)
      /\ DOMAIN Append(s, y) = 1..n /\ \A i \in 1..n : i # n => Append(s, y)[i] = s[i]
  OBVIOUS
<1>2. ASSUME NEW x \in X PROVE [Append(s, y) EXCEPT ![n] = x] = Append(s, x)
  <2> DEFINE t == Append(s, x)
  <2>1. t = [i \in DOMAIN Append(s, y) |-> t[i]]
    <3>1. t \in Seq(X) /\ Len(t) = Len(s) + 1
      OBVIOUS
    <3> HIDE DEF t, n
    <3>2. DOMAIN t = 1..Len(t) /\ t = [i \in DOMAIN t |-> t[i]]
      BY <3>1
    <3> QED
      BY <1>1, <3>1, <3>2
  <2>2. t[n] = x
    OBVIOUS
  <2>3. \A i \in DOMAIN Append(s, y) : i # n => t[i] = Append(s, y)[i]
    OBVIOUS
  <2> HIDE DEF t, n
  <2>4. t = [Append(s, y) EXCEPT ![n] = x]
    BY <1>1, <2>1, <2>2, <2>3, Replaced
  <2> QED
    BY <2>4 DEF t
<1> QED
  BY <1>1, <1>2

\* What is taken of an order is there, and its volume ahead goes first.
LEMMA TakenIs ==
  ASSUME NEW o \in VirtualOrder, NEW left \in Nat
  PROVE  /\ Pass(o, left) \in Nat /\ Take(o, left) \in Nat
         /\ o.qty_ahead \in Nat /\ o.remaining_qty \in Nat
         /\ Pass(o, left) <= o.qty_ahead /\ Take(o, left) <= o.remaining_qty
         /\ left - Pass(o, left) - Take(o, left) \in Nat
         /\ Take(o, left) > 0 => Pass(o, left) = o.qty_ahead
         /\ Pass(o, left) < o.qty_ahead \/ Take(o, left) < o.remaining_qty
              => left - Pass(o, left) - Take(o, left) = 0
         /\ left = 0 => Pass(o, left) = 0 /\ Take(o, left) = 0
<1>1. o.qty_ahead \in Nat /\ o.remaining_qty \in Nat \ {0}
  BY WordAssumption DEF VirtualOrder
<1> QED
  BY <1>1 DEF Pass, Take, MinOf

\* An order that is not filled is still one.
LEMMA LessIs ==
  ASSUME NEW o \in VirtualOrder, NEW p \in Nat, NEW q \in Nat, p <= o.qty_ahead,
         o.remaining_qty - q > 0
  PROVE  Less(o, p, q) \in VirtualOrder
<1>1. o.qty_ahead \in 0..(Word - 1) /\ o.remaining_qty \in Nat \ {0} /\ o.order_id \in 1..MaxOrders
  BY DEF VirtualOrder
<1>2. o.qty_ahead - p \in 0..(Word - 1) /\ o.remaining_qty - q \in Nat \ {0}
  BY <1>1, WordAssumption
<1> QED
  BY <1>1, <1>2 DEF Less, VirtualOrder

\* Meeting an order changes the level in hand, what is left and the fills.
LEMMA MeetIs ==
  ASSUME NEW front \in Seq(VirtualLevel), NEW level \in VirtualLevel, NEW left \in Nat,
         NEW fills \in Seq(FillRecord), NEW o \in VirtualOrder
  PROVE  /\ Meet(Walked(front, level, left, fills), o)
              = Walked(front, Met(level, o, left), left - Pass(o, left) - Take(o, left),
                       Noted(fills, o, left))
         /\ Met(level, o, left) \in VirtualLevel
         /\ left - Pass(o, left) - Take(o, left) \in Nat
         /\ Noted(fills, o, left) \in Seq(FillRecord)
<1> DEFINE p == Pass(o, left)
           q == Take(o, left)
           walk == Walked(front, level, left, fills)
           n == Len(walk.levels)
           r == [o EXCEPT !.qty_ahead = @ - p, !.remaining_qty = @ - q]
<1>1. p \in Nat /\ q \in Nat /\ left - p - q \in Nat /\ p <= o.qty_ahead
  BY TakenIs
<1>2. o = [order_id |-> o.order_id, qty_ahead |-> o.qty_ahead, remaining_qty |-> o.remaining_qty]
      /\ o.order_id \in 1..MaxOrders
  BY DEF VirtualOrder
<1>3. r = Less(o, p, q)
  <2> DEFINE r1 == [o EXCEPT !.qty_ahead = @ - p]
  <2> HIDE DEF p, q
  <2>1. r1 = [order_id |-> o.order_id, qty_ahead |-> o.qty_ahead - p, remaining_qty |-> o.remaining_qty]
    BY <1>2
  <2>2. r = [r1 EXCEPT !.remaining_qty = @ - q]
    OBVIOUS
  <2> HIDE DEF r1, r
  <2>3. r = Less(o, p, q)
    BY <2>1, <2>2 DEF Less
  <2> QED
    BY <2>3
<1>4. IsOpen(r) <=> o.remaining_qty - q > 0
  BY <1>3 DEF Less, IsOpen
<1>5. /\ level = [price |-> level.price, total_qty_ahead |-> level.total_qty_ahead, orders |-> level.orders]
      /\ level.price \in Prices /\ level.total_qty_ahead \in Words /\ level.orders \in Seq(VirtualOrder)
  BY DEF VirtualLevel, Words
<1>6. /\ walk.left = left /\ walk.fills = fills /\ walk.levels = Append(front, level)
      /\ walk = [left |-> left, levels |-> Append(front, level), fills |-> fills]
  BY DEF Walked
<1>7. /\ n = Len(front) + 1 /\ Append(front, level)[n] = level /\ n \in DOMAIN Append(front, level)
      /\ \A x \in VirtualLevel : [Append(front, level) EXCEPT ![n] = x] = Append(front, x)
  BY <1>6, AppendReplaced
<1> DEFINE full == Append(front, level)
           orders == IF IsOpen(r) THEN Append(level.orders, r) ELSE level.orders
           one == [price |-> level.price, total_qty_ahead |-> (level.total_qty_ahead - p) % Word, orders |-> orders]
           noted == IF q > 0 THEN Append(fills, [order_id |-> o.order_id, qty |-> q]) ELSE fills
           taken == Stepped(left, full, fills, n, p, q, orders, noted)
<1>8. Meet(walk, o) = taken
  <2> HIDE DEF walk, n, full
  <2>1. MinOf(o.qty_ahead, walk.left) = p
    BY <1>6 DEF Pass
  <2> HIDE DEF p
  <2>2. MinOf(o.remaining_qty, walk.left - p) = q
    BY <1>6 DEF Take, p
  <2> HIDE DEF q
  <2>3. walk = [left |-> left, levels |-> full, fills |-> fills] /\ Len(walk.levels) = n
    BY <1>6 DEF full, n
  <2>4. full[n].orders = level.orders
    BY <1>7 DEF full
  <2> HIDE DEF r
  <2> QED
    BY <2>1, <2>2, <2>3, <2>4, Zenon DEF Meet, Stepped, r
<1> HIDE DEF p, q, walk, n, r, full
<1>9. taken = [left |-> left - p - q, levels |-> [full EXCEPT ![n] = one], fills |-> noted]
  <2>1. full[n] = level
    BY <1>7, Zenon DEF full
  <2>2. n \in DOMAIN full
    BY <1>7 DEF full
  <2> HIDE DEF orders, noted
  <2>3. taken = [left |-> left - p - q,
                 levels |-> [full EXCEPT ![n] = [price |-> full[n].price,
                   total_qty_ahead |-> (full[n].total_qty_ahead - p) % Word, orders |-> orders]],
                 fills |-> noted]
    BY <2>1, <2>2, Excepts
  <2> QED
    BY <2>1, <2>3, Zenon
<1>10. one = Met(level, o, left)
  BY <1>3, <1>4, Zenon DEF Met, p, q
<1>11. Noted(fills, o, left)
         = IF q > 0 THEN Append(fills, [order_id |-> o.order_id, qty |-> q]) ELSE fills
  BY DEF Noted, q
<1>12. Met(level, o, left) \in VirtualLevel
  <2>1. (level.total_qty_ahead - p) % Word \in Words
    BY <1>1, <1>5, WordAssumption, Remainder DEF Words
  <2>2. o.remaining_qty - q > 0 => Less(o, p, q) \in VirtualOrder
    BY <1>1, LessIs
  <2>3. Met(level, o, left).orders \in Seq(VirtualOrder)
    BY <1>5, <2>2 DEF Met, p, q
  <2> QED
    BY <1>5, <2>1, <2>3 DEF Met, VirtualLevel, Words, p
<1>13. Meet(walk, o) = Walked(front, Met(level, o, left), left - p - q, Noted(fills, o, left))
  <2>1. [full EXCEPT ![n] = Met(level, o, left)] = Append(front, Met(level, o, left))
    BY <1>7, <1>12 DEF full
  <2> HIDE DEF one, taken
  <2> QED
    BY <1>8, <1>9, <1>10, <1>11, <2>1, Zenon DEF Walked
<1>14. Noted(fills, o, left) \in Seq(FillRecord)
  <2>1. q > 0 => [order_id |-> o.order_id, qty |-> q] \in FillRecord
    BY <1>1, <1>2 DEF FillRecord
  <2> QED
    BY <1>11, <2>1
<1> QED
  BY <1>1, <1>12, <1>13, <1>14 DEF p, q, walk

\* A level is walked by meeting its orders.
MeetAll(walk, os) == FoldLeft(Meet, walk, os)

\* A level is walked order by order.
LEMMA MeetTrace ==
  ASSUME NEW D, NEW base \in D, NEW X, NEW s \in Seq(X),
         \A w \in D, y \in X : Meet(w, y) \in D
  PROVE  \E W : /\ W[0] = base
                /\ \A k \in 1..Len(s) : W[k] = Meet(W[k - 1], s[k])
                /\ MeetAll(base, s) = W[Len(s)]
                /\ \A k \in 0..Len(s) : W[k] \in D
<1> DEFINE n == Len(s)
           step == [a \in D \X (1..n) |-> Meet(a[1], s[a[2]])]
           f == CHOOSE g : g = [T \in SUBSET (DOMAIN s) |->
                  IF T = {} THEN base ELSE Meet(g[T \ {Max(T)}], s[Max(T)])]
           W == [k \in 0..n |-> f[1..k]]
<1>1. n \in Nat /\ DOMAIN s = 1..n /\ \A k \in 1..n : s[k] \in X
  OBVIOUS
<1>2. MeetAll(base, s) = f[DOMAIN s]
  BY DEF MeetAll, FoldLeft, MapThenFoldSet
<1> HIDE DEF n
<1>3. step \in [D \X (1..n) -> D] /\ \A w \in D, k \in 1..n : step[<<w, k>>] = Meet(w, s[k])
  BY <1>1
<1> HIDE DEF step
<1>4. PICK g : FoldsUp(g, n, base, step) /\ \A T \in SUBSET (1..n) : g[T] \in D
  <2>1. n \in Nat /\ step \in [D \X (1..n) -> D]
    BY <1>1, <1>3
  <2> HIDE DEF W, f
  <2> QED
    BY <2>1, FoldUp
<1>5. \A T \in SUBSET (1..n) : T # {} => Max(T) \in 1..n
  BY <1>1, MaxInside
<1>6. g = [T \in SUBSET (DOMAIN s) |->
             IF T = {} THEN base ELSE Meet(g[T \ {Max(T)}], s[Max(T)])]
  <2>1. ASSUME NEW T \in SUBSET (1..n), T # {}
        PROVE  step[<<g[T \ {Max(T)}], Max(T)>>] = Meet(g[T \ {Max(T)}], s[Max(T)])
    <3>1. T \ {Max(T)} \in SUBSET (1..n)
      OBVIOUS
    <3> QED
      BY <1>3, <1>4, <1>5, <2>1, <3>1
  <2> QED
    BY <1>1, <1>4, <2>1 DEF FoldsUp
<1>7. f = [T \in SUBSET (DOMAIN s) |->
             IF T = {} THEN base ELSE Meet(f[T \ {Max(T)}], s[Max(T)])]
  BY <1>6, Zenon
<1> HIDE DEF f
<1>8. f[1..0] = base
  BY <1>1, <1>7, Segments
<1>9. ASSUME NEW k \in 1..n PROVE f[1..k] = Meet(f[1..(k - 1)], s[k])
  <2>1. Max(1..k) = k /\ (1..k) \ {k} = 1..(k - 1) /\ 1..k # {} /\ 1..k \in SUBSET (DOMAIN s)
    <3>1. k \in Nat /\ k # 0 /\ 1..k \in SUBSET (1..n)
      BY <1>1
    <3> QED
      BY <1>1, <3>1, Segments
  <2>2. f[1..k] = Meet(f[(1..k) \ {Max(1..k)}], s[Max(1..k)])
    BY <1>7, <2>1, Zenon
  <2> QED
    BY <2>1, <2>2
<1>10. /\ W[0] = base
       /\ \A k \in 1..n : W[k] = Meet(W[k - 1], s[k])
       /\ W[n] = f[DOMAIN s]
  <2>1. \A k \in 0..n : W[k] = f[1..k]
    OBVIOUS
  <2>2. 0 \in 0..n /\ n \in 0..n /\ \A k \in 1..n : k \in 0..n /\ k - 1 \in 0..n
    BY <1>1
  <2> HIDE DEF W
  <2> QED
    BY <1>1, <1>8, <1>9, <2>1, <2>2
<1>11. \A k \in 0..n : W[k] \in D
  <2> DEFINE G == {k \in Nat : k <= n => W[k] \in D}
  <2> HIDE DEF W
  <2>1. 0 \in G
    BY <1>10
  <2>2. ASSUME NEW k \in Nat, k \in G PROVE k + 1 \in G
    <3> SUFFICES ASSUME k + 1 <= n PROVE W[k + 1] \in D
      OBVIOUS
    <3>1. k + 1 \in 1..n /\ (k + 1) - 1 = k /\ W[k] \in D /\ s[k + 1] \in X
      BY <1>1, <2>2
    <3> DEFINE w == W[k]
               y == s[k + 1]
    <3>2. W[k + 1] = Meet(w, y)
      BY <1>10, <3>1
    <3> HIDE DEF w, y
    <3>3. Meet(w, y) \in D
      BY <3>1 DEF w, y
    <3> QED
      BY <3>2, <3>3
  <2> HIDE DEF G
  <2>3. Nat \subseteq G
    BY <2>1, <2>2, NumberInduction
  <2> QED
    BY <1>1, <2>3 DEF G
<1> QED
  BY <1>2, <1>10, <1>11 DEF n

\* A side is walked level by level.
Setout(size) == [left |-> size, levels |-> <<>>, fills |-> <<>>]

\* A side is walked by entering its levels.
LEMMA WalkTrace ==
  ASSUME NEW x, NEW side, NEW price, NEW size, NEW D, Setout(size) \in D, x[side] \in Seq(VirtualLevel),
         \A w \in D, y \in VirtualLevel : Enter(w, side, price, size, y) \in D
  PROVE  \E W : /\ W[0] = Setout(size)
                /\ \A k \in 1..Len(x[side]) : W[k] = Enter(W[k - 1], side, price, size, x[side][k])
                /\ FillWalk(x, side, price, size) = W[Len(x[side])]
                /\ \A k \in 0..Len(x[side]) : W[k] \in D
<1> DEFINE s == x[side]
           base == Setout(size)
           n == Len(s)
           step == [a \in D \X (1..n) |-> Enter(a[1], side, price, size, s[a[2]])]
           f == CHOOSE g : g = [T \in SUBSET (DOMAIN s) |->
                  IF T = {} THEN base ELSE Enter(g[T \ {Max(T)}], side, price, size, s[Max(T)])]
           W == [k \in 0..n |-> f[1..k]]
<1>1. n \in Nat /\ DOMAIN s = 1..n /\ \A k \in 1..n : s[k] \in VirtualLevel
  OBVIOUS
<1>2. FillWalk(x, side, price, size) = f[DOMAIN s]
  BY DEF FillWalk, Setout, FoldLeft, MapThenFoldSet
<1> HIDE DEF n
<1>3. step \in [D \X (1..n) -> D] /\ \A w \in D, k \in 1..n : step[<<w, k>>] = Enter(w, side, price, size, s[k])
  BY <1>1
<1> HIDE DEF step
<1>4. PICK g : FoldsUp(g, n, base, step) /\ \A T \in SUBSET (1..n) : g[T] \in D
  <2>1. n \in Nat /\ step \in [D \X (1..n) -> D]
    BY <1>1, <1>3
  <2> HIDE DEF W, f
  <2> QED
    BY <2>1, FoldUp
<1>5. \A T \in SUBSET (1..n) : T # {} => Max(T) \in 1..n
  BY <1>1, MaxInside
<1>6. g = [T \in SUBSET (DOMAIN s) |->
             IF T = {} THEN base ELSE Enter(g[T \ {Max(T)}], side, price, size, s[Max(T)])]
  <2>1. ASSUME NEW T \in SUBSET (1..n), T # {}
        PROVE  step[<<g[T \ {Max(T)}], Max(T)>>] = Enter(g[T \ {Max(T)}], side, price, size, s[Max(T)])
    <3>1. T \ {Max(T)} \in SUBSET (1..n)
      OBVIOUS
    <3> QED
      BY <1>3, <1>4, <1>5, <2>1, <3>1
  <2> QED
    BY <1>1, <1>4, <2>1 DEF FoldsUp
<1>7. f = [T \in SUBSET (DOMAIN s) |->
             IF T = {} THEN base ELSE Enter(f[T \ {Max(T)}], side, price, size, s[Max(T)])]
  BY <1>6, Zenon
<1> HIDE DEF f
<1>8. f[1..0] = base
  BY <1>1, <1>7, Segments
<1>9. ASSUME NEW k \in 1..n PROVE f[1..k] = Enter(f[1..(k - 1)], side, price, size, s[k])
  <2>1. Max(1..k) = k /\ (1..k) \ {k} = 1..(k - 1) /\ 1..k # {} /\ 1..k \in SUBSET (DOMAIN s)
    <3>1. k \in Nat /\ k # 0 /\ 1..k \in SUBSET (1..n)
      BY <1>1
    <3> QED
      BY <1>1, <3>1, Segments
  <2>2. f[1..k] = Enter(f[(1..k) \ {Max(1..k)}], side, price, size, s[Max(1..k)])
    BY <1>7, <2>1, Zenon
  <2> QED
    BY <2>1, <2>2
<1>10. /\ W[0] = Setout(size)
       /\ \A k \in 1..n : W[k] = Enter(W[k - 1], side, price, size, s[k])
       /\ W[n] = f[DOMAIN s]
  <2>1. \A k \in 0..n : W[k] = f[1..k]
    OBVIOUS
  <2>2. 0 \in 0..n /\ n \in 0..n /\ \A k \in 1..n : k \in 0..n /\ k - 1 \in 0..n
    BY <1>1
  <2> HIDE DEF W
  <2> QED
    BY <1>1, <1>8, <1>9, <2>1, <2>2
<1>11. \A k \in 0..n : W[k] \in D
  <2> DEFINE G == {k \in Nat : k <= n => W[k] \in D}
  <2> HIDE DEF W
  <2>1. 0 \in G
    BY <1>10
  <2>2. ASSUME NEW k \in Nat, k \in G PROVE k + 1 \in G
    <3> SUFFICES ASSUME k + 1 <= n PROVE W[k + 1] \in D
      OBVIOUS
    <3>1. k + 1 \in 1..n /\ (k + 1) - 1 = k /\ W[k] \in D /\ s[k + 1] \in VirtualLevel
      BY <1>1, <2>2
    <3> DEFINE w == W[k]
               y == s[k + 1]
    <3>2. W[k + 1] = Enter(w, side, price, size, y)
      BY <1>10, <3>1
    <3> HIDE DEF w, y
    <3>3. Enter(w, side, price, size, y) \in D
      BY <3>1 DEF w, y
    <3> QED
      BY <3>2, <3>3
  <2> HIDE DEF G
  <2>3. Nat \subseteq G
    BY <2>1, <2>2, NumberInduction
  <2> QED
    BY <1>1, <2>3 DEF G
<1> QED
  BY <1>2, <1>10, <1>11 DEF n

\* The occupied levels are found one by one.
LEMMA OccupiedTrace ==
  ASSUME NEW D, <<>> \in D, NEW X, NEW s \in Seq(X),
         \A w \in D, y \in X : (IF HasOrders(y) THEN Append(w, y) ELSE w) \in D
  PROVE  \E W : /\ W[0] = <<>>
                /\ \A k \in 1..Len(s) : W[k] = (IF HasOrders(s[k]) THEN Append(W[k - 1], s[k]) ELSE W[k - 1])
                /\ Occupied(s) = W[Len(s)]
                /\ \A k \in 0..Len(s) : W[k] \in D
<1> DEFINE base == <<>>
           n == Len(s)
           step == [a \in D \X (1..n) |-> (IF HasOrders(s[a[2]]) THEN Append(a[1], s[a[2]]) ELSE a[1])]
           f == CHOOSE g : g = [T \in SUBSET (DOMAIN s) |->
                  IF T = {} THEN base ELSE (IF HasOrders(s[Max(T)]) THEN Append(g[T \ {Max(T)}], s[Max(T)]) ELSE g[T \ {Max(T)}])]
           W == [k \in 0..n |-> f[1..k]]
<1>1. n \in Nat /\ DOMAIN s = 1..n /\ \A k \in 1..n : s[k] \in X
  OBVIOUS
<1>2. Occupied(s) = f[DOMAIN s]
  BY DEF Occupied, FoldLeft, MapThenFoldSet
<1> HIDE DEF n
<1>3. step \in [D \X (1..n) -> D] /\ \A w \in D, k \in 1..n : step[<<w, k>>] = (IF HasOrders(s[k]) THEN Append(w, s[k]) ELSE w)
  BY <1>1
<1> HIDE DEF step
<1>4. PICK g : FoldsUp(g, n, base, step) /\ \A T \in SUBSET (1..n) : g[T] \in D
  <2>1. n \in Nat /\ step \in [D \X (1..n) -> D]
    BY <1>1, <1>3
  <2> HIDE DEF W, f
  <2> QED
    BY <2>1, FoldUp
<1>5. \A T \in SUBSET (1..n) : T # {} => Max(T) \in 1..n
  BY <1>1, MaxInside
<1>6. g = [T \in SUBSET (DOMAIN s) |->
             IF T = {} THEN base ELSE (IF HasOrders(s[Max(T)]) THEN Append(g[T \ {Max(T)}], s[Max(T)]) ELSE g[T \ {Max(T)}])]
  <2>1. ASSUME NEW T \in SUBSET (1..n), T # {}
        PROVE  step[<<g[T \ {Max(T)}], Max(T)>>] = (IF HasOrders(s[Max(T)]) THEN Append(g[T \ {Max(T)}], s[Max(T)]) ELSE g[T \ {Max(T)}])
    <3>1. T \ {Max(T)} \in SUBSET (1..n)
      OBVIOUS
    <3> QED
      BY <1>3, <1>4, <1>5, <2>1, <3>1
  <2> QED
    BY <1>1, <1>4, <2>1 DEF FoldsUp
<1>7. f = [T \in SUBSET (DOMAIN s) |->
             IF T = {} THEN base ELSE (IF HasOrders(s[Max(T)]) THEN Append(f[T \ {Max(T)}], s[Max(T)]) ELSE f[T \ {Max(T)}])]
  BY <1>6, Zenon
<1> HIDE DEF f
<1>8. f[1..0] = base
  BY <1>1, <1>7, Segments
<1>9. ASSUME NEW k \in 1..n PROVE f[1..k] = (IF HasOrders(s[k]) THEN Append(f[1..(k - 1)], s[k]) ELSE f[1..(k - 1)])
  <2>1. Max(1..k) = k /\ (1..k) \ {k} = 1..(k - 1) /\ 1..k # {} /\ 1..k \in SUBSET (DOMAIN s)
    <3>1. k \in Nat /\ k # 0 /\ 1..k \in SUBSET (1..n)
      BY <1>1
    <3> QED
      BY <1>1, <3>1, Segments
  <2>2. f[1..k] = (IF HasOrders(s[Max(1..k)]) THEN Append(f[(1..k) \ {Max(1..k)}], s[Max(1..k)]) ELSE f[(1..k) \ {Max(1..k)}])
    BY <1>7, <2>1, Zenon
  <2> QED
    BY <2>1, <2>2
<1>10. /\ W[0] = <<>>
       /\ \A k \in 1..n : W[k] = (IF HasOrders(s[k]) THEN Append(W[k - 1], s[k]) ELSE W[k - 1])
       /\ W[n] = f[DOMAIN s]
  <2>1. \A k \in 0..n : W[k] = f[1..k]
    OBVIOUS
  <2>2. 0 \in 0..n /\ n \in 0..n /\ \A k \in 1..n : k \in 0..n /\ k - 1 \in 0..n
    BY <1>1
  <2> HIDE DEF W
  <2> QED
    BY <1>1, <1>8, <1>9, <2>1, <2>2
<1>11. \A k \in 0..n : W[k] \in D
  <2> DEFINE G == {k \in Nat : k <= n => W[k] \in D}
  <2> HIDE DEF W
  <2>1. 0 \in G
    BY <1>10
  <2>2. ASSUME NEW k \in Nat, k \in G PROVE k + 1 \in G
    <3> SUFFICES ASSUME k + 1 <= n PROVE W[k + 1] \in D
      OBVIOUS
    <3>1. k + 1 \in 1..n /\ (k + 1) - 1 = k /\ W[k] \in D /\ s[k + 1] \in X
      BY <1>1, <2>2
    <3> DEFINE w == W[k]
               y == s[k + 1]
    <3>2. W[k + 1] = (IF HasOrders(y) THEN Append(w, y) ELSE w)
      BY <1>10, <3>1
    <3> HIDE DEF w, y
    <3>3. (IF HasOrders(y) THEN Append(w, y) ELSE w) \in D
      BY <3>1 DEF w, y
    <3> QED
      BY <3>2, <3>3
  <2> HIDE DEF G
  <2>3. Nat \subseteq G
    BY <2>1, <2>2, NumberInduction
  <2> QED
    BY <1>1, <2>3 DEF G
<1> QED
  BY <1>2, <1>10, <1>11 DEF n

\* The levels that hold an order, of those of a side.
OccupiedAt(levels) == {i \in DOMAIN levels : HasOrders(levels[i])}

\* Occupied keeps the levels that hold an order, in their order.
LEMMA OccupiedIs ==
  ASSUME NEW levels \in Seq(VirtualLevel)
  PROVE  /\ Occupied(levels) \in Seq(VirtualLevel)
         /\ Filtered(Occupied(levels), Len(levels), OccupiedAt(levels), levels)
<1> DEFINE D == Seq(VirtualLevel)
           n == Len(levels)
           K == OccupiedAt(levels)
<1>1. n \in Nat /\ DOMAIN levels = 1..n /\ \A k \in 1..n : levels[k] \in VirtualLevel
  OBVIOUS
<1>2. PICK W : /\ W[0] = <<>>
               /\ \A k \in 1..n : W[k] = IF HasOrders(levels[k]) THEN Append(W[k - 1], levels[k])
                                         ELSE W[k - 1]
               /\ Occupied(levels) = W[n]
  <2>1. /\ <<>> \in D
        /\ \A w \in D, y \in VirtualLevel : (IF HasOrders(y) THEN Append(w, y) ELSE w) \in D
    OBVIOUS
  <2> HIDE DEF D
  <2> QED
    BY <2>1, OccupiedTrace
<1> DEFINE G == {k \in Nat : k <= n => W[k] \in D /\ Filtered(W[k], k, K, levels)}
<1>3. 0 \in G
  <2>1. W[0] \in D /\ Filtered(W[0], 0, K, levels)
    BY <1>2, FilteredNone
  <2> QED
    BY <2>1
<1>4. ASSUME NEW k \in Nat, k \in G PROVE k + 1 \in G
  <2> SUFFICES ASSUME k + 1 <= n
               PROVE  W[k + 1] \in D /\ Filtered(W[k + 1], k + 1, K, levels)
    BY <1>4
  <2>1. W[k] \in D /\ Filtered(W[k], k, K, levels) /\ k + 1 \in 1..n /\ (k + 1) - 1 = k
    BY <1>1, <1>4
  <2>2. W[k + 1] = IF HasOrders(levels[k + 1]) THEN Append(W[k], levels[k + 1]) ELSE W[k]
    BY <1>2, <2>1
  <2>3. levels[k + 1] \in VirtualLevel /\ (k + 1 \in K <=> HasOrders(levels[k + 1]))
    BY <1>1, <2>1 DEF OccupiedAt
  <2> HIDE DEF G, K
  <2>4. CASE HasOrders(levels[k + 1])
    BY <2>1, <2>2, <2>3, <2>4, FilteredNext
  <2>5. CASE ~HasOrders(levels[k + 1])
    BY <2>1, <2>2, <2>3, <2>5, FilteredNext
  <2> QED
    BY <2>4, <2>5
<1> HIDE DEF G, K
<1>5. n \in G
  BY <1>1, <1>3, <1>4, NumberInduction
<1> QED
  BY <1>1, <1>2, <1>5 DEF G, K

---------------------------------------------------------------------------
(* Sequences, as the proofs pass them around. *)

LevelSeqs == Seq(VirtualLevel)
OrderSeqs == Seq(VirtualOrder)
FillSeqs == Seq(FillRecord)
Joined(s, t) == s \o t

\* Joined sequences of fills.
LEMMA JoinedFills ==
  /\ <<>> \in FillSeqs
  /\ \A s \in FillSeqs : Joined(s, <<>>) = s /\ \A e \in FillRecord : Append(s, e) \in FillSeqs
  /\ \A s, t \in FillSeqs : Joined(s, t) \in FillSeqs
  /\ \A s, t \in FillSeqs, e \in FillRecord :
       Append(Joined(s, t), e) = Joined(s, Append(t, e))
<1>1. ASSUME NEW s \in FillSeqs, NEW t \in FillSeqs, NEW e \in FillRecord
      PROVE  Append(Joined(s, t), e) = Joined(s, Append(t, e))
  BY DEF FillSeqs, Joined
<1>2. <<>> \in FillSeqs
  BY DEF FillSeqs
<1>3. \A s \in FillSeqs : Joined(s, <<>>) = s /\ \A e \in FillRecord : Append(s, e) \in FillSeqs
  BY DEF FillSeqs, Joined
<1>4. \A s, t \in FillSeqs : Joined(s, t) \in FillSeqs
  BY DEF FillSeqs, Joined
<1> QED
  BY <1>1, <1>2, <1>3, <1>4

\* The next element is kept or not.
LEMMA FilteredOrders ==
  /\ <<>> \in OrderSeqs
  /\ \A K, val : Filtered(<<>>, 0, K, val)
  /\ \A r \in OrderSeqs, n \in Nat : \A K, val :
       Filtered(r, n, K, val) =>
         /\ n + 1 \in K /\ val[n + 1] \in VirtualOrder =>
              Append(r, val[n + 1]) \in OrderSeqs /\ Filtered(Append(r, val[n + 1]), n + 1, K, val)
         /\ n + 1 \notin K => Filtered(r, n + 1, K, val)
<1>1. <<>> \in OrderSeqs /\ \A r \in OrderSeqs, o \in VirtualOrder : Append(r, o) \in OrderSeqs
  BY DEF OrderSeqs
<1>2. ASSUME NEW r \in OrderSeqs, NEW n \in Nat, NEW K, NEW val, Filtered(r, n, K, val)
      PROVE  /\ n + 1 \in K /\ val[n + 1] \in VirtualOrder => Filtered(Append(r, val[n + 1]), n + 1, K, val)
             /\ n + 1 \notin K => Filtered(r, n + 1, K, val)
  <2>1. r \in Seq(VirtualOrder)
    BY DEF OrderSeqs
  <2> QED
    BY <1>2, <2>1, FilteredNext
<1> QED
  BY <1>1, <1>2, FilteredNone

\* The next fill is noted or not.
LEMMA FilteredFills ==
  \A r \in FillSeqs, n \in Nat : \A K, val :
    Filtered(r, n, K, val) =>
      /\ n + 1 \in K /\ val[n + 1] \in FillRecord =>
           Append(r, val[n + 1]) \in FillSeqs /\ Filtered(Append(r, val[n + 1]), n + 1, K, val)
      /\ n + 1 \notin K => Filtered(r, n + 1, K, val)
<1>1. \A r \in FillSeqs, e \in FillRecord : Append(r, e) \in FillSeqs
  BY DEF FillSeqs
<1>2. ASSUME NEW r \in FillSeqs, NEW n \in Nat, NEW K, NEW val, Filtered(r, n, K, val)
      PROVE  /\ n + 1 \in K /\ val[n + 1] \in FillRecord => Filtered(Append(r, val[n + 1]), n + 1, K, val)
             /\ n + 1 \notin K => Filtered(r, n + 1, K, val)
  <2>1. r \in Seq(FillRecord)
    BY DEF FillSeqs
  <2> QED
    BY <1>2, <2>1, FilteredNext
<1> QED
  BY <1>1, <1>2

\* Meeting an order, again.
LEMMA MeetStep ==
  ASSUME NEW front \in LevelSeqs, NEW level \in VirtualLevel, NEW left \in Nat,
         NEW fills \in FillSeqs, NEW o \in VirtualOrder
  PROVE  /\ Meet(Walked(front, level, left, fills), o)
              = Walked(front, Met(level, o, left), left - Pass(o, left) - Take(o, left),
                       Noted(fills, o, left))
         /\ Met(level, o, left) \in VirtualLevel
         /\ left - Pass(o, left) - Take(o, left) \in Nat
         /\ Noted(fills, o, left) \in FillSeqs
  BY MeetIs DEF LevelSeqs, FillSeqs

---------------------------------------------------------------------------
(* A fill meets the orders os of a level with L[0] units, and has L[j] left after j. *)

PassAt(os, L) == [j \in 1..Len(os) |-> Pass(os[j], L[j - 1])]
TakeAt(os, L) == [j \in 1..Len(os) |-> Take(os[j], L[j - 1])]

Spent(os, L) ==
  /\ L \in [0..Len(os) -> Nat]
  /\ \A j \in 1..Len(os) : L[j] = L[j - 1] - PassAt(os, L)[j] - TakeAt(os, L)[j]

\* The orders that are not filled, as they are left, and the fills.
OpenAt(os, L) == {j \in 1..Len(os) : os[j].remaining_qty - TakeAt(os, L)[j] > 0}
LessAt(os, L) == [j \in 1..Len(os) |-> Less(os[j], PassAt(os, L)[j], TakeAt(os, L)[j])]
TakenAt(os, L) == {j \in 1..Len(os) : TakeAt(os, L)[j] > 0}
NotedAt(os, L) == [j \in 1..Len(os) |-> [order_id |-> os[j].order_id, qty |-> TakeAt(os, L)[j]]]

\* The fill leaves the orders `rest` there, and fills `new`.
Filling(os, L, rest, new) ==
  /\ Spent(os, L)
  /\ rest \in OrderSeqs /\ Filtered(rest, Len(os), OpenAt(os, L), LessAt(os, L))
  /\ new \in FillSeqs /\ Filtered(new, Len(os), TakenAt(os, L), NotedAt(os, L))

\* The level the walk leaves.
Left(level, os, L, rest) ==
  [price |-> level.price,
   total_qty_ahead |-> (level.total_qty_ahead - SumOver(PassAt(os, L), 1..Len(os))) % Word,
   orders |-> rest]

\* A fill that walks a level leaves the open orders, with what it passed and took
\* gone, and notes what it took.
LEMMA LevelWalk ==
  ASSUME NEW front \in LevelSeqs, NEW level \in VirtualLevel, level.orders = <<>>,
         NEW left \in Nat, NEW fills \in FillSeqs, NEW os \in OrderSeqs
  PROVE  \E L, rest, new :
           /\ L[0] = left /\ Filling(os, L, rest, new) /\ Left(level, os, L, rest) \in VirtualLevel
           /\ MeetAll(Walked(front, level, left, fills), os)
                = Walked(front, Left(level, os, L, rest), L[Len(os)], Joined(fills, new))
<1> DEFINE D == {Walked(front, w[1], w[2], w[3]) : w \in VirtualLevel \X Nat \X FillSeqs}
           n == Len(os)
           base == Walked(front, level, left, fills)
<1>1. n \in Nat /\ \A j \in 1..n : os[j] \in VirtualOrder
  BY DEF OrderSeqs
<1>2. base \in D
  <2> DEFINE w == <<level, left, fills>>
  <2>1. w \in VirtualLevel \X Nat \X FillSeqs /\ base = Walked(front, w[1], w[2], w[3])
    OBVIOUS
  <2> HIDE DEF w, base
  <2> QED
    BY <2>1
<1>3. \A w \in D, o \in VirtualOrder : Meet(w, o) \in D
  <2> SUFFICES ASSUME NEW w \in VirtualLevel \X Nat \X FillSeqs, NEW o \in VirtualOrder
               PROVE  Meet(Walked(front, w[1], w[2], w[3]), o) \in D
    OBVIOUS
  <2>1. w[1] \in VirtualLevel /\ w[2] \in Nat /\ w[3] \in FillSeqs
    OBVIOUS
  <2> DEFINE l == Met(w[1], o, w[2])
             x == w[2] - Pass(o, w[2]) - Take(o, w[2])
             fs == Noted(w[3], o, w[2])
  <2>2. /\ Meet(Walked(front, w[1], w[2], w[3]), o) = Walked(front, l, x, fs)
        /\ l \in VirtualLevel /\ x \in Nat /\ fs \in FillSeqs
    BY <2>1, MeetStep
  <2> HIDE DEF l, x, fs
  <2>3. <<l, x, fs>> \in VirtualLevel \X Nat \X FillSeqs
    BY <2>2
  <2>4. Walked(front, l, x, fs) \in D
    BY <2>3
  <2> QED
    BY <2>2, <2>4
<1> HIDE DEF D
<1> HIDE DEF base
<1>4. PICK W : /\ W[0] = base
               /\ \A j \in 1..n : W[j] = Meet(W[j - 1], os[j])
               /\ MeetAll(base, os) = W[n]
               /\ \A j \in 0..n : W[j] \in D
  <2>1. os \in Seq(VirtualOrder)
    BY DEF OrderSeqs
  <2> QED
    BY <1>2, <1>3, <2>1, MeetTrace
<1> DEFINE L == [j \in 0..n |-> W[j].left]
           p == PassAt(os, L)
           total == level.total_qty_ahead
           O == OpenAt(os, L)
           T == TakenAt(os, L)
           after(j, rest) == [price |-> level.price,
                              total_qty_ahead |-> (total - SumOver(p, 1..j)) % Word, orders |-> rest]
           Good(j, rest, new) ==
             /\ W[j] = Walked(front, after(j, rest), L[j], Joined(fills, new)) /\ L[j] \in Nat
             /\ rest \in OrderSeqs /\ Filtered(rest, j, O, LessAt(os, L))
             /\ new \in FillSeqs /\ Filtered(new, j, T, NotedAt(os, L))
           G == {j \in Nat : j <= n => \E rest, new : Good(j, rest, new)}
<1>5. \A j \in 0..n : L[j] = W[j].left /\ L[j] \in Nat
  <2>1. \A w \in D : w.left \in Nat
    BY DEF D, Walked
  <2> QED
    BY <1>4, <2>1
<1> HIDE DEF L
<1>6. \A j \in 1..n : /\ p[j] = Pass(os[j], L[j - 1]) /\ p[j] \in Nat
                      /\ TakeAt(os, L)[j] = Take(os[j], L[j - 1])
  <2> SUFFICES ASSUME NEW j \in 1..n
               PROVE  /\ p[j] = Pass(os[j], L[j - 1]) /\ p[j] \in Nat
                      /\ TakeAt(os, L)[j] = Take(os[j], L[j - 1])
    OBVIOUS
  <2>1. os[j] \in VirtualOrder /\ L[j - 1] \in Nat
    BY <1>1, <1>5
  <2> QED
    BY <2>1, TakenIs DEF PassAt, TakeAt
<1>7. /\ SumOver(p, 1..0) = 0
      /\ \A j \in 0..n : SumOver(p, 1..j) \in Int
      /\ \A j \in 1..n : SumOver(p, 1..j) = SumOver(p, 1..(j - 1)) + p[j]
  <2>1. Weighs(p, 1..n)
    BY <1>6 DEF Weighs
  <2> HIDE DEF p
  <2> QED
    BY <1>1, <2>1, SumNext
<1> HIDE DEF p, O, T
<1>8. total \in Words /\ level = [price |-> level.price, total_qty_ahead |-> total, orders |-> <<>>]
      /\ level.price \in Prices
  BY DEF VirtualLevel, Words
<1>9. ASSUME NEW j \in 0..n, NEW rest \in OrderSeqs
      PROVE  after(j, rest) \in VirtualLevel
  <2>1. (total - SumOver(p, 1..j)) % Word \in Words
    <3>1. total - SumOver(p, 1..j) \in Int
      BY <1>7, <1>8, WordAssumption DEF Words
    <3> QED
      BY <3>1, Remainder
  <2> QED
    BY <1>8, <2>1 DEF VirtualLevel, Words, OrderSeqs
<1> HIDE DEF Good
<1>10. 0 \in G
  <2>1. W[0] = Walked(front, level, left, fills)
    BY <1>4 DEF base
  <2>2. L[0] = left
    BY <1>1, <1>5, <2>1 DEF Walked
  <2>3. (total - SumOver(p, 1..0)) % Word = total
    BY <1>7, <1>8, WordReduced, WordAssumption DEF Words
  <2>4. after(0, <<>>) = level
    BY <1>8, <2>3
  <2>5. Joined(fills, <<>>) = fills /\ <<>> \in FillSeqs /\ <<>> \in OrderSeqs
    BY JoinedFills, FilteredOrders
  <2> HIDE DEF after, G
  <2>6. Good(0, <<>>, <<>>)
    BY <2>1, <2>2, <2>4, <2>5, FilteredNone, Zenon DEF Good
  <2> QED
    BY <2>6 DEF G
<1>11. ASSUME NEW j \in Nat, j \in G PROVE j + 1 \in G
  <2> SUFFICES ASSUME j + 1 <= n
               PROVE  \E rest, new : Good(j + 1, rest, new)
    OBVIOUS
  <2>0. j + 1 \in 1..n /\ j \in 0..n /\ (j + 1) - 1 = j /\ j + 1 \in 0..n
    BY <1>1
  <2>1. PICK rest, new : Good(j, rest, new)
    BY <1>11, <2>0
  <2> HIDE DEF G
  <2> DEFINE o == os[j + 1]
             l == after(j, rest)
             next == Met(l, o, L[j])
             x == L[j] - Pass(o, L[j]) - Take(o, L[j])
             fs == Noted(Joined(fills, new), o, L[j])
             less == LessAt(os, L)[j + 1]
             open == o.remaining_qty - Take(o, L[j]) > 0
             record == [order_id |-> o.order_id, qty |-> Take(o, L[j])]
             took == Take(o, L[j]) > 0
             rest1 == IF open THEN Append(rest, less) ELSE rest
             new1 == IF took THEN Append(new, record) ELSE new
  <2>2. o \in VirtualOrder /\ L[j] \in Nat /\ rest \in OrderSeqs /\ new \in FillSeqs
        /\ l \in VirtualLevel /\ Joined(fills, new) \in FillSeqs
    <3>1. rest \in OrderSeqs /\ new \in FillSeqs /\ L[j] \in Nat
      BY <2>1 DEF Good
    <3> QED
      BY <1>1, <1>9, <2>0, <3>1, JoinedFills
  <2>3. W[j + 1] = Meet(Walked(front, l, L[j], Joined(fills, new)), o)
    BY <1>4, <2>0, <2>1 DEF Good
  <2>4. W[j + 1] = Walked(front, next, x, fs) /\ x \in Nat
    <3> DEFINE sofar == Joined(fills, new)
    <3>1. /\ l \in VirtualLevel /\ sofar \in FillSeqs /\ o \in VirtualOrder
          /\ W[j + 1] = Meet(Walked(front, l, L[j], sofar), o)
      BY <2>2, <2>3
    <3> HIDE DEF l, o, sofar
    <3>2. /\ Meet(Walked(front, l, L[j], sofar), o)
              = Walked(front, Met(l, o, L[j]), L[j] - Pass(o, L[j]) - Take(o, L[j]), Noted(sofar, o, L[j]))
          /\ L[j] - Pass(o, L[j]) - Take(o, L[j]) \in Nat
      <4>1. l \in VirtualLevel /\ L[j] \in Nat /\ sofar \in FillSeqs /\ o \in VirtualOrder
        BY <2>2, <3>1, Zenon
      <4> DEFINE y == L[j]
      <4>2. l \in VirtualLevel /\ y \in Nat /\ sofar \in FillSeqs /\ o \in VirtualOrder
        BY <4>1
      <4> HIDE DEF y, after, fs, next, x, l, o
      <4>3. /\ Meet(Walked(front, l, y, sofar), o)
              = Walked(front, Met(l, o, y), y - Pass(o, y) - Take(o, y), Noted(sofar, o, y))
          /\ y - Pass(o, y) - Take(o, y) \in Nat
        BY <4>2, MeetStep
      <4> QED
        BY <4>3 DEF y
    <3> QED
      BY <3>1, <3>2, Zenon DEF sofar
  <2>5. L[j + 1] = x
    BY <1>5, <2>0, <2>4 DEF Walked
  <2>6. less = Less(o, Pass(o, L[j]), Take(o, L[j]))
    BY <1>6, <2>0 DEF LessAt, p
  <2>7. next = after(j + 1, rest1)
    <3>1. Pass(o, L[j]) \in Int /\ SumOver(p, 1..(j + 1)) = SumOver(p, 1..j) + Pass(o, L[j])
          /\ SumOver(p, 1..j) \in Int /\ total \in Int
      <4>1. p[j + 1] = Pass(o, L[j]) /\ p[j + 1] \in Nat
        BY <1>6, <2>0
      <4>2. SumOver(p, 1..(j + 1)) = SumOver(p, 1..j) + p[j + 1] /\ SumOver(p, 1..j) \in Int
        BY <1>7, <2>0
      <4> QED
        BY <4>1, <4>2, <1>8, WordAssumption DEF Words
    <3>2. (((total - SumOver(p, 1..j)) % Word) - Pass(o, L[j])) % Word = (total - SumOver(p, 1..(j + 1))) % Word
      <4> DEFINE a == total - SumOver(p, 1..j)
                 b == -Pass(o, L[j])
      <4>1. a \in Int /\ b \in Int /\ total - SumOver(p, 1..(j + 1)) = a + b
        BY <3>1
      <4>2. ((a % Word) + b) % Word = (a + b) % Word
        BY <4>1, ReducedSum
      <4>3. (a % Word) - Pass(o, L[j]) = (a % Word) + b
        <5>1. a % Word \in Int
          BY <4>1, WordAssumption
        <5> HIDE DEF a
        <5> QED
          BY <3>1, <5>1
      <4> QED
        BY <4>1, <4>2, <4>3
    <3>3. Met(l, o, L[j]) = [price |-> l.price, total_qty_ahead |-> (l.total_qty_ahead - Pass(o, L[j])) % Word,
                             orders |-> IF open THEN Append(l.orders, less) ELSE l.orders]
      BY <2>6 DEF Met
    <3>4. l.price = level.price /\ l.total_qty_ahead = (total - SumOver(p, 1..j)) % Word /\ l.orders = rest
      OBVIOUS
    <3> HIDE DEF l, open, less
    <3> QED
      BY <3>2, <3>3, <3>4
  <2>12. /\ Pass(o, L[j]) \in Nat /\ Take(o, L[j]) \in Nat /\ Pass(o, L[j]) <= o.qty_ahead
         /\ o.order_id \in 1..MaxOrders
    <3> HIDE DEF o
    <3>1. o.order_id \in 1..MaxOrders
      BY <2>2 DEF VirtualOrder
    <3> QED
      BY <2>2, <3>1, TakenIs
  <2>8. fs = Joined(fills, new1)
    <3>1. took => record \in FillRecord
      BY <2>2, <2>12 DEF FillRecord
    <3>2. fs = IF took THEN Append(Joined(fills, new), record) ELSE Joined(fills, new)
      BY DEF Noted
    <3>3. ASSUME took PROVE Append(Joined(fills, new), record) = Joined(fills, Append(new, record))
      <4>1. record \in FillRecord
        BY <3>1, <3>3
      <4> HIDE DEF record, took
      <4> QED
        BY <2>2, <4>1, JoinedFills
    <3> HIDE DEF fs, took, record
    <3> QED
      BY <3>2, <3>3
  <2>9. rest1 \in OrderSeqs /\ Filtered(rest1, j + 1, O, LessAt(os, L))
    <3>1. open <=> j + 1 \in O
      BY <1>6, <2>0 DEF OpenAt, O
    <3>2. open => less \in VirtualOrder
      <4> HIDE DEF o, less
      <4> QED
        BY <2>2, <2>6, <2>12, LessIs
    <3> HIDE DEF open, less
    <3>3. Filtered(rest, j, O, LessAt(os, L))
      BY <2>1 DEF Good
    <3> QED
      BY <2>2, <3>1, <3>2, <3>3, FilteredOrders DEF less
  <2>10. new1 \in FillSeqs /\ Filtered(new1, j + 1, T, NotedAt(os, L))
    <3> DEFINE noted == NotedAt(os, L)[j + 1]
    <3>1. took <=> j + 1 \in T
      BY <1>6, <2>0 DEF TakenAt, T
    <3>2. noted = record
      BY <1>6, <2>0 DEF NotedAt
    <3>3. took => record \in FillRecord
      BY <2>2, <2>12 DEF FillRecord
    <3> HIDE DEF took, record
    <3>4. Filtered(new, j, T, NotedAt(os, L))
      BY <2>1 DEF Good
    <3> QED
      BY <2>2, <3>1, <3>2, <3>3, <3>4, FilteredFills
  <2> HIDE DEF rest1, new1, after, next, x, fs
  <2>11. Good(j + 1, rest1, new1)
    BY <2>4, <2>5, <2>7, <2>8, <2>9, <2>10 DEF Good
  <2> QED
    BY <2>11
<1> HIDE DEF G
<1>12. n \in G
  BY <1>1, <1>10, <1>11, NumberInduction
<1>13. PICK rest, new : Good(n, rest, new)
  BY <1>12, <1>1 DEF G
<1>14. L \in [0..n -> Nat] /\ L[0] = left
  BY <1>1, <1>4, <1>5 DEF L, base, Walked
<1>15. Spent(os, L)
  <2>1. ASSUME NEW j \in 1..n
        PROVE  L[j] = L[j - 1] - PassAt(os, L)[j] - TakeAt(os, L)[j]
    <3>1. j - 1 \in 0..n /\ j \in 0..n /\ os[j] \in VirtualOrder
      BY <1>1
    <3>2. PICK l \in VirtualLevel, fs \in FillSeqs, x \in Nat : W[j - 1] = Walked(front, l, x, fs)
      BY <1>4, <3>1 DEF D
    <3>3. x = L[j - 1]
      BY <1>5, <3>1, <3>2 DEF Walked
    <3>4. Meet(W[j - 1], os[j])
            = Walked(front, Met(l, os[j], x), x - Pass(os[j], x) - Take(os[j], x), Noted(fs, os[j], x))
      BY <3>1, <3>2, MeetStep
    <3>5. W[j].left = x - Pass(os[j], x) - Take(os[j], x)
      BY <1>4, <3>4 DEF Walked
    <3> QED
      BY <1>5, <1>6, <3>1, <3>3, <3>5 DEF p
  <2> QED
    BY <1>14, <2>1 DEF Spent
<1>16. Filling(os, L, rest, new)
  BY <1>13, <1>15 DEF Good, Filling, O, T
<1>17. after(n, rest) = Left(level, os, L, rest)
  BY DEF Left, p
<1>18. Left(level, os, L, rest) \in VirtualLevel
  <2>1. n \in 0..n /\ rest \in OrderSeqs
    BY <1>1, <1>13 DEF Good
  <2> QED
    BY <1>9, <1>17, <2>1
<1>19. MeetAll(base, os) = Walked(front, Left(level, os, L, rest), L[n], Joined(fills, new))
  BY <1>4, <1>13, <1>17 DEF Good
<1> QED
  BY <1>14, <1>16, <1>18, <1>19 DEF base

---------------------------------------------------------------------------
(* A fill goes through a side. *)

\* The fill comes to a level with `left` units and the fills `fills` made; it leaves
\* the level as `after` with `left1` and `fills1`.
LevelDone(side, price, level, left, fills, after, left1, fills1) ==
  IF Reaches(side, price, level)
  THEN \E L, rest, new : /\ Filling(level.orders, L, rest, new) /\ L[0] = left
                         /\ left1 = L[Len(level.orders)]
                         /\ after = Left(level, level.orders, L, rest)
                         /\ fills1 = Joined(fills, new)
  ELSE after = level /\ left1 = left /\ fills1 = fills

\* The walk as it comes to a level.
Walk(left, levels, fills) == [left |-> left, levels |-> levels, fills |-> fills]

\* Entering a level.
LEMMA EnterIs ==
  ASSUME NEW side, NEW price, NEW size, NEW level \in VirtualLevel,
         NEW front \in LevelSeqs, NEW left \in Nat, NEW fills \in FillSeqs
  PROVE  \E after \in VirtualLevel, left1 \in Nat, fills1 \in FillSeqs :
           /\ Enter(Walk(left, front, fills), side, price, size, level)
                = Walked(front, after, left1, fills1)
           /\ LevelDone(side, price, level, left, fills, after, left1, fills1)
<1> DEFINE walk == Walk(left, front, fills)
           bare == [level EXCEPT !.orders = <<>>]
           os == level.orders
<1>1. \A y : [walk EXCEPT !.levels = Append(@, y)] = Walked(front, y, left, fills)
  BY DEF Walk, Walked
<1>2. level.price \in Prices /\ level.total_qty_ahead \in Words /\ os \in OrderSeqs
      /\ level = [price |-> level.price, total_qty_ahead |-> level.total_qty_ahead, orders |-> os]
  BY DEF VirtualLevel, Words, OrderSeqs
<1>3. bare \in VirtualLevel /\ bare.orders = <<>> /\ bare.price = level.price
      /\ bare.total_qty_ahead = level.total_qty_ahead
  <2>1. bare = [price |-> level.price, total_qty_ahead |-> level.total_qty_ahead, orders |-> <<>>]
    BY <1>2
  <2>2. <<>> \in Seq(VirtualOrder)
    OBVIOUS
  <2> HIDE DEF bare
  <2> QED
    BY <1>2, <2>1, <2>2 DEF VirtualLevel, Words
<1>4. Enter(walk, side, price, size, level)
        = IF Reaches(side, price, level) THEN MeetAll(Walked(front, bare, left, fills), os)
          ELSE Walked(front, level, left, fills)
  BY <1>1, Zenon DEF Enter, MeetAll
<1> HIDE DEF bare, walk, os
<1>5. CASE ~Reaches(side, price, level)
  <2>1. /\ Enter(walk, side, price, size, level) = Walked(front, level, left, fills)
        /\ LevelDone(side, price, level, left, fills, level, left, fills)
    BY <1>4, <1>5 DEF LevelDone
  <2> QED
    BY <2>1 DEF walk
<1>6. CASE Reaches(side, price, level)
  <2>1. PICK L, rest, new :
           /\ L[0] = left /\ Filling(os, L, rest, new) /\ Left(bare, os, L, rest) \in VirtualLevel
           /\ MeetAll(Walked(front, bare, left, fills), os)
                = Walked(front, Left(bare, os, L, rest), L[Len(os)], Joined(fills, new))
    BY <1>2, <1>3, LevelWalk
  <2>2. Left(bare, os, L, rest) = Left(level, os, L, rest)
    BY <1>3 DEF Left
  <2>3. L[Len(os)] \in Nat
    <3>1. Len(os) \in Nat
      BY <1>2 DEF OrderSeqs
    <3> QED
      BY <2>1, <3>1 DEF Filling, Spent
  <2>4. Joined(fills, new) \in FillSeqs
    BY <2>1, JoinedFills DEF Filling
  <2>5. /\ Enter(walk, side, price, size, level)
             = Walked(front, Left(level, os, L, rest), L[Len(os)], Joined(fills, new))
        /\ LevelDone(side, price, level, left, fills, Left(level, os, L, rest), L[Len(os)],
                     Joined(fills, new))
    BY <1>4, <1>6, <2>1, <2>2, Zenon DEF LevelDone, os
  <2> QED
    BY <2>1, <2>2, <2>3, <2>4, <2>5, Zenon DEF walk
<1> QED
  BY <1>5, <1>6

\* Appending to a sequence of levels.
LEMMA AppendedLevels ==
  /\ <<>> \in LevelSeqs /\ Len(<<>>) = 0
  /\ \A s \in LevelSeqs : Len(s) \in Nat /\ DOMAIN s = 1..Len(s) /\ \A i \in 1..Len(s) : s[i] \in VirtualLevel
  /\ \A s \in LevelSeqs, y \in VirtualLevel :
       /\ Append(s, y) \in LevelSeqs /\ Len(Append(s, y)) = Len(s) + 1
       /\ Append(s, y)[Len(s) + 1] = y
       /\ \A i \in 1..Len(s) : Append(s, y)[i] = s[i]
<1>1. <<>> \in LevelSeqs /\ Len(<<>>) = 0
  BY DEF LevelSeqs
<1>2. \A s \in LevelSeqs : Len(s) \in Nat /\ DOMAIN s = 1..Len(s) /\ \A i \in 1..Len(s) : s[i] \in VirtualLevel
  BY DEF LevelSeqs
<1>3. ASSUME NEW s \in LevelSeqs, NEW y \in VirtualLevel
      PROVE  /\ Append(s, y) \in LevelSeqs /\ Len(Append(s, y)) = Len(s) + 1
             /\ Append(s, y)[Len(s) + 1] = y
             /\ \A i \in 1..Len(s) : Append(s, y)[i] = s[i]
  BY DEF LevelSeqs
<1> QED
  BY <1>1, <1>2, <1>3

\* The levels a fill leaves, before the emptied ones go; what is left of it when it has
\* passed each level; the fills it has then made.
Passage(side, price, levels, size, after, F, N) ==
  /\ after \in LevelSeqs /\ Len(after) = Len(levels)
  /\ F \in [0..Len(levels) -> Nat] /\ F[0] = size
  /\ N \in [0..Len(levels) -> FillSeqs] /\ N[0] = <<>>
  /\ \A i \in 1..Len(levels) :
       LevelDone(side, price, levels[i], F[i - 1], N[i - 1], after[i], F[i], N[i])

\* A fill goes through all levels of its side.
LEMMA SideWalk ==
  ASSUME NEW x, NEW side, NEW price, NEW size \in Nat, x[side] \in LevelSeqs
  PROVE  \E F, N : LET after == FillWalk(x, side, price, size).levels
                   IN  /\ Passage(side, price, x[side], size, after, F, N)
                       /\ FillWalk(x, side, price, size).fills = N[Len(x[side])]
<1> DEFINE levels == x[side]
           n == Len(levels)
           D == {Walk(w[1], w[2], w[3]) : w \in Nat \X LevelSeqs \X FillSeqs}
<1>1. n \in Nat /\ DOMAIN levels = 1..n /\ \A i \in 1..n : levels[i] \in VirtualLevel
  BY AppendedLevels
<1>2. \A a \in Nat, ls \in LevelSeqs, fs \in FillSeqs : Walk(a, ls, fs) \in D
  <2> SUFFICES ASSUME NEW a \in Nat, NEW ls \in LevelSeqs, NEW fs \in FillSeqs
               PROVE  Walk(a, ls, fs) \in D
    OBVIOUS
  <2> DEFINE w == <<a, ls, fs>>
  <2>1. w \in Nat \X LevelSeqs \X FillSeqs /\ w[1] = a /\ w[2] = ls /\ w[3] = fs
    OBVIOUS
  <2> HIDE DEF w
  <2> QED
    BY <2>1
<1>3. \A w \in D : /\ w = Walk(w.left, w.levels, w.fills)
                   /\ w.left \in Nat /\ w.levels \in LevelSeqs /\ w.fills \in FillSeqs
  BY DEF Walk
<1> HIDE DEF D, levels
<1>4. \A f \in LevelSeqs, y \in VirtualLevel, a \in Nat, fs \in FillSeqs :
        Walked(f, y, a, fs) = Walk(a, Append(f, y), fs)
  BY DEF Walk, Walked
<1>5. ASSUME NEW w \in D, NEW y \in VirtualLevel
      PROVE  \E after \in VirtualLevel, left1 \in Nat, fills1 \in FillSeqs :
               /\ Enter(w, side, price, size, y) = Walk(left1, Append(w.levels, after), fills1)
               /\ LevelDone(side, price, y, w.left, w.fills, after, left1, fills1)
  <2>1. /\ w = Walk(w.left, w.levels, w.fills)
        /\ w.left \in Nat /\ w.levels \in LevelSeqs /\ w.fills \in FillSeqs
    BY <1>3
  <2>2. \E after \in VirtualLevel, left1 \in Nat, fills1 \in FillSeqs :
               /\ Enter(Walk(w.left, w.levels, w.fills), side, price, size, y)
                    = Walked(w.levels, after, left1, fills1)
               /\ LevelDone(side, price, y, w.left, w.fills, after, left1, fills1)
    BY <2>1, EnterIs
  <2> QED
    BY <1>4, <2>1, <2>2, Zenon
<1>6. \A w \in D, y \in VirtualLevel : Enter(w, side, price, size, y) \in D
  <2> SUFFICES ASSUME NEW w \in D, NEW y \in VirtualLevel
               PROVE  Enter(w, side, price, size, y) \in D
    OBVIOUS
  <2>1. PICK after \in VirtualLevel, left1 \in Nat, fills1 \in FillSeqs :
               Enter(w, side, price, size, y) = Walk(left1, Append(w.levels, after), fills1)
    BY <1>5
  <2>2. Append(w.levels, after) \in LevelSeqs
    BY <1>3, AppendedLevels
  <2> QED
    BY <1>2, <2>1, <2>2
<1>7. Setout(size) \in D
  BY <1>2, AppendedLevels, JoinedFills DEF Setout, Walk
<1>8. PICK W : /\ W[0] = Setout(size)
               /\ \A i \in 1..n : W[i] = Enter(W[i - 1], side, price, size, levels[i])
               /\ FillWalk(x, side, price, size) = W[n]
               /\ \A i \in 0..n : W[i] \in D
  <2>1. x[side] \in Seq(VirtualLevel)
    BY DEF LevelSeqs
  <2> HIDE DEF n
  <2>2. \E W : /\ W[0] = Setout(size)
               /\ \A i \in 1..Len(x[side]) : W[i] = Enter(W[i - 1], side, price, size, x[side][i])
               /\ FillWalk(x, side, price, size) = W[Len(x[side])]
               /\ \A i \in 0..Len(x[side]) : W[i] \in D
    BY <1>6, <1>7, <2>1, WalkTrace
  <2> QED
    BY <2>2, Zenon DEF n, levels
<1> DEFINE F == [i \in 0..n |-> W[i].left]
           N == [i \in 0..n |-> W[i].fills]
           S(i) == W[i].levels
<1>9. ASSUME NEW i \in 1..n
      PROVE  \E after \in VirtualLevel :
               /\ S(i) = Append(S(i - 1), after)
               /\ LevelDone(side, price, levels[i], F[i - 1], N[i - 1], after, F[i], N[i])
  <2>1. i - 1 \in 0..n /\ i \in 0..n /\ W[i - 1] \in D /\ levels[i] \in VirtualLevel
    BY <1>1, <1>8
  <2>2. /\ F[i] = W[i].left /\ N[i] = W[i].fills
        /\ F[i - 1] = W[i - 1].left /\ N[i - 1] = W[i - 1].fills
    BY <2>1
  <2>3. PICK after \in VirtualLevel, left1 \in Nat, fills1 \in FillSeqs :
               /\ Enter(W[i - 1], side, price, size, levels[i]) = Walk(left1, Append(S(i - 1), after), fills1)
               /\ LevelDone(side, price, levels[i], W[i - 1].left, W[i - 1].fills, after, left1, fills1)
    BY <1>5, <2>1
  <2>4. W[i] = Walk(left1, Append(S(i - 1), after), fills1)
    BY <1>8, <2>3
  <2>5. S(i) = Append(S(i - 1), after) /\ W[i].left = left1 /\ W[i].fills = fills1
    BY <2>4 DEF Walk
  <2> HIDE DEF F, N, S
  <2> QED
    BY <2>2, <2>3, <2>5, Zenon
<1>10. \A i \in 0..n : S(i) \in LevelSeqs /\ F[i] = W[i].left /\ N[i] = W[i].fills
                       /\ F[i] \in Nat /\ N[i] \in FillSeqs
  BY <1>3, <1>8
<1>11. F \in [0..n -> Nat] /\ N \in [0..n -> FillSeqs]
  BY <1>10
<1>12. S(0) = <<>> /\ F[0] = size /\ N[0] = <<>>
  BY <1>1, <1>8 DEF Setout
<1> HIDE DEF F, N, S
<1> DEFINE G == {k \in Nat : k <= n => Len(S(k)) = k /\ \A i \in 1..k : S(k)[i] = S(i)[i]}
<1>13. 0 \in G
  BY <1>12, AppendedLevels
<1>14. ASSUME NEW k \in Nat, k \in G PROVE k + 1 \in G
  <2> SUFFICES ASSUME k + 1 <= n
               PROVE  Len(S(k + 1)) = k + 1 /\ \A i \in 1..(k + 1) : S(k + 1)[i] = S(i)[i]
    OBVIOUS
  <2>1. k + 1 \in 1..n /\ (k + 1) - 1 = k /\ k \in 0..n
    BY <1>1
  <2>2. Len(S(k)) = k /\ \A i \in 1..k : S(k)[i] = S(i)[i]
    BY <1>14, <2>1
  <2>3. PICK after \in VirtualLevel : S(k + 1) = Append(S(k), after)
    BY <1>9, <2>1
  <2>4. S(k) \in LevelSeqs
    BY <1>10, <2>1
  <2>5. Len(S(k + 1)) = k + 1 /\ \A i \in 1..k : S(k + 1)[i] = S(k)[i]
    <3> DEFINE s == S(k)
               s1 == S(k + 1)
    <3>1. s \in LevelSeqs /\ s1 = Append(s, after) /\ Len(s) = k
      BY <2>2, <2>3, <2>4
    <3> HIDE DEF s, s1
    <3>2. Len(s1) = k + 1 /\ \A i \in 1..k : s1[i] = s[i]
      BY <3>1, AppendedLevels
    <3> QED
      BY <3>2 DEF s, s1
  <2>6. \A i \in 1..(k + 1) : i = k + 1 \/ i \in 1..k
    OBVIOUS
  <2> QED
    BY <2>2, <2>5, <2>6
<1> HIDE DEF G
<1>15. n \in G
  BY <1>1, <1>13, <1>14, NumberInduction
<1>16. Len(S(n)) = n /\ \A i \in 1..n : S(n)[i] = S(i)[i]
  BY <1>1, <1>15 DEF G
<1>17. ASSUME NEW i \in 1..n
       PROVE  LevelDone(side, price, levels[i], F[i - 1], N[i - 1], S(n)[i], F[i], N[i])
  <2>1. i - 1 \in 0..n /\ i - 1 \in Nat /\ i - 1 <= n
    BY <1>1
  <2>2. PICK after \in VirtualLevel :
               /\ S(i) = Append(S(i - 1), after)
               /\ LevelDone(side, price, levels[i], F[i - 1], N[i - 1], after, F[i], N[i])
    BY <1>9
  <2>3. Nat \subseteq G
    BY <1>13, <1>14, NumberInduction
  <2>4. Len(S(i - 1)) = i - 1
    BY <2>1, <2>3 DEF G
  <2>5. S(i)[i] = after
    <3>1. S(i)[Len(S(i - 1)) + 1] = after
      BY <1>10, <2>1, <2>2, AppendedLevels
    <3> QED
      BY <2>4, <3>1
  <2> QED
    BY <1>16, <2>2, <2>5
<1>18. Passage(side, price, levels, size, S(n), F, N)
  BY <1>1, <1>10, <1>11, <1>12, <1>16, <1>17 DEF Passage
<1>19. FillWalk(x, side, price, size).levels = S(n) /\ FillWalk(x, side, price, size).fills = N[n]
  BY <1>1, <1>8, <1>10 DEF S
<1> QED
  BY <1>18, <1>19 DEF levels

---------------------------------------------------------------------------
(* The volume ahead of the orders of a level. *)

AheadOf(os) == [j \in DOMAIN os |-> os[j].qty_ahead]
AheadSum(os) == SumOver(AheadOf(os), DOMAIN os)
Volume(os, S) == MapThenSumSet(LAMBDA j : os[j].qty_ahead, S)

\* A sequence of orders has finitely many indices.
LEMMA OrderSeqIs ==
  ASSUME NEW os \in OrderSeqs
  PROVE  /\ Len(os) \in Nat /\ DOMAIN os = 1..Len(os) /\ IsFiniteSet(DOMAIN os)
         /\ \A j \in DOMAIN os : os[j] \in VirtualOrder
         /\ Weighs(AheadOf(os), DOMAIN os) /\ AheadSum(os) \in Int
<1>1. Len(os) \in Nat /\ DOMAIN os = 1..Len(os) /\ \A j \in DOMAIN os : os[j] \in VirtualOrder
  BY DEF OrderSeqs
<1>2. IsFiniteSet(DOMAIN os)
  BY <1>1, FS_Interval
<1>3. Weighs(AheadOf(os), DOMAIN os)
  <2>1. \A o \in VirtualOrder : o.qty_ahead \in Int
    BY WordAssumption DEF VirtualOrder
  <2> QED
    BY <1>1, <2>1 DEF Weighs, AheadOf
<1>4. AheadSum(os) \in Int
  BY <1>2, <1>3, SumWithout DEF AheadSum
<1> QED
  BY <1>1, <1>2, <1>3, <1>4

\* The volume ahead of some orders, as a sum.
LEMMA VolumeIs ==
  ASSUME NEW os \in OrderSeqs, NEW S \in SUBSET DOMAIN os
  PROVE  Volume(os, S) = SumOver(AheadOf(os), S)
<1> DEFINE w == AheadOf(os)
           f == CHOOSE g : g = [T \in SUBSET S |-> IF T = {} THEN 0
                  ELSE os[CHOOSE x \in T : TRUE].qty_ahead + g[T \ {CHOOSE x \in T : TRUE}]]
<1>1. IsFiniteSet(S) /\ Weighs(w, S)
  BY OrderSeqIs, FS_Subset DEF Weighs
<1>2. Volume(os, S) = f[S]
  BY DEF Volume, MapThenSumSet, MapThenFoldSet
<1>3. \A T \in SUBSET S : T # {} => w[CHOOSE x \in T : TRUE] = os[CHOOSE x \in T : TRUE].qty_ahead
  BY DEF AheadOf
<1> HIDE DEF w
<1>4. PICK g : Unfolds(g, w, S)
  BY <1>1, SumUnfolds
<1>5. g = [T \in SUBSET S |-> IF T = {} THEN 0
             ELSE os[CHOOSE x \in T : TRUE].qty_ahead + g[T \ {CHOOSE x \in T : TRUE}]]
  BY <1>3, <1>4 DEF Unfolds
<1>6. f = [T \in SUBSET S |-> IF T = {} THEN 0
             ELSE os[CHOOSE x \in T : TRUE].qty_ahead + f[T \ {CHOOSE x \in T : TRUE}]]
  BY <1>5 DEF f
<1> HIDE DEF f
<1>7. Unfolds(f, w, S)
  BY <1>3, <1>6 DEF Unfolds
<1>8. f[S] = SumOver(w, S)
  BY <1>1, <1>7, SumUnfolds
<1> QED
  BY <1>2, <1>8 DEF w

---------------------------------------------------------------------------
(* What holds of every side. *)

Ids(os) == {os[k].order_id : k \in DOMAIN os}
InOrder(os) == \A k, l \in DOMAIN os : k < l => os[k].order_id < os[l].order_id
Counted(level) == level.total_qty_ahead = AheadSum(level.orders) % Word

Sorted(side, levels) ==
  \A i, j \in DOMAIN levels : i < j => Better(side, levels[i].price, levels[j].price)
Apart(levels) ==
  \A i, j \in DOMAIN levels : i # j => Ids(levels[i].orders) \cap Ids(levels[j].orders) = {}

SideGood(side, levels) ==
  /\ levels \in LevelSeqs
  /\ \A i \in DOMAIN levels :
       HasOrders(levels[i]) /\ InOrder(levels[i].orders) /\ Counted(levels[i])
  /\ Sorted(side, levels) /\ Apart(levels)

\* A level after some of its orders left it or changed.
Within(level, after) ==
  /\ after \in VirtualLevel /\ after.price = level.price
  /\ InOrder(after.orders) /\ Ids(after.orders) \subseteq Ids(level.orders)
  /\ Counted(after)

\* What a fill leaves of the orders of a level.
LEMMA RestIs ==
  ASSUME NEW os \in OrderSeqs, InOrder(os), NEW L, NEW rest, NEW new, Filling(os, L, rest, new)
  PROVE  /\ InOrder(rest) /\ Ids(rest) \subseteq Ids(os)
         /\ SumOver(PassAt(os, L), 1..Len(os)) \in Int
         /\ AheadSum(rest) = AheadSum(os) - SumOver(PassAt(os, L), 1..Len(os))
<1> DEFINE n == Len(os)
           S == 1..n
           R == DOMAIN rest
           p == PassAt(os, L)
           w == [j \in S |-> os[j].qty_ahead - p[j]]
           v == AheadOf(rest)
<1>1. /\ n \in Nat /\ DOMAIN os = S /\ IsFiniteSet(S) /\ Weighs(AheadOf(os), S)
      /\ \A j \in S : os[j] \in VirtualOrder
  BY OrderSeqIs
<1>2. rest \in OrderSeqs /\ IsFiniteSet(R) /\ R = 1..Len(rest) /\ Len(rest) \in Nat /\ Weighs(v, R)
  BY OrderSeqIs DEF Filling
<1>3. PICK at : Selects(at, rest, n, OpenAt(os, L), LessAt(os, L))
  BY DEF Filling, Filtered
<1>4. /\ at \in [R -> S]
      /\ \A k, l \in R : k < l => at[k] < at[l]
      /\ \A k \in R : rest[k] = LessAt(os, L)[at[k]]
      /\ \A j \in S : j \in OpenAt(os, L) => \E k \in R : at[k] = j
  BY <1>2, <1>3 DEF Selects
<1>5. \A j \in S : /\ L[j - 1] \in Nat
                   /\ p[j] = Pass(os[j], L[j - 1]) /\ TakeAt(os, L)[j] = Take(os[j], L[j - 1])
                   /\ LessAt(os, L)[j].order_id = os[j].order_id
                   /\ LessAt(os, L)[j].qty_ahead = os[j].qty_ahead - p[j]
                   /\ (j \in OpenAt(os, L) <=> os[j].remaining_qty - TakeAt(os, L)[j] > 0)
  <2> SUFFICES ASSUME NEW j \in S
               PROVE  /\ L[j - 1] \in Nat
                      /\ p[j] = Pass(os[j], L[j - 1]) /\ TakeAt(os, L)[j] = Take(os[j], L[j - 1])
                      /\ LessAt(os, L)[j].order_id = os[j].order_id
                      /\ LessAt(os, L)[j].qty_ahead = os[j].qty_ahead - p[j]
                      /\ (j \in OpenAt(os, L) <=> os[j].remaining_qty - TakeAt(os, L)[j] > 0)
    OBVIOUS
  <2>1. j - 1 \in 0..n /\ L \in [0..n -> Nat]
    BY <1>1 DEF Filling, Spent
  <2>2. LessAt(os, L)[j] = Less(os[j], p[j], TakeAt(os, L)[j])
    BY DEF LessAt
  <2> QED
    BY <2>1, <2>2 DEF PassAt, TakeAt, OpenAt, Less
<1>6. \A j \in S : /\ os[j].qty_ahead \in Nat /\ p[j] \in Nat
                   /\ j \notin OpenAt(os, L) => os[j].qty_ahead - p[j] = 0
  <2> SUFFICES ASSUME NEW j \in S
               PROVE  /\ os[j].qty_ahead \in Nat /\ p[j] \in Nat
                      /\ j \notin OpenAt(os, L) => os[j].qty_ahead - p[j] = 0
    OBVIOUS
  <2> DEFINE o == os[j]
             a == L[j - 1]
  <2>1. o \in VirtualOrder /\ a \in Nat /\ p[j] = Pass(o, a)
        /\ (j \in OpenAt(os, L) <=> o.remaining_qty - Take(o, a) > 0)
    BY <1>1, <1>5
  <2> HIDE DEF o, a
  <2>2. o.remaining_qty > 0
    BY <2>1 DEF VirtualOrder
  <2>3. /\ Pass(o, a) \in Nat /\ Take(o, a) \in Nat /\ o.qty_ahead \in Nat /\ o.remaining_qty \in Nat
        /\ Take(o, a) > 0 => Pass(o, a) = o.qty_ahead
    BY <2>1, TakenIs
  <2>4. o.qty_ahead \in Nat /\ p[j] \in Nat /\ (j \notin OpenAt(os, L) => o.qty_ahead - p[j] = 0)
    BY <2>1, <2>2, <2>3
  <2> QED
    BY <2>4 DEF o
<1>7. Weighs(p, S) /\ Weighs(w, S)
  BY <1>6 DEF Weighs
<1>8. InOrder(rest)
  <2> SUFFICES ASSUME NEW k \in R, NEW l \in R, k < l
               PROVE  rest[k].order_id < rest[l].order_id
    BY DEF InOrder
  <2>1. at[k] \in S /\ at[l] \in S /\ at[k] < at[l]
    BY <1>4
  <2> QED
    BY <1>1, <1>4, <1>5, <2>1 DEF InOrder
<1>9. Ids(rest) \subseteq Ids(os)
  <2> SUFFICES ASSUME NEW k \in R PROVE rest[k].order_id \in Ids(os)
    BY DEF Ids
  <2>1. at[k] \in S /\ rest[k].order_id = os[at[k]].order_id
    BY <1>4, <1>5
  <2> QED
    BY <1>1, <2>1 DEF Ids
<1>10. SumOver(w, S) = SumOver(v, R)
  <2>1. \A x, y \in R : at[x] = at[y] => x = y
    BY <1>2, <1>4
  <2>2. \A x \in R : v[x] = w[at[x]]
    BY <1>4, <1>5 DEF AheadOf
  <2>3. \A s \in S : (\E x \in R : at[x] = s) \/ w[s] = 0
    BY <1>4, <1>6
  <2>4. /\ IsFiniteSet(S) /\ Weighs(w, S) /\ IsFiniteSet(R) /\ Weighs(v, R)
        /\ at \in [R -> S]
    BY <1>1, <1>2, <1>4, <1>7
  <2> HIDE DEF w, v, S, R
  <2> QED
    BY <2>1, <2>2, <2>3, <2>4, SumAlong
<1>11. SumOver(AheadOf(os), S) = SumOver(w, S) + SumOver(p, S)
  <2>1. \A x \in S : AheadOf(os)[x] = w[x] + p[x]
    BY <1>1, <1>6 DEF AheadOf
  <2> HIDE DEF w, p, S
  <2> QED
    BY <1>1, <1>7, <2>1, SumPlus
<1>12. SumOver(p, S) \in Int /\ SumOver(w, S) \in Int
  BY <1>1, <1>7, SumWithout
<1>13. AheadSum(rest) = AheadSum(os) - SumOver(p, S)
  <2>1. AheadSum(rest) = SumOver(w, S) /\ AheadSum(os) = SumOver(w, S) + SumOver(p, S)
    BY <1>1, <1>10, <1>11, Zenon DEF AheadSum
  <2> QED
    BY <1>12, <2>1
<1> QED
  BY <1>8, <1>9, <1>12, <1>13

\* A level that a fill went through still counts the volume ahead of its orders.
LEMMA LeftIsWithin ==
  ASSUME NEW level \in VirtualLevel, InOrder(level.orders), Counted(level),
         NEW L, NEW rest, NEW new, Filling(level.orders, L, rest, new)
  PROVE  Within(level, Left(level, level.orders, L, rest))
<1> DEFINE os == level.orders
           after == Left(level, os, L, rest)
           s == SumOver(PassAt(os, L), 1..Len(os))
           a == AheadSum(os)
<1>1. os \in OrderSeqs /\ level.price \in Prices
  BY DEF VirtualLevel, OrderSeqs
<1>2. InOrder(rest) /\ Ids(rest) \subseteq Ids(os) /\ s \in Int /\ AheadSum(rest) = a - s
  BY <1>1, RestIs
<1>3. a \in Int
  BY <1>1, OrderSeqIs
<1>4. after.price = level.price /\ after.orders = rest
      /\ after.total_qty_ahead = (level.total_qty_ahead - s) % Word
      /\ after = [price |-> level.price, total_qty_ahead |-> after.total_qty_ahead, orders |-> rest]
  BY DEF Left
<1>5. (level.total_qty_ahead - s) % Word = (a - s) % Word
  <2> DEFINE b == -s
  <2>1. b \in Int /\ a - s = a + b
    BY <1>2, <1>3
  <2>2. ((a % Word) + b) % Word = (a + b) % Word
    BY <1>3, <2>1, ReducedSum
  <2>3. a % Word \in Int
    BY <1>3, WordAssumption
  <2>4. (a % Word) - s = (a % Word) + b
    <3> DEFINE r == a % Word
    <3>1. r \in Int /\ s \in Int
      BY <1>2, <2>3
    <3> HIDE DEF r, s
    <3> QED
      BY <3>1
  <2> QED
    BY <2>1, <2>2, <2>4 DEF Counted
<1>6. after.total_qty_ahead \in Words
  <2>1. a - s \in Int
    BY <1>2, <1>3
  <2> HIDE DEF a, s
  <2> QED
    BY <1>4, <1>5, <2>1, Remainder
<1>7. rest \in Seq(VirtualOrder)
  BY DEF Filling, OrderSeqs
<1> HIDE DEF after, a, s, os
<1>8. after \in VirtualLevel
  BY <1>1, <1>4, <1>6, <1>7 DEF VirtualLevel, Words
<1>9. Counted(after)
  BY <1>2, <1>4, <1>5 DEF Counted
<1> QED
  BY <1>2, <1>4, <1>8, <1>9 DEF Within, after, os

SideIds(levels) == UNION {Ids(levels[i].orders) : i \in DOMAIN levels}

\* What is left of a good side is a good side.
LEMMA OccupiedGood ==
  ASSUME NEW side, NEW levels \in LevelSeqs, Sorted(side, levels), Apart(levels),
         NEW after \in LevelSeqs, Len(after) = Len(levels),
         \A i \in 1..Len(levels) : Within(levels[i], after[i])
  PROVE  SideGood(side, Occupied(after)) /\ SideIds(Occupied(after)) \subseteq SideIds(levels)
<1> DEFINE n == Len(levels)
           r == Occupied(after)
           m == Len(r)
<1>1. /\ n \in Nat /\ DOMAIN levels = 1..n /\ DOMAIN after = 1..n
      /\ \A i \in 1..n : after[i] \in VirtualLevel
  BY AppendedLevels
<1>2. r \in LevelSeqs /\ Filtered(r, n, OccupiedAt(after), after)
  <2>1. after \in Seq(VirtualLevel)
    BY DEF LevelSeqs
  <2> QED
    BY <2>1, OccupiedIs DEF LevelSeqs
<1>3. m \in Nat /\ DOMAIN r = 1..m
  BY <1>2, AppendedLevels
<1>4. PICK at : Selects(at, r, n, OccupiedAt(after), after)
  BY <1>2 DEF Filtered
<1> HIDE DEF n, r, m
<1>5. /\ \A k \in 1..m : at[k] \in 1..n /\ r[k] = after[at[k]] /\ HasOrders(r[k])
      /\ \A k, l \in 1..m : k < l => at[k] < at[l]
  BY <1>1, <1>4 DEF Selects, OccupiedAt, m
<1>6. \A k \in 1..m : Within(levels[at[k]], r[k])
  BY <1>5 DEF n
<1>7. Sorted(side, r)
  BY <1>1, <1>3, <1>5, <1>6 DEF Sorted, Within
<1>8. Apart(r)
  <2> SUFFICES ASSUME NEW k \in 1..m, NEW l \in 1..m, k # l
               PROVE  Ids(r[k].orders) \cap Ids(r[l].orders) = {}
    BY <1>3 DEF Apart
  <2>1. at[k] # at[l] /\ at[k] \in DOMAIN levels /\ at[l] \in DOMAIN levels
    <3>1. k < l \/ l < k
      BY <1>3
    <3> QED
      BY <1>1, <1>5, <3>1
  <2>2. Ids(levels[at[k]].orders) \cap Ids(levels[at[l]].orders) = {}
    BY <2>1 DEF Apart
  <2>3. Ids(r[k].orders) \subseteq Ids(levels[at[k]].orders) /\ Ids(r[l].orders) \subseteq Ids(levels[at[l]].orders)
    BY <1>6 DEF Within
  <2> QED
    BY <2>2, <2>3
<1>9. SideIds(r) \subseteq SideIds(levels)
  <2> SUFFICES ASSUME NEW k \in 1..m PROVE Ids(r[k].orders) \subseteq SideIds(levels)
    BY <1>3 DEF SideIds
  <2>1. at[k] \in DOMAIN levels /\ Ids(r[k].orders) \subseteq Ids(levels[at[k]].orders)
    BY <1>1, <1>5, <1>6 DEF Within
  <2> QED
    BY <2>1 DEF SideIds
<1>10. SideGood(side, r)
  BY <1>2, <1>3, <1>5, <1>6, <1>7, <1>8 DEF SideGood, Within
<1> QED
  BY <1>9, <1>10 DEF r

\* A fill leaves a good side.
LEMMA FillGood ==
  ASSUME NEW x, NEW side, NEW price, NEW size \in Nat, SideGood(side, x[side])
  PROVE  LET after == Occupied(FillWalk(x, side, price, size).levels)
         IN  SideGood(side, after) /\ SideIds(after) \subseteq SideIds(x[side])
<1> DEFINE levels == x[side]
           after == FillWalk(x, side, price, size).levels
<1>1. levels \in LevelSeqs
  BY DEF SideGood
<1>2. PICK F, N : Passage(side, price, levels, size, after, F, N)
  BY <1>1, SideWalk
<1> HIDE DEF levels, after
<1>3. ASSUME NEW i \in 1..Len(levels) PROVE Within(levels[i], after[i])
  <2> DEFINE level == levels[i]
  <2>1. level \in VirtualLevel /\ InOrder(level.orders) /\ Counted(level)
    BY <1>1, AppendedLevels DEF SideGood, levels
  <2>2. LevelDone(side, price, level, F[i - 1], N[i - 1], after[i], F[i], N[i])
    BY <1>2 DEF Passage
  <2> HIDE DEF level
  <2>3. CASE Reaches(side, price, level)
    <3>1. PICK L, rest, new : /\ Filling(level.orders, L, rest, new)
                              /\ after[i] = Left(level, level.orders, L, rest)
      BY <2>2, <2>3 DEF LevelDone
    <3>2. Within(level, after[i])
      BY <2>1, <3>1, LeftIsWithin
    <3> QED
      BY <3>2 DEF level
  <2>4. CASE ~Reaches(side, price, level)
    <3>1. after[i] = level
      BY <2>2, <2>4 DEF LevelDone
    <3>2. Within(level, after[i])
      BY <2>1, <3>1 DEF Within
    <3> QED
      BY <3>2 DEF level
  <2> QED
    BY <2>3, <2>4
<1>4. after \in LevelSeqs /\ Len(after) = Len(levels)
  BY <1>2 DEF Passage
<1>5. Sorted(side, levels) /\ Apart(levels)
  BY DEF SideGood, levels
<1>6. SideGood(side, Occupied(after)) /\ SideIds(Occupied(after)) \subseteq SideIds(levels)
  BY <1>1, <1>3, <1>4, <1>5, OccupiedGood
<1> QED
  BY <1>6 DEF levels, after

\* A weight may pass to another, reduced or not.
LEMMA SumMoved ==
  ASSUME NEW S, IsFiniteSet(S), NEW u, Weighs(u, S), NEW w, NEW i \in S, NEW j \in S, i # j,
         w[j] = 0, w[i] = (u[i] + u[j]) % Word, \A x \in S : x # i /\ x # j => w[x] = u[x]
  PROVE  Weighs(w, S) /\ SumOver(w, S) % Word = SumOver(u, S) % Word
<1> DEFINE R == S \ {i, j}
           r == SumOver(u, R)
           a == u[i] + u[j]
<1>1. u[i] \in Int /\ u[j] \in Int /\ a \in Int /\ a % Word \in Int
  <2>1. u[i] \in Int /\ u[j] \in Int
    BY DEF Weighs
  <2>2. a \in Int
    BY <2>1
  <2> HIDE DEF a
  <2> QED
    BY <2>1, <2>2, WordAssumption
<1>2. Weighs(w, S)
  BY <1>1 DEF Weighs
<1>3. /\ IsFiniteSet(S \ {j}) /\ IsFiniteSet(R) /\ R = (S \ {j}) \ {i} /\ i \in S \ {j}
      /\ Weighs(u, S \ {j}) /\ Weighs(w, S \ {j}) /\ Weighs(u, R) /\ Weighs(w, R)
      /\ \A x \in R : w[x] = u[x]
  BY <1>2, FS_Subset DEF Weighs
<1>4. SumOver(w, R) = r /\ r \in Int
  BY <1>3, SumSame, SumWithout
<1>5. SumOver(u, S) = u[j] + SumOver(u, S \ {j}) /\ SumOver(w, S) = w[j] + SumOver(w, S \ {j})
  BY <1>2, SumWithout
<1>6. SumOver(u, S \ {j}) = u[i] + SumOver(u, R) /\ SumOver(w, S \ {j}) = w[i] + SumOver(w, R)
  BY <1>3, SumWithout
<1>7. SumOver(u, S) = a + r
  <2> DEFINE ui == u[i]
             uj == u[j]
  <2>1. SumOver(u, S) = uj + (ui + r)
    BY <1>5, <1>6
  <2>2. ui \in Int /\ uj \in Int /\ r \in Int /\ a = ui + uj
    BY <1>1, <1>4
  <2> HIDE DEF a, r, ui, uj
  <2> QED
    BY <2>1, <2>2
<1>8. SumOver(w, S) = (a % Word) + r
  <2>1. SumOver(w, S) = 0 + ((a % Word) + r)
    BY <1>4, <1>5, <1>6
  <2>2. (a % Word) + r \in Int
    <3> HIDE DEF a, r
    <3> QED
      BY <1>1, <1>4
  <2> HIDE DEF a, r
  <2> QED
    BY <2>1, <2>2
<1> HIDE DEF a, r
<1>9. ((a % Word) + r) % Word = (a + r) % Word
  BY <1>1, <1>4, ReducedSum
<1> QED
  BY <1>2, <1>7, <1>8, <1>9

\* The orders of a level with the one at j taken out, and its volume ahead passed to
\* the next.
Behind(os, j) == IF j < Len(os) THEN HandedOver(os, j) ELSE os

\* Passing on the volume ahead changes that of the next order alone.
LEMMA BehindIs ==
  ASSUME NEW os \in OrderSeqs, NEW j \in DOMAIN os
  PROVE  /\ Behind(os, j) \in OrderSeqs /\ DOMAIN Behind(os, j) = DOMAIN os
         /\ \A k \in DOMAIN os :
              /\ Behind(os, j)[k].order_id = os[k].order_id
              /\ k # j + 1 => Behind(os, j)[k].qty_ahead = os[k].qty_ahead
              /\ k = j + 1 => Behind(os, j)[k].qty_ahead = (os[k].qty_ahead + os[j].qty_ahead) % Word
<1> DEFINE n == Len(os)
<1>1. n \in Nat /\ DOMAIN os = 1..n /\ \A k \in DOMAIN os : os[k] \in VirtualOrder
  BY OrderSeqIs
<1>2. CASE ~(j < n)
  <2>1. \A k \in DOMAIN os : k # j + 1
    BY <1>1, <1>2
  <2>2. Behind(os, j) = os
    BY <1>2 DEF Behind
  <2> QED
    BY <2>1, <2>2
<1>3. CASE j < n
  <2> DEFINE i == j + 1
             o == os[i]
             q == (o.qty_ahead + os[j].qty_ahead) % Word
             e == [o EXCEPT !.qty_ahead = q]
             s == [os EXCEPT ![i] = e]
  <2>1. i \in 1..n /\ o \in VirtualOrder /\ os[j] \in VirtualOrder /\ i = j + 1
    BY <1>1, <1>3
  <2>2. Behind(os, j) = s
    BY <1>3 DEF Behind, HandedOver
  <2>3. q \in Words
    <3> DEFINE a == o.qty_ahead + os[j].qty_ahead
    <3>1. o.qty_ahead \in Int /\ os[j].qty_ahead \in Int
      BY <2>1, WordAssumption DEF VirtualOrder
    <3>2. a \in Int
      BY <3>1
    <3> HIDE DEF a
    <3>3. a % Word \in Words
      BY <3>2, Remainder
    <3> QED
      BY <3>3 DEF a
  <2>4. e.qty_ahead = q /\ e.order_id = o.order_id /\ e \in VirtualOrder
    <3> HIDE DEF q
    <3> QED
      BY <2>1, <2>3 DEF VirtualOrder, Words
  <2> HIDE DEF e, q
  <2>5. s \in Seq(VirtualOrder) /\ Len(s) = n /\ \A k \in 1..n : s[k] = IF k = i THEN e ELSE os[k]
    <3>1. os \in Seq(VirtualOrder)
      BY DEF OrderSeqs
    <3> QED
      BY <2>1, <2>4, <3>1, ExceptSeq
  <2> HIDE DEF s
  <2>6. s \in OrderSeqs /\ DOMAIN s = DOMAIN os
    <3>1. s \in OrderSeqs
      BY <2>5 DEF OrderSeqs
    <3> QED
      BY <1>1, <2>5, <3>1, OrderSeqIs
  <2>7. \A k \in DOMAIN os : /\ s[k].order_id = os[k].order_id
                             /\ k # i => s[k].qty_ahead = os[k].qty_ahead
                             /\ k = i => s[k].qty_ahead = q
    BY <1>1, <2>4, <2>5
  <2> QED
    BY <2>2, <2>6, <2>7 DEF q
<1> QED
  BY <1>2, <1>3

\* The orders of a level without the one at j, where each was before, and what was
\* ahead of them there when that of the order at j had passed on.
Gone(os, j) == RemoveAt(Behind(os, j), j)
Shift(os, j) == [k \in 1..(Len(os) - 1) |-> IF k < j THEN k ELSE k + 1]
Weight(os, j) == [k \in DOMAIN os |-> IF k = j THEN 0 ELSE Behind(os, j)[k].qty_ahead]

\* What is left without the order at j, position by position.
LEMMA GoneIs ==
  ASSUME NEW os \in OrderSeqs, NEW j \in DOMAIN os
  PROVE  LET n    == Len(os)
             rest == Gone(os, j)
             at   == Shift(os, j)
             u    == AheadOf(os)
             w    == Weight(os, j)
         IN  /\ rest \in OrderSeqs /\ DOMAIN rest = 1..(n - 1) /\ at \in [1..(n - 1) -> 1..n]
             /\ \A k \in 1..(n - 1) : /\ rest[k].order_id = os[at[k]].order_id
                                      /\ AheadOf(rest)[k] = w[at[k]] /\ at[k] # j
             /\ \A k, l \in 1..(n - 1) : k < l => at[k] < at[l]
             /\ \A x \in 1..n : x # j => \E k \in 1..(n - 1) : at[k] = x
             /\ w[j] = 0 /\ \A x \in 1..n : x # j /\ x # j + 1 => w[x] = u[x]
             /\ j < n => w[j + 1] = (u[j + 1] + u[j]) % Word
             /\ u[j] = os[j].qty_ahead
<1> DEFINE n == Len(os)
           S == 1..n
           R == 1..(n - 1)
           s == Behind(os, j)
           rest == Gone(os, j)
           u == AheadOf(os)
           v == AheadOf(rest)
           w == Weight(os, j)
           at == Shift(os, j)
<1>1. n \in Nat /\ DOMAIN os = S /\ j \in S
  BY OrderSeqIs
<1>2. /\ s \in OrderSeqs /\ DOMAIN s = S
      /\ \A k \in S : /\ s[k].order_id = os[k].order_id
                      /\ k # j + 1 => s[k].qty_ahead = os[k].qty_ahead
                      /\ k = j + 1 => s[k].qty_ahead = (os[k].qty_ahead + os[j].qty_ahead) % Word
  BY <1>1, BehindIs
<1>3. \A k \in S : w[k] = IF k = j THEN 0 ELSE s[k].qty_ahead
  BY <1>1 DEF Weight
<1>4. \A k \in R : at[k] = IF k < j THEN k ELSE k + 1
  BY DEF Shift
<1>5. at = [k \in R |-> at[k]]
  BY DEF Shift
<1> HIDE DEF s, w, at
<1>6. rest \in OrderSeqs /\ DOMAIN rest = R /\ \A k \in R : rest[k] = s[IF k < j THEN k ELSE k + 1]
  <2>1. s \in Seq(VirtualOrder) /\ Len(s) = n
    <3>1. Len(s) \in Nat /\ DOMAIN s = 1..Len(s)
      BY <1>2, OrderSeqIs
    <3>2. Len(s) = n
      BY <1>1, <1>2, <3>1
    <3> QED
      BY <1>2, <3>2 DEF OrderSeqs
  <2>2. rest = RemoveAt(s, j)
    BY Zenon DEF Gone, s
  <2> HIDE DEF rest
  <2>3. /\ rest \in Seq(VirtualOrder) /\ Len(rest) = n - 1
        /\ \A k \in R : rest[k] = s[IF k < j THEN k ELSE k + 1]
    BY <1>1, <2>1, <2>2, RemoveAtIs, ZenonT(40)
  <2>4. rest \in OrderSeqs
    BY <2>3 DEF OrderSeqs
  <2> QED
    BY <2>3, <2>4, OrderSeqIs
<1> HIDE DEF rest, n
<1>7. \A k \in R : at[k] \in S /\ at[k] # j /\ rest[k] = s[at[k]]
  BY <1>1, <1>4, <1>6
<1>8. \A k, l \in R : k < l => at[k] < at[l]
  BY <1>1, <1>4
<1>9. ASSUME NEW x \in S, x # j PROVE \E k \in R : at[k] = x
  <2>1. CASE x < j
    <3>1. x \in R /\ at[x] = x
      BY <1>1, <1>4, <2>1
    <3> QED
      BY <3>1
  <2>2. CASE ~(x < j)
    <3>1. x - 1 \in R /\ at[x - 1] = x
      BY <1>1, <1>4, <1>9, <2>2
    <3> QED
      BY <3>1
  <2> QED
    BY <2>1, <2>2
<1>10. at \in [R -> S]
  BY <1>5, <1>7
<1>11. \A x \in S : u[x] = os[x].qty_ahead
  BY <1>1 DEF AheadOf
<1>12. \A k \in R : rest[k].order_id = os[at[k]].order_id /\ v[k] = w[at[k]] /\ at[k] # j
  BY <1>2, <1>3, <1>6, <1>7 DEF AheadOf
<1> HIDE DEF u, v
<1>13. /\ w[j] = 0 /\ \A x \in S : x # j /\ x # j + 1 => w[x] = u[x]
       /\ j < n => w[j + 1] = (u[j + 1] + u[j]) % Word
       /\ u[j] = os[j].qty_ahead
  <2>1. j < n => j + 1 \in S /\ j + 1 # j
    BY <1>1
  <2> QED
    BY <1>1, <1>2, <1>3, <1>11, <2>1
<1> QED
  BY <1>6, <1>8, <1>9, <1>10, <1>12, <1>13 DEF n, rest, u, v, w, at

\* A level without one of its orders, field by field.
LEMMA WithoutIs ==
  ASSUME NEW level \in VirtualLevel, NEW j
  PROVE  Without(level, j)
           = [price |-> level.price,
              total_qty_ahead |-> IF j < Len(level.orders) THEN level.total_qty_ahead
                                  ELSE (level.total_qty_ahead - level.orders[j].qty_ahead) % Word,
              orders |-> Gone(level.orders, j)]
<1>1. level = [price |-> level.price, total_qty_ahead |-> level.total_qty_ahead,
               orders |-> level.orders]
  BY DEF VirtualLevel
<1>2. CASE j < Len(level.orders)
  BY <1>1, <1>2 DEF Without, Gone, Behind
<1>3. CASE ~(j < Len(level.orders))
  BY <1>1, <1>3 DEF Without, Gone, Behind
<1> QED
  BY <1>2, <1>3

\* A level without one of its orders still counts the volume ahead of its orders.
LEMMA WithoutIsWithin ==
  ASSUME NEW level \in VirtualLevel, InOrder(level.orders), Counted(level),
         NEW j \in DOMAIN level.orders
  PROVE  Within(level, Without(level, j))
<1> DEFINE os == level.orders
           n == Len(os)
           S == 1..n
           R == 1..(n - 1)
           rest == Gone(os, j)
           u == AheadOf(os)
           v == AheadOf(rest)
           w == Weight(os, j)
           at == Shift(os, j)
           after == Without(level, j)
<1>1. os \in OrderSeqs /\ level.price \in Prices /\ level.total_qty_ahead \in Words
  BY DEF VirtualLevel, OrderSeqs, Words
<1>2. n \in Nat /\ DOMAIN os = S /\ IsFiniteSet(S) /\ Weighs(u, S) /\ j \in S /\ AheadSum(os) \in Int
  BY <1>1, OrderSeqIs
<1>3. /\ rest \in OrderSeqs /\ DOMAIN rest = R /\ at \in [R -> S]
      /\ \A k \in R : rest[k].order_id = os[at[k]].order_id /\ v[k] = w[at[k]] /\ at[k] # j
      /\ \A k, l \in R : k < l => at[k] < at[l]
      /\ \A x \in S : x # j => \E k \in R : at[k] = x
      /\ w[j] = 0 /\ \A x \in S : x # j /\ x # j + 1 => w[x] = u[x]
      /\ j < n => w[j + 1] = (u[j + 1] + u[j]) % Word
      /\ u[j] = os[j].qty_ahead
  BY <1>1, GoneIs
<1>4. /\ after.price = level.price /\ after.orders = rest
      /\ after = [price |-> level.price, total_qty_ahead |-> after.total_qty_ahead, orders |-> rest]
      /\ after.total_qty_ahead = IF j < n THEN level.total_qty_ahead
                                 ELSE (level.total_qty_ahead - os[j].qty_ahead) % Word
  <2> DEFINE total == IF j < n THEN level.total_qty_ahead
                      ELSE (level.total_qty_ahead - os[j].qty_ahead) % Word
  <2>1. after = [price |-> level.price, total_qty_ahead |-> total, orders |-> rest]
    BY WithoutIs
  <2> HIDE DEF after, total, rest
  <2>2. /\ after.price = level.price /\ after.orders = rest /\ after.total_qty_ahead = total
        /\ after = [price |-> level.price, total_qty_ahead |-> after.total_qty_ahead, orders |-> rest]
    BY <2>1
  <2> QED
    BY <2>2 DEF total
<1> HIDE DEF after, os, n, rest, u, v, w, at
<1>5. InOrder(rest)
  <2> SUFFICES ASSUME NEW k \in R, NEW l \in R, k < l
               PROVE  rest[k].order_id < rest[l].order_id
    BY <1>3 DEF InOrder
  <2>1. at[k] \in S /\ at[l] \in S /\ at[k] < at[l]
    BY <1>3
  <2>2. os[at[k]].order_id < os[at[l]].order_id
    BY <1>2, <2>1 DEF InOrder, os
  <2> QED
    BY <1>3, <2>2
<1>6. Ids(rest) \subseteq Ids(os)
  <2> SUFFICES ASSUME NEW k \in R PROVE rest[k].order_id \in Ids(os)
    BY <1>3 DEF Ids
  <2>1. at[k] \in S /\ rest[k].order_id = os[at[k]].order_id
    BY <1>3
  <2> QED
    BY <1>2, <2>1 DEF Ids
<1>7. IsFiniteSet(R) /\ Weighs(v, R) /\ AheadSum(rest) \in Int
  BY <1>3, OrderSeqIs DEF v
<1>8. /\ ~(j < n) => \A x \in S : x # j + 1
      /\ j < n => j + 1 \in S /\ j + 1 # j
  BY <1>2
<1>9. Weighs(w, S) => SumOver(w, S) = SumOver(v, R)
  <2>1. \A x, y \in R : at[x] = at[y] => x = y
    <3>1. \A x, y \in R : x < y \/ y < x \/ x = y
      BY <1>2
    <3>2. \A x \in R : at[x] \in Int
      BY <1>3
    <3> QED
      BY <1>3, <3>1, <3>2
  <2>2. \A x \in S : (\E k \in R : at[k] = x) \/ w[x] = 0
    BY <1>3
  <2>3. IsFiniteSet(S) /\ IsFiniteSet(R) /\ Weighs(v, R) /\ at \in [R -> S] /\ \A x \in R : v[x] = w[at[x]]
    BY <1>2, <1>3, <1>7
  <2> HIDE DEF S, R
  <2> QED
    BY <2>1, <2>2, <2>3, SumAlong
<1>10. AheadSum(rest) = SumOver(v, R) /\ AheadSum(os) = SumOver(u, S)
  BY <1>2, <1>3, Zenon DEF AheadSum, u, v
<1>11. after.total_qty_ahead = AheadSum(rest) % Word
  <2>1. CASE j < n
    <3>1. /\ IsFiniteSet(S) /\ Weighs(u, S) /\ j + 1 \in S /\ j \in S /\ j + 1 # j
          /\ w[j] = 0 /\ w[j + 1] = (u[j + 1] + u[j]) % Word
          /\ \A x \in S : x # j + 1 /\ x # j => w[x] = u[x]
      BY <1>2, <1>3, <1>8, <2>1
    <3>2. Weighs(w, S) /\ SumOver(w, S) % Word = SumOver(u, S) % Word
      BY <3>1, SumMoved, ZenonT(40)
    <3>3. level.total_qty_ahead = AheadSum(os) % Word
      BY DEF Counted, os
    <3> QED
      BY <1>4, <1>9, <1>10, <2>1, <3>2, <3>3
  <2>2. CASE ~(j < n)
    <3>1. IsFiniteSet(S) /\ Weighs(u, S) /\ j \in S /\ w[j] = 0 /\ \A x \in S : x # j => w[x] = u[x]
      BY <1>2, <1>3, <1>8, <2>2
    <3>2. /\ Weighs(w, S) /\ SumOver(u, S) \in Int /\ u[j] \in Int
          /\ SumOver(w, S) = SumOver(u, S) - u[j]
      BY <3>1, SumLess, ZenonT(40)
    <3> DEFINE a == SumOver(u, S)
               q == u[j]
               t == level.total_qty_ahead
    <3>3. a \in Int /\ q \in Int /\ t = a % Word /\ AheadSum(rest) = a - q
      <4>1. t = AheadSum(os) % Word
        BY DEF Counted, os
      <4> QED
        BY <1>9, <1>10, <3>2, <4>1
    <3>4. after.total_qty_ahead = (t - q) % Word
      BY <1>3, <1>4, <2>2
    <3> HIDE DEF a, q, t
    <3>5. (t - q) % Word = (a - q) % Word
      <4> DEFINE b == -q
      <4>1. b \in Int /\ a - q = a + b
        BY <3>3
      <4>2. ((a % Word) + b) % Word = (a + b) % Word
        BY <3>3, <4>1, ReducedSum
      <4>3. a % Word \in Int
        BY <3>3, WordAssumption
      <4>4. t - q = t + b
        BY <3>3, <4>3
      <4> QED
        BY <3>3, <4>1, <4>2, <4>4
    <3> QED
      BY <3>3, <3>4, <3>5
  <2> QED
    BY <2>1, <2>2
<1>12. after.total_qty_ahead \in Words
  <2>1. AheadSum(rest) % Word \in Words
    BY <1>7, Remainder
  <2> QED
    BY <1>11, <2>1
<1>13. after \in VirtualLevel
  <2>1. rest \in Seq(VirtualOrder)
    BY <1>3 DEF OrderSeqs
  <2> QED
    BY <1>1, <1>4, <1>12, <2>1 DEF VirtualLevel, Words
<1>14. Counted(after)
  BY <1>4, <1>11 DEF Counted
<1> QED
  BY <1>4, <1>5, <1>6, <1>13, <1>14 DEF Within, os, after

\* What a cancel leaves of a level.
Cancelled(level, id) ==
  LET at == {j \in DOMAIN level.orders : level.orders[j].order_id = id}
  IN  IF at = {} THEN level ELSE Without(level, CHOOSE j \in at : TRUE)

\* A cancel goes through all levels of a side.
LEMMA CancelIs ==
  ASSUME NEW x, NEW id, NEW side \in Sides, SideGood(side, x[side])
  PROVE  \E after \in LevelSeqs :
           /\ OnCancelOrder(x, id)[side] = Occupied(after) /\ Len(after) = Len(x[side])
           /\ \A i \in 1..Len(x[side]) : /\ after[i] = Cancelled(x[side][i], id)
                                        /\ Within(x[side][i], after[i])
<1> DEFINE levels == x[side]
           n == Len(levels)
           after == [i \in DOMAIN levels |-> Cancelled(levels[i], id)]
<1>1. levels \in LevelSeqs /\ n \in Nat /\ DOMAIN levels = 1..n /\ \A i \in 1..n : levels[i] \in VirtualLevel
  BY AppendedLevels DEF SideGood
<1>2. OnCancelOrder(x, id)[side] = Occupied(after)
  BY Zenon DEF OnCancelOrder, Cancelled, Sides
<1>3. ASSUME NEW i \in 1..n PROVE Within(levels[i], Cancelled(levels[i], id))
  <2> DEFINE level == levels[i]
             at == {j \in DOMAIN level.orders : level.orders[j].order_id = id}
  <2>1. level \in VirtualLevel /\ InOrder(level.orders) /\ Counted(level)
    BY <1>1 DEF SideGood
  <2> HIDE DEF level
  <2>2. CASE at = {}
    <3>1. Cancelled(level, id) = level
      BY <2>2 DEF Cancelled
    <3> QED
      BY <2>1, <3>1 DEF Within, level
  <2>3. CASE at # {}
    <3> DEFINE j == CHOOSE k \in at : TRUE
    <3>1. Cancelled(level, id) = Without(level, j)
      BY <2>3 DEF Cancelled
    <3>2. j \in DOMAIN level.orders
      BY <2>3
    <3> HIDE DEF j
    <3>3. Within(level, Without(level, j))
      BY <2>1, <3>2, WithoutIsWithin
    <3> QED
      BY <3>1, <3>3 DEF level
  <2> QED
    BY <2>2, <2>3
<1>4. \A i \in 1..n : after[i] = Cancelled(levels[i], id)
  BY <1>1
<1>5. after \in LevelSeqs /\ Len(after) = n
  <2>1. DOMAIN after = 1..n /\ \A i \in 1..n : after[i] \in VirtualLevel
    BY <1>1, <1>3, <1>4 DEF Within
  <2>2. after = [i \in 1..n |-> after[i]]
    BY <1>1
  <2> HIDE DEF after, n
  <2>3. after \in [1..n -> VirtualLevel]
    BY <2>1, <2>2
  <2>4. after \in Seq(VirtualLevel)
    BY <1>1, <2>3, SeqDef
  <2>5. Len(after) \in Nat /\ DOMAIN after = 1..Len(after)
    BY <2>4, LenProperties
  <2>6. Len(after) = n
    BY <1>1, <2>1, <2>5
  <2> QED
    BY <2>4, <2>6 DEF LevelSeqs
<1> HIDE DEF after
<1>6. \A i \in 1..n : Within(levels[i], after[i])
  BY <1>3, <1>4
<1> QED
  BY <1>2, <1>4, <1>5, <1>6

\* A cancel leaves a good side.
LEMMA CancelGood ==
  ASSUME NEW x, NEW id, NEW side \in Sides, SideGood(side, x[side])
  PROVE  LET after == OnCancelOrder(x, id)[side]
         IN  SideGood(side, after) /\ SideIds(after) \subseteq SideIds(x[side])
<1> DEFINE levels == x[side]
<1>1. PICK after \in LevelSeqs :
        /\ OnCancelOrder(x, id)[side] = Occupied(after) /\ Len(after) = Len(levels)
        /\ \A i \in 1..Len(levels) : /\ after[i] = Cancelled(levels[i], id)
                                     /\ Within(levels[i], after[i])
  BY CancelIs
<1>2. levels \in LevelSeqs /\ Sorted(side, levels) /\ Apart(levels)
  BY DEF SideGood
<1> HIDE DEF levels
<1>3. SideGood(side, Occupied(after)) /\ SideIds(Occupied(after)) \subseteq SideIds(levels)
  BY <1>1, <1>2, OccupiedGood
<1> QED
  BY <1>1, <1>3 DEF levels

---------------------------------------------------------------------------
(* A new order. *)

\* A set of numbers that begins at one and has no gaps.
LEMMA Initial ==
  ASSUME NEW n \in Nat, NEW B \in SUBSET (1..n), \A k \in B, i \in 1..n : i < k => i \in B
  PROVE  Cardinality(B) \in 0..n /\ B = 1..Cardinality(B)
<1>1. IsFiniteSet(B)
  <2>1. IsFiniteSet(1..n)
    BY FS_Interval
  <2> QED
    BY <2>1, FS_Subset
<1>2. CASE B = {}
  <2>1. Cardinality(B) = 0
    BY <1>2, FS_EmptySet
  <2> QED
    BY <1>2, <2>1
<1>3. CASE B # {}
  <2> DEFINE m == Max(B)
  <2>1. m \in B /\ \A k \in B : m >= k
    <3>1. B \in SUBSET Int
      OBVIOUS
    <3> QED
      BY <1>1, <1>3, <3>1, GreatestElement
  <2> HIDE DEF m
  <2>2. m \in 1..n /\ B = 1..m
    <3>1. m \in 1..n /\ \A k \in B : k \in 1..m
      BY <2>1
    <3>2. ASSUME NEW k \in 1..m PROVE k \in B
      <4>1. k = m \/ (k < m /\ k \in 1..n)
        BY <3>1
      <4> QED
        BY <2>1, <4>1
    <3> QED
      BY <3>1, <3>2
  <2>3. Cardinality(1..m) = m
    BY <2>2, FS_Interval
  <2> QED
    BY <2>2, <2>3
<1> QED
  BY <1>2, <1>3

\* A level of its own for a price, if the side has none, goes to its place.
LEMMA WithLevelIs ==
  ASSUME NEW side, NEW levels, SideGood(side, levels), NEW price \in Prices
  PROVE  LET full == WithLevel(levels, side, price)
         IN  /\ full \in LevelSeqs
             /\ \A i \in DOMAIN full : InOrder(full[i].orders) /\ Counted(full[i])
             /\ Sorted(side, full) /\ Apart(full) /\ SideIds(full) = SideIds(levels)
             /\ \A i \in DOMAIN full : full[i].price # price => HasOrders(full[i])
             /\ \E i \in DOMAIN full : full[i].price = price
<1> DEFINE n == Len(levels)
           full == WithLevel(levels, side, price)
           new == [price |-> price, total_qty_ahead |-> 0, orders |-> <<>>]
           B == {i \in DOMAIN levels : Better(side, levels[i].price, price)}
           pos == 1 + Cardinality(B)
<1>1. levels \in LevelSeqs /\ n \in Nat /\ DOMAIN levels = 1..n /\ \A i \in 1..n : levels[i] \in VirtualLevel
  BY AppendedLevels DEF SideGood
<1>2. CASE \E i \in DOMAIN levels : levels[i].price = price
  <2>1. full = levels
    BY <1>2 DEF WithLevel
  <2> HIDE DEF full
  <2> QED
    BY <1>2, <2>1 DEF SideGood, full
<1>3. CASE \A i \in DOMAIN levels : levels[i].price # price
  <2>1. full = InsertAt(levels, pos, new)
    BY <1>3 DEF WithLevel
  <2>2. \A i \in 1..n : levels[i].price \in Int
    BY <1>1, ClientAssumption DEF VirtualLevel
  <2>3. price \in Int
    BY ClientAssumption
  <2>4. Sorted(side, levels) /\ Apart(levels)
    BY DEF SideGood
  <2>5. Cardinality(B) \in 0..n /\ B = 1..Cardinality(B)
    <3>1. B \in SUBSET (1..n)
      BY <1>1
    <3>2. ASSUME NEW k \in B, NEW i \in 1..n, i < k PROVE i \in B
      <4>1. k \in 1..n /\ Better(side, levels[i].price, levels[k].price) /\ Better(side, levels[k].price, price)
        BY <1>1, <2>4, <3>2 DEF Sorted
      <4>2. Better(side, levels[i].price, price)
        BY <2>2, <2>3, <4>1 DEF Better
      <4> QED
        BY <1>1, <4>2
    <3> HIDE DEF B, n
    <3> QED
      BY <1>1, <3>1, <3>2, Initial
  <2>6. pos \in 1..(n + 1) /\ \A i \in 1..n : Better(side, levels[i].price, price) <=> i < pos
    <3> DEFINE c == Cardinality(B)
    <3>1. c \in 0..n /\ \A i \in 1..n : Better(side, levels[i].price, price) <=> i \in 1..c
      BY <1>1, <2>5
    <3>2. pos = 1 + c
      OBVIOUS
    <3> HIDE DEF c, pos, n, B
    <3> QED
      BY <1>1, <3>1, <3>2
  <2>7. new \in VirtualLevel /\ InOrder(new.orders) /\ Counted(new) /\ Ids(new.orders) = {}
    <3>1. new.orders = <<>> /\ new.total_qty_ahead = 0 /\ DOMAIN new.orders = {}
      OBVIOUS
    <3>2. <<>> \in Seq(VirtualOrder)
      OBVIOUS
    <3>3. new \in VirtualLevel
      BY <3>2, WordAssumption DEF VirtualLevel
    <3>4. AheadSum(new.orders) = 0
      BY <3>1, SumOfNone DEF AheadSum
    <3>5. 0 % Word = 0
      BY WordAssumption
    <3> HIDE DEF new
    <3> QED
      BY <3>1, <3>3, <3>4, <3>5 DEF InOrder, Counted, Ids
  <2>8. new.price = price
    OBVIOUS
  <2> HIDE DEF pos, new, full, n
  <2>9. /\ full \in LevelSeqs /\ DOMAIN full = 1..(n + 1)
        /\ \A k \in 1..(n + 1) : full[k] = IF k < pos THEN levels[k] ELSE IF k = pos THEN new ELSE levels[k - 1]
    <3>1. levels \in Seq(VirtualLevel)
      BY <1>1 DEF LevelSeqs
    <3>2. pos \in 1..(Len(levels) + 1)
      BY <2>6 DEF n
    <3>3. /\ full \in Seq(VirtualLevel) /\ Len(full) = Len(levels) + 1
          /\ \A k \in 1..(Len(levels) + 1) :
               full[k] = IF k < pos THEN levels[k] ELSE IF k = pos THEN new ELSE levels[k - 1]
      <4> DEFINE r == InsertAt(levels, pos, new)
      <4>1. new \in VirtualLevel
        BY <2>7
      <4>2. /\ r \in Seq(VirtualLevel) /\ Len(r) = Len(levels) + 1
            /\ \A k \in 1..(Len(levels) + 1) :
                 r[k] = IF k < pos THEN levels[k] ELSE IF k = pos THEN new ELSE levels[k - 1]
        BY <3>1, <3>2, <4>1, InsertAtIs
      <4> QED
        BY <2>1, <4>2, Zenon
    <3>4. full \in LevelSeqs
      BY <3>3 DEF LevelSeqs
    <3> QED
      BY <3>3, <3>4, AppendedLevels DEF n
  <2> DEFINE at == [k \in 1..(n + 1) |-> IF k < pos THEN k ELSE k - 1]
  <2>10. /\ \A k \in 1..(n + 1) : k # pos => at[k] \in 1..n /\ full[k] = levels[at[k]] /\ (at[k] < pos <=> k < pos)
         /\ \A k, l \in 1..(n + 1) : k # pos /\ l # pos /\ k < l => at[k] < at[l]
         /\ \A i \in 1..n : \E k \in 1..(n + 1) : k # pos /\ at[k] = i
    <3>1. \A k \in 1..(n + 1) : k # pos => at[k] \in 1..n /\ full[k] = levels[at[k]] /\ (at[k] < pos <=> k < pos)
      BY <1>1, <2>6, <2>9
    <3>2. \A k, l \in 1..(n + 1) : k # pos /\ l # pos /\ k < l => at[k] < at[l]
      BY <1>1, <2>6
    <3>3. ASSUME NEW i \in 1..n PROVE \E k \in 1..(n + 1) : k # pos /\ at[k] = i
      <4>1. CASE i < pos
        <5>1. i \in 1..(n + 1) /\ i # pos /\ at[i] = i
          BY <1>1, <2>6, <4>1
        <5> QED
          BY <5>1
      <4>2. CASE ~(i < pos)
        <5>1. i + 1 \in 1..(n + 1) /\ i + 1 # pos /\ at[i + 1] = i
          BY <1>1, <2>6, <4>2
        <5> QED
          BY <5>1
      <4> QED
        BY <4>1, <4>2
    <3> QED
      BY <3>1, <3>2, <3>3
  <2>11. full[pos] = new /\ pos \in 1..(n + 1)
    BY <2>6, <2>9
  <2> HIDE DEF at
  <2>12. \A i \in DOMAIN full : InOrder(full[i].orders) /\ Counted(full[i])
    <3>1. ASSUME NEW k \in 1..(n + 1) PROVE InOrder(full[k].orders) /\ Counted(full[k])
      <4>1. CASE k = pos
        BY <2>7, <2>11, <4>1
      <4>2. CASE k # pos
        <5>1. at[k] \in DOMAIN levels /\ full[k] = levels[at[k]]
          BY <1>1, <2>10, <4>2
        <5> QED
          BY <5>1 DEF SideGood
      <4> QED
        BY <4>1, <4>2
    <3> QED
      BY <2>9, <3>1
  <2>13. Sorted(side, full)
    <3> SUFFICES ASSUME NEW k \in 1..(n + 1), NEW l \in 1..(n + 1), k < l
                 PROVE  Better(side, full[k].price, full[l].price)
      BY <2>9 DEF Sorted
    <3>1. CASE k = pos
      <4>1. at[l] \in 1..n /\ full[l] = levels[at[l]] /\ ~(at[l] < pos)
        BY <2>6, <2>10, <3>1
      <4>2. ~Better(side, levels[at[l]].price, price) /\ levels[at[l]].price # price
        BY <1>1, <1>3, <2>6, <4>1
      <4> QED
        BY <2>2, <2>3, <2>8, <2>11, <3>1, <4>1, <4>2 DEF Better
    <3>2. CASE l = pos
      <4>1. at[k] \in 1..n /\ full[k] = levels[at[k]] /\ at[k] < pos
        BY <2>6, <2>10, <3>2
      <4> QED
        BY <2>6, <2>8, <2>11, <3>2, <4>1
    <3>3. CASE k # pos /\ l # pos
      <4>1. at[k] \in 1..n /\ full[k] = levels[at[k]] /\ at[l] \in 1..n /\ full[l] = levels[at[l]] /\ at[k] < at[l]
        BY <2>10, <3>3
      <4> QED
        BY <1>1, <2>4, <4>1 DEF Sorted
    <3> QED
      BY <3>1, <3>2, <3>3
  <2>14. Apart(full)
    <3> SUFFICES ASSUME NEW k \in 1..(n + 1), NEW l \in 1..(n + 1), k # l
                 PROVE  Ids(full[k].orders) \cap Ids(full[l].orders) = {}
      BY <2>9 DEF Apart
    <3>1. CASE k = pos \/ l = pos
      BY <2>7, <2>11, <3>1
    <3>2. CASE k # pos /\ l # pos
      <4>1. k < l \/ l < k
        OBVIOUS
      <4>2. at[k] \in 1..n /\ full[k] = levels[at[k]] /\ at[l] \in 1..n /\ full[l] = levels[at[l]] /\ at[k] # at[l]
        BY <2>10, <3>2, <4>1
      <4> QED
        BY <1>1, <2>4, <4>2 DEF Apart
    <3> QED
      BY <3>1, <3>2
  <2>15. SideIds(full) = SideIds(levels)
    <3>1. ASSUME NEW k \in 1..(n + 1) PROVE Ids(full[k].orders) \subseteq SideIds(levels)
      <4>1. CASE k = pos
        BY <2>7, <2>11, <4>1
      <4>2. CASE k # pos
        <5>1. at[k] \in DOMAIN levels /\ full[k] = levels[at[k]]
          BY <1>1, <2>10, <4>2
        <5> QED
          BY <5>1 DEF SideIds
      <4> QED
        BY <4>1, <4>2
    <3>2. ASSUME NEW i \in 1..n PROVE Ids(levels[i].orders) \subseteq SideIds(full)
      <4>1. PICK k \in 1..(n + 1) : k # pos /\ at[k] = i
        BY <2>10
      <4>2. full[k] = levels[i] /\ k \in DOMAIN full
        BY <2>9, <2>10, <4>1
      <4> QED
        BY <4>2 DEF SideIds
    <3> QED
      BY <1>1, <2>9, <3>1, <3>2 DEF SideIds
  <2>16. \A i \in DOMAIN full : full[i].price # price => HasOrders(full[i])
    BY <1>1, <2>8, <2>9, <2>10, <2>11 DEF SideGood
  <2>17. \E i \in DOMAIN full : full[i].price = price
    BY <2>8, <2>9, <2>11
  <2> QED
    BY <2>9, <2>12, <2>13, <2>14, <2>15, <2>16, <2>17 DEF full
<1> QED
  BY <1>2, <1>3

\* A level with a new order behind the others.
Grown(level, order) ==
  [price |-> level.price, total_qty_ahead |-> (level.total_qty_ahead + order.qty_ahead) % Word,
   orders |-> Append(level.orders, order)]

\* A new order joins the others of its level, and the level counts what is ahead of it.
LEMMA GrownIs ==
  ASSUME NEW level \in VirtualLevel, InOrder(level.orders), Counted(level),
         NEW order \in VirtualOrder, \A k \in Ids(level.orders) : k < order.order_id
  PROVE  LET after == Grown(level, order)
         IN  /\ after \in VirtualLevel /\ after.price = level.price /\ HasOrders(after)
             /\ InOrder(after.orders) /\ Counted(after)
             /\ Ids(after.orders) = Ids(level.orders) \cup {order.order_id}
<1> DEFINE os == level.orders
           n == Len(os)
           rest == Append(os, order)
           u == AheadOf(os)
           v == AheadOf(rest)
           a == AheadSum(os)
           b == order.qty_ahead
           t == level.total_qty_ahead
           after == Grown(level, order)
<1>1. /\ os \in OrderSeqs /\ os \in Seq(VirtualOrder) /\ n \in Nat /\ DOMAIN os = 1..n
      /\ Weighs(u, 1..n) /\ a \in Int
  <2>1. os \in OrderSeqs /\ os \in Seq(VirtualOrder)
    BY DEF VirtualLevel, OrderSeqs
  <2> QED
    BY <2>1, OrderSeqIs
<1>2. t \in Words /\ t = a % Word /\ b \in Words /\ level.price \in Prices
  BY DEF VirtualLevel, VirtualOrder, Words, Counted
<1> HIDE DEF os
<1>3. /\ rest \in Seq(VirtualOrder) /\ rest # <<>> /\ Len(rest) = n + 1
      /\ \A k \in 1..n : rest[k] = os[k]
      /\ rest[n + 1] = order
  BY <1>1, AppendProperties
<1> HIDE DEF rest
<1>4. rest \in OrderSeqs /\ DOMAIN rest = 1..(n + 1) /\ Weighs(v, 1..(n + 1))
  <2>1. rest \in OrderSeqs
    BY <1>3 DEF OrderSeqs
  <2>2. DOMAIN rest = 1..(n + 1) /\ Weighs(v, DOMAIN rest)
    BY <1>3, <2>1, OrderSeqIs
  <2> QED
    BY <2>1, <2>2
<1>5. /\ \A k \in 1..n : v[k] = u[k]
      /\ v[n + 1] = b
  BY <1>1, <1>3, <1>4 DEF AheadOf
<1>6. AheadSum(rest) = SumOver(v, 1..(n + 1)) /\ a = SumOver(u, 1..n)
  BY <1>1, <1>4, Zenon DEF AheadSum
<1> HIDE DEF n, u, v, a, b, t
<1>7. AheadSum(rest) = a + b
  <2>1. n + 1 \in Nat /\ n + 1 \in 1..(n + 1) /\ (n + 1) - 1 = n
    BY <1>1
  <2>2. SumOver(v, 1..(n + 1)) = SumOver(v, 1..((n + 1) - 1)) + v[n + 1]
    BY <1>4, <2>1, SumNext
  <2>3. IsFiniteSet(1..n) /\ Weighs(u, 1..n) /\ \A k \in 1..n : u[k] = v[k]
    BY <1>1, <1>5, FS_Interval
  <2>4. SumOver(u, 1..n) = SumOver(v, 1..n)
    BY <2>3, SumSame
  <2> QED
    BY <1>5, <1>6, <2>1, <2>2, <2>4
<1>8. (t + b) % Word = (a + b) % Word
  <2>1. b \in Int
    BY <1>2, WordAssumption DEF Words
  <2> QED
    BY <1>1, <1>2, <2>1, ReducedSum
<1>9. (t + b) % Word \in Words
  <2>1. t + b \in Int
    BY <1>2, WordAssumption DEF Words
  <2> QED
    BY <2>1, Remainder
<1>10. /\ after = [price |-> level.price, total_qty_ahead |-> (t + b) % Word, orders |-> rest]
       /\ after.price = level.price /\ after.total_qty_ahead = (t + b) % Word /\ after.orders = rest
  BY DEF Grown, t, b, rest, os
<1> HIDE DEF after
<1>11. after \in VirtualLevel
  BY <1>2, <1>3, <1>9, <1>10 DEF VirtualLevel, Words
<1>12. Counted(after)
  BY <1>7, <1>8, <1>10 DEF Counted
<1>13. InOrder(rest)
  <2> SUFFICES ASSUME NEW k \in 1..(n + 1), NEW l \in 1..(n + 1), k < l
               PROVE  rest[k].order_id < rest[l].order_id
    BY <1>4 DEF InOrder
  <2>1. k \in 1..n /\ rest[k] = os[k]
    BY <1>1, <1>3
  <2>2. CASE l = n + 1
    <3>1. os[k].order_id \in Ids(os)
      BY <1>1, <2>1 DEF Ids
    <3> QED
      BY <1>3, <2>1, <2>2, <3>1 DEF os
  <2>3. CASE l # n + 1
    <3>1. l \in 1..n /\ rest[l] = os[l]
      BY <1>1, <1>3, <2>3
    <3>2. InOrder(os)
      BY DEF os
    <3> QED
      BY <1>1, <2>1, <3>1, <3>2 DEF InOrder
  <2> QED
    BY <2>2, <2>3
<1>14. Ids(rest) = Ids(os) \cup {order.order_id}
  <2>1. ASSUME NEW k \in 1..(n + 1) PROVE rest[k].order_id \in Ids(os) \cup {order.order_id}
    <3>1. k = n + 1 \/ (k \in 1..n /\ rest[k] = os[k])
      BY <1>1, <1>3
    <3> QED
      BY <1>1, <1>3, <3>1 DEF Ids
  <2>2. ASSUME NEW k \in 1..n PROVE os[k].order_id \in Ids(rest)
    <3>1. k \in 1..(n + 1) /\ rest[k] = os[k]
      BY <1>1, <1>3
    <3> QED
      BY <1>4, <3>1 DEF Ids
  <2>3. order.order_id \in Ids(rest)
    <3>1. n + 1 \in 1..(n + 1)
      BY <1>1
    <3> QED
      BY <1>3, <1>4, <3>1 DEF Ids
  <2>4. Ids(rest) \subseteq Ids(os) \cup {order.order_id}
    BY <1>4, <2>1 DEF Ids
  <2>5. Ids(os) \subseteq Ids(rest)
    BY <1>1, <2>2 DEF Ids
  <2> QED
    BY <2>3, <2>4, <2>5
<1> QED
  BY <1>3, <1>10, <1>11, <1>12, <1>13, <1>14 DEF HasOrders, os, after

\* The level of a side that an order joins.
JoinedTo(full, i, order, ahead) ==
  [full EXCEPT ![i].orders = Append(@, order), ![i].total_qty_ahead = (@ + ahead) % Word]

\* OnCreateOrder's change of a level is Grown.
LEMMA JoinIs ==
  ASSUME NEW full \in LevelSeqs, NEW i \in DOMAIN full, NEW order, NEW ahead, order.qty_ahead = ahead
  PROVE  JoinedTo(full, i, order, ahead) = [full EXCEPT ![i] = Grown(full[i], order)]
<1> DEFINE level == full[i]
           joined == JoinedTo(full, i, order, ahead)
           kept == [level EXCEPT !.orders = Append(@, order)]
           one == [kept EXCEPT !.total_qty_ahead = (@ + ahead) % Word]
<1>1. level \in VirtualLevel
  BY AppendedLevels
<1>2. joined = [full EXCEPT ![i] = one]
  BY DEF JoinedTo
<1>3. one = Grown(level, order)
  <2>1. level = [price |-> level.price, total_qty_ahead |-> level.total_qty_ahead, orders |-> level.orders]
    BY <1>1 DEF VirtualLevel
  <2> HIDE DEF level
  <2>2. kept = [price |-> level.price, total_qty_ahead |-> level.total_qty_ahead,
                orders |-> Append(level.orders, order)]
    BY <2>1, SMTT(30)
  <2>3. kept = [price |-> kept.price, total_qty_ahead |-> kept.total_qty_ahead, orders |-> kept.orders]
    BY <2>2
  <2> HIDE DEF kept
  <2>4. one = [price |-> kept.price, total_qty_ahead |-> (kept.total_qty_ahead + ahead) % Word,
               orders |-> kept.orders]
    BY <2>3
  <2> HIDE DEF one
  <2> QED
    BY <2>2, <2>4 DEF Grown
<1> QED
  BY <1>2, <1>3

\* A new order leaves a good side.
LEMMA CreateGood ==
  ASSUME NEW x, x \in [Sides -> LevelSeqs], NEW side \in Sides, SideGood(side, x[side]), NEW price \in Prices,
         NEW id \in 1..MaxOrders, \A k \in SideIds(x[side]) : k < id,
         NEW qty \in Nat \ {0}, NEW shown \in Nat
  PROVE  LET after == OnCreateOrder(x, Create(id, price, qty, side), shown)
         IN  /\ after = [x EXCEPT ![side] = after[side]]
             /\ SideGood(side, after[side])
             /\ SideIds(after[side]) \subseteq SideIds(x[side]) \cup {id}
<1> DEFINE levels == x[side]
           full == WithLevel(levels, side, price)
           i == LevelOf(full, price)
           ahead == (shown - full[i].total_qty_ahead) % Word
           order == [order_id |-> id, qty_ahead |-> ahead, remaining_qty |-> qty]
           after == [full EXCEPT ![i] = Grown(full[i], order)]
           n == Len(full)
<1>1. /\ full \in LevelSeqs
      /\ \A k \in DOMAIN full : InOrder(full[k].orders) /\ Counted(full[k])
      /\ Sorted(side, full) /\ Apart(full) /\ SideIds(full) = SideIds(levels)
      /\ \A k \in DOMAIN full : full[k].price # price => HasOrders(full[k])
      /\ \E k \in DOMAIN full : full[k].price = price
  BY WithLevelIs
<1> HIDE DEF full, levels
<1>2. i \in DOMAIN full /\ full[i].price = price
  BY <1>1 DEF LevelOf
<1> HIDE DEF i
<1>3. n \in Nat /\ DOMAIN full = 1..n /\ \A k \in 1..n : full[k] \in VirtualLevel
  BY <1>1, AppendedLevels
<1>4. ahead \in Words
  <2>1. full[i].total_qty_ahead \in Int
    BY <1>2, <1>3, WordAssumption DEF VirtualLevel
  <2>2. shown - full[i].total_qty_ahead \in Int
    BY <2>1
  <2> QED
    BY <2>2, Remainder
<1>5. OnCreateOrder(x, Create(id, price, qty, side), shown) = [x EXCEPT ![side] = after]
  <2> DEFINE e == Create(id, price, qty, side)
             joined == JoinedTo(full, i, order, ahead)
  <2>1. e.order_id = id /\ e.price = price /\ e.qty = qty /\ e.side = side
    BY DEF Create
  <2> HIDE DEF e
  <2>2. OnCreateOrder(x, e, shown) = [x EXCEPT ![side] = joined]
    BY <2>1 DEF OnCreateOrder, JoinedTo, full, i, levels
  <2>3. order.qty_ahead = ahead
    OBVIOUS
  <2> HIDE DEF order, ahead
  <2>4. joined = after
    <3>1. full \in LevelSeqs /\ i \in DOMAIN full
      BY <1>1, <1>2
    <3>2. JoinedTo(full, i, order, ahead) = [full EXCEPT ![i] = Grown(full[i], order)]
      BY <2>3, <3>1, JoinIs
    <3> QED
      BY <3>2
  <2> QED
    BY <2>2, <2>4 DEF e
<1>6. order \in VirtualOrder /\ order.order_id = id
  BY <1>4 DEF VirtualOrder, Words
<1> HIDE DEF order, ahead
<1> DEFINE one == Grown(full[i], order)
<1>7. /\ one \in VirtualLevel /\ one.price = price /\ HasOrders(one)
      /\ InOrder(one.orders) /\ Counted(one)
      /\ Ids(one.orders) = Ids(full[i].orders) \cup {id}
  <2>1. full[i] \in VirtualLevel /\ InOrder(full[i].orders) /\ Counted(full[i])
    BY <1>1, <1>2, <1>3
  <2>2. \A k \in Ids(full[i].orders) : k < order.order_id
    BY <1>1, <1>2, <1>6 DEF SideIds, levels
  <2> HIDE DEF one
  <2>3. LET r == Grown(full[i], order)
        IN  /\ r \in VirtualLevel /\ r.price = full[i].price /\ HasOrders(r)
            /\ InOrder(r.orders) /\ Counted(r)
            /\ Ids(r.orders) = Ids(full[i].orders) \cup {order.order_id}
    BY <1>6, <2>1, <2>2, GrownIs
  <2> QED
    BY <1>2, <1>6, <2>3 DEF one
<1> HIDE DEF one
<1>8. after \in LevelSeqs /\ DOMAIN after = 1..n /\ \A k \in 1..n : after[k] = IF k = i THEN one ELSE full[k]
  <2>1. full \in Seq(VirtualLevel) /\ i \in 1..Len(full)
    BY <1>1, <1>2, <1>3 DEF LevelSeqs
  <2>2. after \in Seq(VirtualLevel) /\ Len(after) = n /\ \A k \in 1..n : after[k] = IF k = i THEN one ELSE full[k]
    BY <1>7, <2>1, ExceptSeq DEF one
  <2> HIDE DEF after
  <2>3. after \in LevelSeqs
    BY <2>2 DEF LevelSeqs
  <2> QED
    BY <2>2, <2>3, AppendedLevels
<1> HIDE DEF after
<1>9. \A k \in 1..n : HasOrders(after[k]) /\ InOrder(after[k].orders) /\ Counted(after[k])
  <2> SUFFICES ASSUME NEW k \in 1..n
               PROVE  HasOrders(after[k]) /\ InOrder(after[k].orders) /\ Counted(after[k])
    OBVIOUS
  <2>1. CASE k = i
    BY <1>7, <1>8, <2>1
  <2>2. CASE k # i
    <3>1. full[k].price # price
      <4>1. k < i \/ i < k
        BY <1>2, <1>3, <2>2
      <4>2. Better(side, full[k].price, full[i].price) \/ Better(side, full[i].price, full[k].price)
        BY <1>1, <1>2, <1>3, <4>1 DEF Sorted
      <4>3. price \in Int
        BY ClientAssumption
      <4> QED
        BY <1>2, <4>2, <4>3 DEF Better
    <3> QED
      BY <1>1, <1>3, <1>8, <2>2, <3>1
  <2> QED
    BY <2>1, <2>2
<1>10. \A k \in 1..n : after[k].price = full[k].price
  BY <1>2, <1>7, <1>8
<1>11. Sorted(side, after)
  BY <1>1, <1>3, <1>8, <1>10 DEF Sorted
<1>12. \A k \in 1..n : Ids(after[k].orders) = IF k = i THEN Ids(full[k].orders) \cup {id} ELSE Ids(full[k].orders)
  BY <1>7, <1>8
<1>13. \A k \in 1..n : id \notin Ids(full[k].orders)
  <2> SUFFICES ASSUME NEW k \in 1..n, id \in Ids(full[k].orders) PROVE FALSE
    OBVIOUS
  <2>1. id \in SideIds(x[side])
    BY <1>1, <1>3 DEF SideIds, levels
  <2> QED
    BY <2>1
<1>14. Apart(after)
  <2> SUFFICES ASSUME NEW k \in 1..n, NEW l \in 1..n, k # l
               PROVE  Ids(after[k].orders) \cap Ids(after[l].orders) = {}
    BY <1>8 DEF Apart
  <2>1. Ids(full[k].orders) \cap Ids(full[l].orders) = {}
    BY <1>1, <1>3 DEF Apart
  <2> QED
    BY <1>12, <1>13, <2>1
<1>15. SideIds(after) \subseteq SideIds(levels) \cup {id}
  <2> SUFFICES ASSUME NEW k \in 1..n PROVE Ids(after[k].orders) \subseteq SideIds(levels) \cup {id}
    BY <1>8 DEF SideIds
  <2>1. Ids(full[k].orders) \subseteq SideIds(full)
    BY <1>3 DEF SideIds
  <2> QED
    BY <1>1, <1>12, <2>1
<1>16. SideGood(side, after)
  BY <1>8, <1>9, <1>11, <1>14 DEF SideGood
<1>17. [x EXCEPT ![side] = after][side] = after
  OBVIOUS
<1> QED
  BY <1>5, <1>15, <1>16, <1>17 DEF levels

\* Both sides of the exchange are good.
BothGood ==
  /\ vx \in [Sides -> LevelSeqs]
  /\ \A side \in Sides : SideGood(side, vx[side])

\* The inductive invariant: besides, orders that rest were created, and rest on one side.
IInv ==
  /\ BothGood
  /\ created \in 0..MaxOrders
  /\ \A side \in Sides : SideIds(vx[side]) \subseteq 1..created
  /\ SideIds(vx["Bid"]) \cap SideIds(vx["Ask"]) = {}

\* Two good sides are what LevelsIntact asks for.
LEMMA GoodIsIntact ==
  BothGood => LevelsIntact
<1> SUFFICES ASSUME BothGood PROVE LevelsIntact
  OBVIOUS
<1>1. vx \in [Sides -> Seq(VirtualLevel)]
  BY DEF BothGood, LevelSeqs
<1> DEFINE Ordered(side) ==
             \A p, q \in Places(vx, side) : Ahead(p, q) =>
               IF p[1] = q[1] THEN At(vx, side, p).order_id < At(vx, side, q).order_id
               ELSE /\ Better(side, vx[side][p[1]].price, vx[side][q[1]].price)
                    /\ At(vx, side, p).order_id # At(vx, side, q).order_id
           Counts(side) ==
             \A i \in DOMAIN vx[side] :
               LET orders == vx[side][i].orders
               IN  vx[side][i].total_qty_ahead =
                     MapThenSumSet(LAMBDA j : orders[j].qty_ahead, DOMAIN orders) % Word
<1>2. ASSUME NEW side \in Sides
      PROVE  (\A i \in DOMAIN vx[side] : HasOrders(vx[side][i])) /\ Ordered(side) /\ Counts(side)
  <2> DEFINE levels == vx[side]
             n == Len(levels)
  <2>1. SideGood(side, levels)
    BY DEF BothGood
  <2> HIDE DEF levels
  <2>2. /\ n \in Nat /\ DOMAIN levels = 1..n /\ \A i \in 1..n : levels[i] \in VirtualLevel
        /\ \A i \in 1..n : HasOrders(levels[i]) /\ InOrder(levels[i].orders) /\ Counted(levels[i])
        /\ Sorted(side, levels) /\ Apart(levels)
    BY <2>1, AppendedLevels DEF SideGood
  <2>3. ASSUME NEW p \in Places(vx, side), NEW q \in Places(vx, side), Ahead(p, q)
        PROVE  IF p[1] = q[1] THEN At(vx, side, p).order_id < At(vx, side, q).order_id
               ELSE /\ Better(side, vx[side][p[1]].price, vx[side][q[1]].price)
                    /\ At(vx, side, p).order_id # At(vx, side, q).order_id
    <3> DEFINE i == p[1]
               k == q[1]
               a == p[2]
               b == q[2]
    <3>1. /\ i \in DOMAIN levels /\ a \in DOMAIN levels[i].orders
          /\ k \in DOMAIN levels /\ b \in DOMAIN levels[k].orders
      BY DEF Places, levels
    <3>2. i < k \/ (i = k /\ a < b)
      BY <2>3 DEF Ahead
    <3>3. /\ At(vx, side, p) = levels[i].orders[a]
          /\ At(vx, side, q) = levels[k].orders[b]
      BY DEF At, levels
    <3> HIDE DEF i, k, a, b
    <3>4. CASE i = k
      <4>1. a < b
        BY <2>2, <3>1, <3>2, <3>4
      <4>2. InOrder(levels[i].orders)
        BY <2>2, <3>1
      <4>3. levels[i].orders[a].order_id < levels[i].orders[b].order_id
        BY <3>1, <3>4, <4>1, <4>2 DEF InOrder
      <4> QED
        BY <3>3, <3>4, <4>3 DEF i, k
    <3>5. CASE i # k
      <4>1. Better(side, levels[i].price, levels[k].price)
        BY <2>2, <3>1, <3>2, <3>5 DEF Sorted
      <4>2. levels[i].orders[a].order_id # levels[k].orders[b].order_id
        <5>1. Ids(levels[i].orders) \cap Ids(levels[k].orders) = {}
          BY <2>2, <3>1, <3>5 DEF Apart
        <5>2. /\ levels[i].orders[a].order_id \in Ids(levels[i].orders)
              /\ levels[k].orders[b].order_id \in Ids(levels[k].orders)
          BY <3>1 DEF Ids
        <5> QED
          BY <5>1, <5>2
      <4> QED
        BY <3>3, <3>5, <4>1, <4>2 DEF i, k, levels
    <3> QED
      BY <3>4, <3>5
  <2>4. ASSUME NEW i \in DOMAIN vx[side]
        PROVE  LET orders == vx[side][i].orders
               IN  vx[side][i].total_qty_ahead =
                     MapThenSumSet(LAMBDA j : orders[j].qty_ahead, DOMAIN orders) % Word
    <3> DEFINE os == levels[i].orders
    <3>1. os \in OrderSeqs /\ levels[i].total_qty_ahead = AheadSum(os) % Word
      BY <2>2, <2>4 DEF VirtualLevel, OrderSeqs, Counted, levels
    <3>2. Volume(os, DOMAIN os) = AheadSum(os)
      BY <3>1, VolumeIs DEF AheadSum
    <3>3. levels[i].total_qty_ahead = Volume(os, DOMAIN os) % Word
      BY <3>1, <3>2
    <3> QED
      BY <3>3, Zenon DEF Volume, levels
  <2>5. \A i \in DOMAIN vx[side] : HasOrders(vx[side][i])
    BY <2>2 DEF levels
  <2>6. Ordered(side)
    BY <2>3
  <2>7. Counts(side)
    BY <2>4, Zenon
  <2> HIDE DEF Ordered, Counts
  <2> QED
    BY <2>5, <2>6, <2>7
<1> QED
  BY <1>1, <1>2, Zenon DEF LevelsIntact

\* An exchange without levels is good.
LEMMA InitGood == Init => IInv
<1> SUFFICES ASSUME Init PROVE IInv
  OBVIOUS
<1>1. vx = [side \in Sides |-> <<>>] /\ created = 0
  BY DEF Init, EmptyExchange, Sides
<1>2. \A side : SideGood(side, <<>>) /\ SideIds(<<>>) = {} /\ <<>> \in LevelSeqs
  <2>1. <<>> \in LevelSeqs /\ DOMAIN <<>> = {}
    BY DEF LevelSeqs
  <2> QED
    BY <2>1 DEF SideGood, SideIds, Sorted, Apart
<1>3. \A side \in Sides : vx[side] = <<>>
  BY <1>1
<1>4. "Bid" \in Sides /\ "Ask" \in Sides
  BY DEF Sides
<1>5. 0 \in 0..MaxOrders
  BY ClientAssumption
<1>6. vx \in [Sides -> LevelSeqs]
  BY <1>1, <1>2
<1> QED
  BY <1>1, <1>2, <1>3, <1>4, <1>5, <1>6 DEF IInv, BothGood

\* Every call keeps both sides good.
LEMMA NextGood == IInv /\ [Next]_vars => IInv'
<1> SUFFICES ASSUME IInv, [Next]_vars PROVE IInv'
  OBVIOUS
<1>0. /\ vx \in [Sides -> LevelSeqs] /\ \A side \in Sides : SideGood(side, vx[side])
      /\ created \in 0..MaxOrders /\ MaxOrders \in Nat
      /\ \A side \in Sides : SideIds(vx[side]) \subseteq 1..created
      /\ SideIds(vx["Bid"]) \cap SideIds(vx["Ask"]) = {}
      /\ "Bid" \in Sides /\ "Ask" \in Sides /\ \A side \in Sides : side = "Bid" \/ side = "Ask"
  BY ClientAssumption DEF IInv, BothGood, Sides
<1>1. CASE CreateOrder
  <2> DEFINE id == created + 1
  <2>1. created < MaxOrders /\ created' = id
    BY <1>1 DEF CreateOrder
  <2>2. PICK side \in Sides, price \in Prices, qty \in OrderSizes, shown \in ShownVolumes :
          vx' = OnCreateOrder(vx, Create(id, price, qty, side), shown)
    BY <1>1 DEF CreateOrder
  <2>3. id \in 1..MaxOrders /\ id \in 0..MaxOrders /\ 1..id = (1..created) \cup {id} /\ id \notin 1..created
    BY <1>0, <2>1
  <2>4. \A k \in SideIds(vx[side]) : k < id
    <3>1. \A k \in 1..created : k < id
      BY <1>0
    <3> QED
      BY <1>0, <3>1
  <2>5. qty \in Nat \ {0} /\ shown \in Nat
    BY ClientAssumption
  <2> HIDE DEF id
  <2>6. /\ vx' = [vx EXCEPT ![side] = vx'[side]]
        /\ SideGood(side, vx'[side])
        /\ SideIds(vx'[side]) \subseteq SideIds(vx[side]) \cup {id}
    <3>1. LET after == OnCreateOrder(vx, Create(id, price, qty, side), shown)
          IN  /\ after = [vx EXCEPT ![side] = after[side]]
              /\ SideGood(side, after[side])
              /\ SideIds(after[side]) \subseteq SideIds(vx[side]) \cup {id}
      BY <1>0, <2>3, <2>4, <2>5, CreateGood
    <3> QED
      BY <2>2, <3>1
  <2>7. vx' \in [Sides -> LevelSeqs] /\ \A s \in Sides : s # side => vx'[s] = vx[s]
    BY <1>0, <2>6 DEF SideGood
  <2>8. \A s \in Sides : SideGood(s, vx'[s]) /\ SideIds(vx'[s]) \subseteq 1..id
    BY <1>0, <2>3, <2>6, <2>7
  <2>9. SideIds(vx'["Bid"]) \cap SideIds(vx'["Ask"]) = {}
    <3>1. \A s \in Sides : id \notin SideIds(vx[s])
      BY <1>0, <2>3
    <3> QED
      BY <1>0, <2>6, <2>7, <3>1
  <2> QED
    BY <2>1, <2>3, <2>7, <2>8, <2>9 DEF IInv, BothGood
<1>2. CASE CancelOrder
  <2>1. PICK id \in 1..created : vx' = OnCancelOrder(vx, id)
    BY <1>2 DEF CancelOrder
  <2>2. created' = created
    BY <1>2 DEF CancelOrder
  <2>3. \A s \in Sides : SideGood(s, vx'[s]) /\ SideIds(vx'[s]) \subseteq SideIds(vx[s])
    BY <1>0, <2>1, CancelGood, SMTT(30)
  <2>4. vx' = [s \in Sides |-> vx'[s]]
    BY <2>1 DEF OnCancelOrder, Sides
  <2>5. vx' \in [Sides -> LevelSeqs]
    BY <2>3, <2>4 DEF SideGood
  <2> QED
    BY <1>0, <2>2, <2>3, <2>5 DEF IInv, BothGood
<1>3. CASE Fill
  <2>1. PICK side \in Sides, price \in Prices, size \in FillSizes : vx' = OnFill(vx, side, price, size)
    BY <1>3 DEF Fill
  <2>2. created' = created
    BY <1>3 DEF Fill
  <2>3. size \in Nat
    BY ClientAssumption
  <2> DEFINE after == Occupied(FillWalk(vx, side, price, size).levels)
  <2>4. SideGood(side, after) /\ SideIds(after) \subseteq SideIds(vx[side])
    BY <1>0, <2>3, FillGood
  <2>5. vx' = [vx EXCEPT ![side] = after]
    BY <2>1 DEF OnFill
  <2> HIDE DEF after
  <2>6. vx' \in [Sides -> LevelSeqs] /\ vx'[side] = after /\ \A s \in Sides : s # side => vx'[s] = vx[s]
    BY <1>0, <2>4, <2>5 DEF SideGood
  <2>7. \A s \in Sides : SideGood(s, vx'[s]) /\ SideIds(vx'[s]) \subseteq SideIds(vx[s])
    BY <1>0, <2>4, <2>6
  <2> QED
    BY <1>0, <2>2, <2>6, <2>7 DEF IInv, BothGood
<1>4. CASE UNCHANGED vars
  BY <1>4 DEF vars, IInv, BothGood
<1> QED
  BY <1>1, <1>2, <1>3, <1>4 DEF Next

\* The inductive invariant of the exchange: on_create_order, on_cancel_order and on_fill
\* keep each side sorted, without empty levels, and each level's count of the volume
\* ahead of its orders true; every resting order was created, and rests on one side.
THEOREM ExchangeIInv == Spec => []IInv
<1>1. Init => IInv
  BY InitGood
<1>2. IInv /\ [Next]_vars => IInv'
  BY NextGood
<1> QED
  BY <1>1, <1>2, PTL DEF Spec

\* However orders are created, cancelled and filled, the price levels of both sides stay
\* sorted and occupied, their orders in the order of arrival, no order rests twice, and
\* total_qty_ahead is the volume ahead of the level's orders, as a word.
THEOREM LevelsStayIntact == Spec => []LevelsIntact
<1>1. IInv => LevelsIntact
  BY GoodIsIntact DEF IInv
<1> QED
  BY <1>1, ExchangeIInv, PTL

\* The volume ahead of the first orders of a sequence, up to the k-th.
InFront(os, k) == SumOver(AheadOf(os), 1..k) % Word

\* Ids tell the orders of a level apart.
LEMMA SamePosition ==
  ASSUME NEW os \in OrderSeqs, InOrder(os), NEW k \in DOMAIN os, NEW l \in DOMAIN os,
         os[k].order_id = os[l].order_id
  PROVE  k = l
<1>1. \A i \in DOMAIN os : i \in Int /\ os[i].order_id \in Int
  BY OrderSeqIs DEF VirtualOrder
<1>2. k < l \/ l < k \/ k = l
  BY <1>1
<1> QED
  BY <1>1, <1>2 DEF InOrder

\* An order that is taken out leaves the volume before each of the others what it was.
LEMMA GoneKeeps ==
  ASSUME NEW os \in OrderSeqs, InOrder(os), NEW j \in DOMAIN os,
         NEW k \in DOMAIN os, NEW l \in DOMAIN Gone(os, j),
         os[k].order_id = Gone(os, j)[l].order_id
  PROVE  InFront(os, k) = InFront(Gone(os, j), l) /\ k # j
<1> DEFINE n == Len(os)
           S == 1..n
           R == 1..(n - 1)
           rest == Gone(os, j)
           u == AheadOf(os)
           v == AheadOf(rest)
           w == Weight(os, j)
           at == Shift(os, j)
           A == 1..k
           B == 1..l
           ab == [x \in B |-> at[x]]
<1>1. n \in Nat /\ DOMAIN os = S /\ IsFiniteSet(S) /\ Weighs(u, S) /\ j \in S /\ k \in S
  BY OrderSeqIs
<1>2. /\ rest \in OrderSeqs /\ DOMAIN rest = R /\ at \in [R -> S]
      /\ \A x \in R : rest[x].order_id = os[at[x]].order_id /\ v[x] = w[at[x]] /\ at[x] # j
      /\ \A x, y \in R : x < y => at[x] < at[y]
      /\ \A x \in S : x # j => \E y \in R : at[y] = x
      /\ w[j] = 0 /\ \A x \in S : x # j /\ x # j + 1 => w[x] = u[x]
      /\ j < n => w[j + 1] = (u[j + 1] + u[j]) % Word
  BY GoneIs
<1>3. IsFiniteSet(R) /\ Weighs(v, R)
  BY <1>2, OrderSeqIs DEF v
<1>4. l \in R /\ os[k].order_id = rest[l].order_id
  BY <1>2
<1>5. at[l] = k
  <2>1. at[l] \in DOMAIN os /\ os[at[l]].order_id = os[k].order_id
    BY <1>1, <1>2, <1>4
  <2> QED
    BY <2>1, SamePosition
<1> HIDE DEF n, rest, u, v, w, at
<1>6. k # j
  BY <1>2, <1>4, <1>5
<1>7. A \in SUBSET S /\ B \in SUBSET R
  BY <1>1, <1>4
<1>8. IsFiniteSet(A) /\ IsFiniteSet(B) /\ Weighs(u, A) /\ Weighs(v, B)
  BY <1>1, <1>3, <1>7, FS_Subset DEF Weighs
<1>9. /\ ab \in [B -> A]
      /\ \A x, y \in B : ab[x] = ab[y] => x = y
      /\ \A x \in B : v[x] = w[ab[x]]
  <2>1. ASSUME NEW x \in B PROVE at[x] \in A /\ v[x] = w[at[x]]
    <3>1. x \in R /\ (x = l \/ x < l)
      BY <1>4, <1>7
    <3>2. at[x] \in S /\ (at[x] = k \/ at[x] < k)
      BY <1>2, <1>4, <1>5, <3>1
    <3> QED
      BY <1>1, <1>2, <3>1, <3>2
  <2>2. ASSUME NEW x \in B, NEW y \in B, at[x] = at[y] PROVE x = y
    <3>1. x \in R /\ y \in R /\ (x < y \/ y < x \/ x = y) /\ at[x] \in Int /\ at[y] \in Int
      BY <1>2, <1>7
    <3> QED
      BY <1>2, <2>2, <3>1
  <2> QED
    BY <2>1, <2>2
<1>10. \A s \in A : (\E x \in B : ab[x] = s) \/ w[s] = 0
  <2> SUFFICES ASSUME NEW s \in A, s # j PROVE \E x \in B : at[x] = s
    BY <1>2
  <2>1. PICK y \in R : at[y] = s
    BY <1>2, <1>7
  <2>2. ~(l < y)
    <3>1. s <= k /\ s \in Int /\ k \in Int
      BY <1>1
    <3> QED
      BY <1>2, <1>4, <1>5, <2>1, <3>1
  <2>3. y \in B
    BY <1>4, <2>1, <2>2
  <2> QED
    BY <2>1, <2>3
<1> HIDE DEF ab
<1>11. Weighs(w, A) => SumOver(w, A) = SumOver(v, B)
  <2> HIDE DEF A, B
  <2> QED
    BY <1>8, <1>9, <1>10, SumAlong
<1>12. Weighs(w, A) /\ SumOver(w, A) % Word = SumOver(u, A) % Word
  <2>1. CASE j < k
    <3>1. /\ j \in A /\ j + 1 \in A /\ j + 1 # j /\ j < n
          /\ \A x \in A : x # j + 1 /\ x # j => w[x] = u[x]
      BY <1>1, <1>2, <1>7, <2>1, SMTT(30)
    <3>2. w[j] = 0 /\ w[j + 1] = (u[j + 1] + u[j]) % Word
      BY <1>2, <3>1
    <3> HIDE DEF A
    <3> QED
      BY <1>8, <3>1, <3>2, SumMoved
  <2>2. CASE ~(j < k)
    <3>1. \A x \in A : x \in S /\ x # j /\ x # j + 1
      BY <1>1, <1>6, <1>7, <2>2
    <3>2. \A x \in A : u[x] = w[x]
      BY <1>2, <3>1
    <3> HIDE DEF A
    <3>3. Weighs(w, A)
      BY <1>8, <3>2 DEF Weighs
    <3>4. SumOver(u, A) = SumOver(w, A)
      BY <1>8, <3>2, SumSame
    <3> QED
      BY <3>3, <3>4
  <2> QED
    BY <2>1, <2>2
<1>13. InFront(os, k) = InFront(rest, l)
  BY <1>11, <1>12 DEF InFront, u, v
<1> QED
  BY <1>6, <1>13 DEF rest

\* A cancel leaves the volume before each order of a level what it was.
LEMMA CancelledKeeps ==
  ASSUME NEW level \in VirtualLevel, InOrder(level.orders), NEW id,
         NEW k \in DOMAIN level.orders, NEW l \in DOMAIN Cancelled(level, id).orders,
         level.orders[k].order_id = Cancelled(level, id).orders[l].order_id
  PROVE  InFront(level.orders, k) = InFront(Cancelled(level, id).orders, l)
<1> DEFINE os == level.orders
           at == {j \in DOMAIN os : os[j].order_id = id}
           j == CHOOSE i \in at : TRUE
<1>1. os \in OrderSeqs
  BY DEF VirtualLevel, OrderSeqs
<1>2. CASE at = {}
  <2>1. Cancelled(level, id) = level
    BY <1>2 DEF Cancelled
  <2>2. k = l
    BY <1>1, <2>1, SamePosition
  <2> QED
    BY <2>1, <2>2
<1>3. CASE at # {}
  <2>1. Cancelled(level, id) = Without(level, j) /\ j \in DOMAIN os
    BY <1>3 DEF Cancelled
  <2> HIDE DEF j
  <2>2. Without(level, j).orders = Gone(os, j)
    BY WithoutIs
  <2>3. Cancelled(level, id).orders = Gone(os, j)
    BY <2>1, <2>2
  <2> HIDE DEF os
  <2>4. InFront(os, k) = InFront(Gone(os, j), l)
    BY <1>1, <2>1, <2>3, GoneKeeps DEF os
  <2> QED
    BY <2>3, <2>4 DEF os
<1> QED
  BY <1>2, <1>3

\* What CancelKeepsPlaces says of a step.
CancelKeeps ==
  \A side \in Sides : \A p \in Places(vx, side), q \in Places(vx', side) :
    At(vx, side, p).order_id = At(vx', side, q).order_id =>
      MarketVolumeBefore(vx, side, p) = MarketVolumeBefore(vx', side, q)

\* The volume before an order, as the sum of what is ahead of the orders up to it.
LEMMA VolumeBeforeIs ==
  ASSUME NEW x, NEW side, NEW p, x[side][p[1]].orders \in OrderSeqs,
         p[2] \in DOMAIN x[side][p[1]].orders
  PROVE  MarketVolumeBefore(x, side, p) = InFront(x[side][p[1]].orders, p[2])
<1> DEFINE os == x[side][p[1]].orders
           k == p[2]
<1>1. 1..k \in SUBSET DOMAIN os
  BY OrderSeqIs
<1>2. Volume(os, 1..k) = SumOver(AheadOf(os), 1..k)
  BY <1>1, VolumeIs
<1>3. MarketVolumeBefore(x, side, p) = Volume(os, 1..k) % Word
  BY Zenon DEF MarketVolumeBefore, Volume
<1> QED
  BY <1>2, <1>3 DEF InFront

\* A cancel keeps the volume before every other order, as CancelKeepsPlaces says.
LEMMA CancelKeepsEach ==
  IInv /\ CancelOrder => CancelKeeps
<1> SUFFICES ASSUME IInv, CancelOrder,
                    NEW side \in Sides, NEW p \in Places(vx, side), NEW q \in Places(vx', side),
                    At(vx, side, p).order_id = At(vx', side, q).order_id
             PROVE  MarketVolumeBefore(vx, side, p) = MarketVolumeBefore(vx', side, q)
  BY DEF CancelKeeps
<1> DEFINE levels == vx[side]
           n == Len(levels)
           now == vx'[side]
           m == Len(now)
           i == p[1]
           k == p[2]
           h == q[1]
           l == q[2]
<1>1. SideGood(side, levels)
  BY DEF IInv, BothGood
<1>2. PICK id \in 1..created : vx' = OnCancelOrder(vx, id)
  BY DEF CancelOrder
<1>3. PICK after \in LevelSeqs :
        /\ now = Occupied(after) /\ Len(after) = n
        /\ \A f \in 1..n : after[f] = Cancelled(levels[f], id) /\ Within(levels[f], after[f])
  BY <1>1, <1>2, CancelIs
<1>4. /\ i \in DOMAIN levels /\ k \in DOMAIN levels[i].orders
      /\ h \in DOMAIN now /\ l \in DOMAIN now[h].orders
      /\ levels[i].orders[k].order_id = now[h].orders[l].order_id
  BY DEF Places, At
<1>5. MarketVolumeBefore(vx, side, p) = InFront(levels[i].orders, k) \/ levels[i].orders \notin OrderSeqs
  BY <1>4, VolumeBeforeIs
<1>6. MarketVolumeBefore(vx', side, q) = InFront(now[h].orders, l) \/ now[h].orders \notin OrderSeqs
  BY <1>4, VolumeBeforeIs
<1> HIDE DEF levels, now, i, k, h, l, n
<1>7. /\ n \in Nat /\ DOMAIN levels = 1..n /\ \A f \in 1..n : levels[f] \in VirtualLevel
      /\ \A f \in 1..n : InOrder(levels[f].orders) /\ after[f] \in VirtualLevel
      /\ levels \in LevelSeqs /\ Apart(levels) /\ DOMAIN after = 1..n
  BY <1>1, <1>3, AppendedLevels DEF SideGood, n
<1>8. PICK at : Selects(at, now, n, OccupiedAt(after), after)
  <2>1. after \in Seq(VirtualLevel)
    BY DEF LevelSeqs
  <2> QED
    BY <1>3, <2>1, OccupiedIs DEF Filtered
<1>9. now \in LevelSeqs
  <2>1. after \in Seq(VirtualLevel)
    BY DEF LevelSeqs
  <2> QED
    BY <1>3, <2>1, OccupiedIs DEF LevelSeqs
<1>10. at[h] \in 1..n /\ now[h] = after[at[h]]
  <2>1. DOMAIN now = 1..m
    BY <1>9, AppendedLevels
  <2> HIDE DEF m
  <2> QED
    BY <1>4, <1>8, <2>1 DEF Selects, m
<1> DEFINE g == at[h]
<1>11. g \in 1..n /\ now[h] = Cancelled(levels[g], id) /\ Within(levels[g], now[h])
  BY <1>3, <1>10
<1> HIDE DEF g
<1>12. i = g
  <2>1. levels[i].orders[k].order_id \in Ids(levels[i].orders) /\ now[h].orders[l].order_id \in Ids(now[h].orders)
    BY <1>4 DEF Ids
  <2>2. Ids(now[h].orders) \subseteq Ids(levels[g].orders)
    BY <1>11 DEF Within
  <2> QED
    BY <1>4, <1>7, <1>11, <2>1, <2>2 DEF Apart
<1>13. levels[i].orders \in OrderSeqs /\ now[h].orders \in OrderSeqs
  <2>1. levels[i] \in VirtualLevel /\ now[h] \in VirtualLevel
    BY <1>4, <1>7, <1>11 DEF Within
  <2> QED
    BY <2>1 DEF VirtualLevel, OrderSeqs
<1>14. InFront(levels[i].orders, k) = InFront(now[h].orders, l)
  <2>1. levels[i] \in VirtualLevel /\ InOrder(levels[i].orders) /\ now[h] = Cancelled(levels[i], id)
    BY <1>4, <1>7, <1>11, <1>12
  <2>2. /\ k \in DOMAIN levels[i].orders /\ l \in DOMAIN Cancelled(levels[i], id).orders
        /\ levels[i].orders[k].order_id = Cancelled(levels[i], id).orders[l].order_id
    BY <1>4, <2>1
  <2>3. InFront(levels[i].orders, k) = InFront(Cancelled(levels[i], id).orders, l)
    BY <2>1, <2>2, CancelledKeeps
  <2> QED
    BY <2>1, <2>3
<1> QED
  BY <1>5, <1>6, <1>13, <1>14

\* on_cancel_order hands the volume ahead of the order it takes out to the one behind it,
\* so the market volume before every other order stays what it was.
THEOREM CancelsKeepPlaces == Spec => CancelKeepsPlaces
<1>1. IInv /\ [Next]_vars => [call'.op = "cancel" => CancelKeeps]_vars
  <2> SUFFICES ASSUME IInv, Next, call'.op = "cancel" PROVE CancelKeeps
    OBVIOUS
  <2>1. ~CreateOrder
    BY DEF CreateOrder
  <2>2. ~Fill
    BY DEF Fill
  <2> QED
    BY <2>1, <2>2, CancelKeepsEach DEF Next
<1>2. Spec => [][call'.op = "cancel" => CancelKeeps]_vars
  BY <1>1, ExchangeIInv, PTL DEF Spec
<1> QED
  BY <1>2, Zenon DEF CancelKeepsPlaces, CancelKeeps

---------------------------------------------------------------------------
(* What a fill takes of a side, place by place. *)

\* What falls from step to step falls over any number of steps.
LEMMA Falling ==
  ASSUME NEW n \in Nat, NEW L \in [0..n -> Nat], \A j \in 1..n : L[j] <= L[j - 1]
  PROVE  \A j, k \in 0..n : j <= k => L[k] <= L[j]
<1>1. \A j \in 0..n : L[j] \in Nat
  OBVIOUS
<1> SUFFICES ASSUME NEW j \in 0..n PROVE \A k \in 0..n : j <= k => L[k] <= L[j]
  OBVIOUS
<1> DEFINE G == {d \in Nat : j + d <= n => L[j + d] <= L[j]}
<1>3. 0 \in G
  BY <1>1
<1>4. ASSUME NEW d \in Nat, d \in G PROVE d + 1 \in G
  <2> SUFFICES ASSUME j + (d + 1) <= n PROVE L[j + (d + 1)] <= L[j]
    OBVIOUS
  <2>1. /\ j + d \in 0..n /\ j + (d + 1) \in 1..n /\ j + (d + 1) \in 0..n
        /\ (j + (d + 1)) - 1 = j + d /\ j + d <= n
    BY <1>1
  <2>2. L[j + d] <= L[j] /\ L[j + (d + 1)] <= L[j + d]
    BY <1>4, <2>1
  <2> QED
    BY <1>1, <2>1, <2>2
<1> HIDE DEF G
<1>5. Nat \subseteq G
  BY <1>3, <1>4, NumberInduction
<1> SUFFICES ASSUME NEW k \in 0..n, j <= k PROVE L[k] <= L[j]
  OBVIOUS
<1>6. k - j \in Nat /\ j + (k - j) = k /\ k <= n
  BY <1>1
<1> QED
  BY <1>5, <1>6 DEF G

\* The orders of a level are met with units that only become fewer.
LEMMA SpentFalls ==
  ASSUME NEW os \in OrderSeqs, NEW L, Spent(os, L)
  PROVE  \A j, k \in 0..Len(os) : j <= k => L[k] <= L[j]
<1> DEFINE n == Len(os)
<1>1. n \in Nat /\ L \in [0..n -> Nat] /\ \A j \in 1..n : j - 1 \in 0..n /\ os[j] \in VirtualOrder
  BY OrderSeqIs DEF Spent
<1>2. \A j \in 1..n : L[j] <= L[j - 1]
  <2> SUFFICES ASSUME NEW j \in 1..n PROVE L[j] <= L[j - 1]
    OBVIOUS
  <2> DEFINE a == L[j - 1]
             o == os[j]
  <2>1. L[j] = a - Pass(o, a) - Take(o, a)
    BY DEF Spent, PassAt, TakeAt
  <2>2. a \in Nat /\ o \in VirtualOrder
    BY <1>1
  <2> HIDE DEF a, o
  <2>3. Pass(o, a) \in Nat /\ Take(o, a) \in Nat
    BY <2>2, TakenIs
  <2>4. L[j] <= a
    BY <2>1, <2>2, <2>3
  <2> QED
    BY <2>4 DEF a
<1> HIDE DEF n
<1>3. \A j, k \in 0..n : j <= k => L[k] <= L[j]
  BY <1>1, <1>2, Falling
<1> QED
  BY <1>3 DEF n

\* Nothing is taken of a level that the fill does not reach.
LEMMA NoUnits ==
  ASSUME NEW os \in OrderSeqs
  PROVE  LET L == [j \in 0..Len(os) |-> 0]
         IN  /\ Filling(os, L, os, <<>>)
             /\ \A j \in 1..Len(os) : PassAt(os, L)[j] = 0 /\ TakeAt(os, L)[j] = 0
<1> DEFINE n == Len(os)
           L == [j \in 0..n |-> 0]
           none == [k \in {} |-> 1]
           same == [k \in 1..n |-> k]
<1>1. n \in Nat /\ \A j \in 1..n : j - 1 \in 0..n /\ os[j] \in VirtualOrder
  BY OrderSeqIs
<1>2. \A j \in 1..n : PassAt(os, L)[j] = 0 /\ TakeAt(os, L)[j] = 0
  <2>1. \A o \in VirtualOrder : Pass(o, 0) = 0 /\ Take(o, 0) = 0
    BY TakenIs
  <2>2. \A j \in 1..n : L[j - 1] = 0
    BY <1>1
  <2> QED
    BY <1>1, <2>1, <2>2 DEF PassAt, TakeAt
<1>3. Spent(os, L)
  <2>1. L \in [0..n -> Nat] /\ \A j \in 1..n : L[j] = 0 /\ L[j - 1] = 0
    BY <1>1
  <2> HIDE DEF L
  <2> QED
    BY <1>2, <2>1 DEF Spent
<1>4. \A j \in 1..n : j \in OpenAt(os, L) /\ LessAt(os, L)[j] = os[j]
  <2> SUFFICES ASSUME NEW j \in 1..n PROVE j \in OpenAt(os, L) /\ LessAt(os, L)[j] = os[j]
    OBVIOUS
  <2>1. /\ os[j].remaining_qty \in Nat \ {0} /\ os[j].qty_ahead \in Int
        /\ os[j] = [order_id |-> os[j].order_id, qty_ahead |-> os[j].qty_ahead,
                    remaining_qty |-> os[j].remaining_qty]
    BY <1>1, WordAssumption DEF VirtualOrder
  <2>2. PassAt(os, L)[j] = 0 /\ TakeAt(os, L)[j] = 0
    BY <1>2
  <2> HIDE DEF L
  <2>3. LessAt(os, L)[j] = Less(os[j], 0, 0)
    BY <2>2 DEF LessAt
  <2>4. Less(os[j], 0, 0) = os[j]
    BY <2>1 DEF Less
  <2>5. j \in OpenAt(os, L)
    BY <2>1, <2>2 DEF OpenAt
  <2> QED
    BY <2>3, <2>4, <2>5
<1> HIDE DEF L
<1>5. Selects(same, os, n, OpenAt(os, L), LessAt(os, L))
  BY <1>1, <1>4 DEF Selects
<1>6. Filtered(os, n, OpenAt(os, L), LessAt(os, L))
  BY <1>5 DEF Filtered
<1>7. TakenAt(os, L) = {}
  BY <1>2 DEF TakenAt
<1>8. Selects(none, <<>>, n, TakenAt(os, L), NotedAt(os, L))
  BY <1>7 DEF Selects
<1>9. Filtered(<<>>, n, TakenAt(os, L), NotedAt(os, L))
  BY <1>8 DEF Filtered
<1>10. <<>> \in FillSeqs
  BY JoinedFills
<1>11. Filling(os, L, os, <<>>)
  BY <1>3, <1>6, <1>9, <1>10 DEF Filling
<1> QED
  BY <1>2, <1>11 DEF L

\* A fill that reaches a level reaches all better ones.
LEMMA ReachesBefore ==
  ASSUME NEW side, NEW price \in Prices, NEW levels \in LevelSeqs, Sorted(side, levels),
         NEW i \in 1..Len(levels), NEW k \in 1..Len(levels), i < k,
         Reaches(side, price, levels[k])
  PROVE  Reaches(side, price, levels[i])
<1>1. /\ i \in DOMAIN levels /\ k \in DOMAIN levels
      /\ levels[i] \in VirtualLevel /\ levels[k] \in VirtualLevel
  BY AppendedLevels
<1>2. levels[i].price \in Int /\ levels[k].price \in Int /\ price \in Int
  BY <1>1, ClientAssumption DEF VirtualLevel
<1>3. Better(side, levels[i].price, levels[k].price)
  BY <1>1 DEF Sorted
<1> QED
  BY <1>2, <1>3 DEF Reaches, Better

\* The fill comes to the level i with M[i][0] units, and has M[i][j] left after its order
\* j; it leaves the orders of `after`, and has made the fills N[i] behind the level.
Course(side, price, levels, after, F, N, M) ==
  /\ \A i \in 1..Len(levels) :
       \E rest, new : /\ Filling(levels[i].orders, M[i], rest, new)
                      /\ after[i].orders = rest /\ N[i] = Joined(N[i - 1], new)
  /\ \A i \in 1..Len(levels) :
       IF Reaches(side, price, levels[i])
       THEN M[i][0] = F[i - 1] /\ M[i][Len(levels[i].orders)] = F[i]
       ELSE M[i] = [j \in 0..Len(levels[i].orders) |-> 0] /\ F[i] = F[i - 1]

\* A fill that goes through a side takes such a course.
LEMMA CourseIs ==
  ASSUME NEW side, NEW price, NEW levels \in LevelSeqs, NEW size, NEW after, NEW F, NEW N,
         Passage(side, price, levels, size, after, F, N)
  PROVE  \E M : Course(side, price, levels, after, F, N, M)
<1> DEFINE n == Len(levels)
           os(i) == levels[i].orders
           Is(i, L) ==
             \E rest, new : /\ Filling(os(i), L, rest, new) /\ L[0] = F[i - 1]
                            /\ F[i] = L[Len(os(i))]
                            /\ after[i] = Left(levels[i], os(i), L, rest)
                            /\ N[i] = Joined(N[i - 1], new)
           M == [i \in 1..n |-> IF Reaches(side, price, levels[i]) THEN CHOOSE L : Is(i, L)
                                ELSE [j \in 0..Len(os(i)) |-> 0]]
<1>1. \A i \in 1..n : LevelDone(side, price, levels[i], F[i - 1], N[i - 1], after[i], F[i], N[i])
  BY DEF Passage
<1>2. \A i \in 1..n : levels[i] \in VirtualLevel /\ os(i) \in OrderSeqs /\ N[i - 1] \in FillSeqs
  <2>1. n \in Nat /\ \A i \in 1..n : levels[i] \in VirtualLevel /\ i - 1 \in 0..n
    BY AppendedLevels
  <2>2. N \in [0..n -> FillSeqs]
    BY DEF Passage
  <2> QED
    BY <2>1, <2>2 DEF VirtualLevel, OrderSeqs
<1>3. ASSUME NEW i \in 1..n, Reaches(side, price, levels[i])
      PROVE  /\ \E rest, new : /\ Filling(os(i), M[i], rest, new)
                               /\ after[i].orders = rest /\ N[i] = Joined(N[i - 1], new)
             /\ M[i][0] = F[i - 1] /\ M[i][Len(os(i))] = F[i]
  <2>1. \E L : Is(i, L)
    BY <1>1, <1>3 DEF LevelDone
  <2>2. M[i] = CHOOSE L : Is(i, L)
    BY <1>3
  <2>3. Is(i, M[i])
    BY <2>1, <2>2, Zenon
  <2> HIDE DEF M
  <2>4. PICK rest, new : /\ Filling(os(i), M[i], rest, new) /\ M[i][0] = F[i - 1]
                         /\ F[i] = M[i][Len(os(i))]
                         /\ after[i] = Left(levels[i], os(i), M[i], rest)
                         /\ N[i] = Joined(N[i - 1], new)
    BY <2>3
  <2>5. after[i].orders = rest
    BY <2>4 DEF Left
  <2> QED
    BY <2>4, <2>5
<1>4. ASSUME NEW i \in 1..n, ~Reaches(side, price, levels[i])
      PROVE  /\ \E rest, new : /\ Filling(os(i), M[i], rest, new)
                               /\ after[i].orders = rest /\ N[i] = Joined(N[i - 1], new)
             /\ M[i] = [j \in 0..Len(os(i)) |-> 0] /\ F[i] = F[i - 1]
  <2>1. after[i] = levels[i] /\ F[i] = F[i - 1] /\ N[i] = N[i - 1]
    BY <1>1, <1>4 DEF LevelDone
  <2>2. M[i] = [j \in 0..Len(os(i)) |-> 0]
    BY <1>4
  <2> HIDE DEF M
  <2>3. Filling(os(i), M[i], os(i), <<>>)
    BY <1>2, <2>2, NoUnits
  <2>4. N[i] = Joined(N[i - 1], <<>>)
    BY <1>2, <2>1, JoinedFills
  <2> QED
    BY <2>1, <2>2, <2>3, <2>4
<1> HIDE DEF M
<1>5. Course(side, price, levels, after, F, N, M)
  BY <1>3, <1>4, Zenon DEF Course
<1> QED
  BY <1>5

Spots(levels) == UNION {{<<i, j>> : j \in DOMAIN levels[i].orders} : i \in DOMAIN levels}
OrderAt(levels, p) == levels[p[1]].orders[p[2]]

\* The units with which the fill comes to the order at p, and what it passes and takes.
UnitsAt(M, p) == M[p[1]][p[2] - 1]
PassOf(levels, M, p) == Pass(OrderAt(levels, p), UnitsAt(M, p))
TakeOf(levels, M, p) == Take(OrderAt(levels, p), UnitsAt(M, p))

\* A spot is a level and a place in it.
LEMMA SpotIs ==
  ASSUME NEW levels \in LevelSeqs
  PROVE  /\ \A p \in Spots(levels) :
              /\ p = <<p[1], p[2]>> /\ p[1] \in 1..Len(levels)
              /\ p[2] \in 1..Len(levels[p[1]].orders) /\ p[1] \in Int /\ p[2] \in Int
              /\ OrderAt(levels, p) \in VirtualOrder
         /\ \A i \in 1..Len(levels) :
              /\ levels[i].orders \in OrderSeqs /\ levels[i] \in VirtualLevel
              /\ \A j \in 1..Len(levels[i].orders) :
                   <<i, j>> \in Spots(levels) /\ OrderAt(levels, <<i, j>>) = levels[i].orders[j]
         /\ Len(levels) \in Nat /\ DOMAIN levels = 1..Len(levels)
<1>1. /\ Len(levels) \in Nat /\ DOMAIN levels = 1..Len(levels)
      /\ \A i \in 1..Len(levels) : levels[i] \in VirtualLevel
  BY AppendedLevels
<1>2. \A i \in 1..Len(levels) : levels[i].orders \in OrderSeqs
  BY <1>1 DEF VirtualLevel, OrderSeqs
<1>3. \A i \in 1..Len(levels) :
        /\ DOMAIN levels[i].orders = 1..Len(levels[i].orders)
        /\ \A j \in 1..Len(levels[i].orders) : levels[i].orders[j] \in VirtualOrder
  BY <1>2, OrderSeqIs
<1>4. ASSUME NEW p \in Spots(levels)
      PROVE  /\ p = <<p[1], p[2]>> /\ p[1] \in 1..Len(levels)
             /\ p[2] \in 1..Len(levels[p[1]].orders) /\ p[1] \in Int /\ p[2] \in Int
             /\ OrderAt(levels, p) \in VirtualOrder
  <2>1. PICK i \in 1..Len(levels) : \E j \in 1..Len(levels[i].orders) : p = <<i, j>>
    BY <1>1, <1>3 DEF Spots
  <2>2. PICK j \in 1..Len(levels[i].orders) : p = <<i, j>>
    BY <2>1
  <2> QED
    BY <1>3, <2>2 DEF OrderAt
<1>5. ASSUME NEW i \in 1..Len(levels), NEW j \in 1..Len(levels[i].orders)
      PROVE  <<i, j>> \in Spots(levels) /\ OrderAt(levels, <<i, j>>) = levels[i].orders[j]
  BY <1>1, <1>3 DEF Spots, OrderAt
<1> QED
  BY <1>1, <1>2, <1>4, <1>5

\* A fill comes to an order only when the orders in front of it, and the volume ahead of
\* those, are used up.
LEMMA UnitsFall ==
  ASSUME NEW side, NEW price \in Prices, NEW levels \in LevelSeqs, Sorted(side, levels),
         NEW after, NEW F, F \in [0..Len(levels) -> Nat], NEW N, NEW M,
         Course(side, price, levels, after, F, N, M)
  PROVE  /\ \A p \in Spots(levels) : UnitsAt(M, p) \in Nat
         /\ \A p, q \in Spots(levels) : Ahead(p, q) /\ UnitsAt(M, q) > 0 =>
              /\ PassOf(levels, M, p) = OrderAt(levels, p).qty_ahead
              /\ TakeOf(levels, M, p) = OrderAt(levels, p).remaining_qty
<1> DEFINE n == Len(levels)
           os(i) == levels[i].orders
           m(i) == Len(os(i))
<1>1. /\ n \in Nat
      /\ \A i \in 1..n : os(i) \in OrderSeqs /\ m(i) \in Nat /\ i - 1 \in 0..n /\ i \in 0..n
  BY SpotIs, OrderSeqIs
<1>2. ASSUME NEW i \in 1..n
      PROVE  Spent(os(i), M[i]) /\ M[i] \in [0..m(i) -> Nat]
  BY DEF Course, Filling, Spent
<1>3. \A i \in 1..n : \A j, k \in 0..m(i) : j <= k => M[i][k] <= M[i][j]
  BY <1>1, <1>2, SpentFalls
<1>4. \A i \in 1..n : F[i] <= F[i - 1]
  <2> SUFFICES ASSUME NEW i \in 1..n PROVE F[i] <= F[i - 1]
    OBVIOUS
  <2>1. CASE Reaches(side, price, levels[i])
    <3>1. M[i][0] = F[i - 1] /\ M[i][m(i)] = F[i]
      BY <2>1 DEF Course
    <3>2. 0 \in 0..m(i) /\ m(i) \in 0..m(i) /\ 0 <= m(i)
      BY <1>1
    <3> QED
      BY <1>3, <3>1, <3>2
  <2>2. CASE ~Reaches(side, price, levels[i])
    <3>1. F[i] = F[i - 1] /\ F[i - 1] \in Nat
      BY <1>1, <2>2 DEF Course
    <3> QED
      BY <3>1
  <2> QED
    BY <2>1, <2>2
<1>5. \A i, k \in 0..n : i <= k => F[k] <= F[i]
  BY <1>1, <1>4, Falling
<1>6. ASSUME NEW i \in 1..n, NEW k \in 1..n, i < k, NEW l \in 0..m(k), M[k][l] > 0
      PROVE  M[k][l] <= M[i][m(i)]
  <2>1. Reaches(side, price, levels[k])
    <3> SUFFICES ASSUME ~Reaches(side, price, levels[k]) PROVE FALSE
      OBVIOUS
    <3>1. M[k] = [j \in 0..m(k) |-> 0]
      BY DEF Course
    <3> QED
      BY <1>6, <3>1
  <2>2. Reaches(side, price, levels[i])
    BY <1>6, <2>1, ReachesBefore
  <2>3. M[k][0] = F[k - 1] /\ M[i][m(i)] = F[i]
    BY <2>1, <2>2 DEF Course
  <2>4. k - 1 \in 0..n /\ i \in 0..n /\ i <= k - 1 /\ 0 \in 0..m(k) /\ 0 <= l
    BY <1>1, <1>6
  <2>5. F[k - 1] <= F[i] /\ M[k][l] <= M[k][0]
    BY <1>3, <1>5, <2>4
  <2>6. F[k - 1] \in Nat /\ F[i] \in Nat /\ M[k][l] \in Nat
    BY <1>2, <2>4
  <2> QED
    BY <2>3, <2>5, <2>6
<1>7. ASSUME NEW p \in Spots(levels)
      PROVE  /\ p[1] \in 1..n /\ p[2] \in 1..m(p[1]) /\ p[2] - 1 \in 0..m(p[1])
             /\ UnitsAt(M, p) \in Nat /\ OrderAt(levels, p) \in VirtualOrder
             /\ M[p[1]][p[2]] = UnitsAt(M, p) - PassOf(levels, M, p) - TakeOf(levels, M, p)
             /\ M[p[1]][p[2]] \in Nat
  <2>1. p[1] \in 1..n /\ p[2] \in 1..m(p[1]) /\ OrderAt(levels, p) \in VirtualOrder
    BY SpotIs
  <2>2. p[2] - 1 \in 0..m(p[1]) /\ p[2] \in 0..m(p[1])
    BY <1>1, <2>1
  <2>3. M[p[1]][p[2] - 1] \in Nat /\ M[p[1]][p[2]] \in Nat
    BY <1>2, <2>1, <2>2
  <2>4. M[p[1]][p[2]] = M[p[1]][p[2] - 1] - PassAt(os(p[1]), M[p[1]])[p[2]] - TakeAt(os(p[1]), M[p[1]])[p[2]]
    BY <1>2, <2>1 DEF Spent
  <2> QED
    BY <2>1, <2>2, <2>3, <2>4 DEF UnitsAt, PassOf, TakeOf, OrderAt, PassAt, TakeAt
<1>8. ASSUME NEW p \in Spots(levels), NEW q \in Spots(levels), Ahead(p, q), UnitsAt(M, q) > 0
      PROVE  /\ PassOf(levels, M, p) = OrderAt(levels, p).qty_ahead
             /\ TakeOf(levels, M, p) = OrderAt(levels, p).remaining_qty
  <2> DEFINE o == OrderAt(levels, p)
             a == UnitsAt(M, p)
  <2>1. M[p[1]][p[2]] > 0
    <3>1. p[1] < q[1] \/ (p[1] = q[1] /\ p[2] < q[2])
      BY <1>8 DEF Ahead
    <3>2. CASE p[1] < q[1]
      <4> DEFINE i == p[1]
                 k == q[1]
                 j == p[2]
                 l == q[2] - 1
      <4>1. i \in 1..n /\ k \in 1..n /\ i < k /\ l \in 0..m(k) /\ M[k][l] > 0 /\ j \in 1..m(i)
        BY <1>7, <1>8, <3>2 DEF UnitsAt
      <4> HIDE DEF i, j, k, l
      <4>2. M[k][l] <= M[i][m(i)]
        BY <1>6, <4>1
      <4>3. m(i) \in 0..m(i) /\ j \in 0..m(i) /\ j <= m(i)
        BY <1>1, <4>1
      <4>4. M[i][m(i)] <= M[i][j] /\ M[i][j] \in Nat /\ M[i][m(i)] \in Nat /\ M[k][l] \in Nat
        BY <1>2, <1>3, <4>1, <4>3
      <4>5. M[i][j] > 0
        BY <4>1, <4>2, <4>4
      <4> QED
        BY <4>5 DEF i, j
    <3>3. CASE p[1] = q[1] /\ p[2] < q[2]
      <4> DEFINE i == p[1]
                 j == p[2]
                 l == q[2] - 1
      <4>1. i \in 1..n /\ j \in 1..m(i) /\ l \in 0..m(i) /\ M[i][l] > 0
        BY <1>7, <1>8, <3>3 DEF UnitsAt
      <4>2. j <= l
        BY <1>7, <3>3
      <4> HIDE DEF i, j, l
      <4>3. j \in 0..m(i)
        BY <1>1, <4>1
      <4>4. M[i][l] <= M[i][j] /\ M[i][l] \in Nat /\ M[i][j] \in Nat
        BY <1>2, <1>3, <4>1, <4>2, <4>3
      <4>5. M[i][j] > 0
        BY <4>1, <4>4
      <4> QED
        BY <4>5 DEF i, j
    <3> QED
      BY <3>1, <3>2, <3>3
  <2>2. o \in VirtualOrder /\ a \in Nat /\ a - Pass(o, a) - Take(o, a) > 0
    BY <1>7, <2>1 DEF PassOf, TakeOf
  <2> HIDE DEF o, a
  <2>3. Pass(o, a) = o.qty_ahead /\ Take(o, a) = o.remaining_qty
    <3> DEFINE b == a - Pass(o, a) - Take(o, a)
    <3>1. /\ Pass(o, a) \in Nat /\ Take(o, a) \in Nat /\ o.qty_ahead \in Nat /\ o.remaining_qty \in Nat
          /\ Pass(o, a) <= o.qty_ahead /\ Take(o, a) <= o.remaining_qty
          /\ Pass(o, a) < o.qty_ahead \/ Take(o, a) < o.remaining_qty => b = 0
      BY <2>2, TakenIs
    <3>2. b # 0
      BY <2>2
    <3> HIDE DEF b
    <3> QED
      BY <3>1, <3>2
  <2> QED
    BY <2>3 DEF o, a, PassOf, TakeOf
<1> QED
  BY <1>7, <1>8

\* The fills are what is taken at the places of the first m levels, in their order: the
\* k-th is that of the order at at[k].
Reports(at, levels, M, m, fills) ==
  /\ at \in [1..Len(fills) -> Spots(levels)]
  /\ \A k \in 1..Len(fills) :
       /\ at[k][1] <= m /\ TakeOf(levels, M, at[k]) > 0
       /\ fills[k] = [order_id |-> OrderAt(levels, at[k]).order_id,
                      qty |-> TakeOf(levels, M, at[k])]
  /\ \A k, l \in 1..Len(fills) : k < l => Ahead(at[k], at[l])
  /\ \A p \in Spots(levels) :
       p[1] <= m /\ TakeOf(levels, M, p) > 0 => \E k \in 1..Len(fills) : at[k] = p

\* The fills of two sequences joined.
LEMMA JoinedIs ==
  ASSUME NEW s \in FillSeqs, NEW t \in FillSeqs
  PROVE  /\ Len(s) \in Nat /\ Len(t) \in Nat /\ Len(Joined(s, t)) = Len(s) + Len(t)
         /\ \A k \in 1..Len(s) : Joined(s, t)[k] = s[k]
         /\ \A k \in 1..Len(t) : Joined(s, t)[Len(s) + k] = t[k]
<1>1. s \in Seq(FillRecord) /\ t \in Seq(FillRecord)
  BY DEF FillSeqs
<1> QED
  BY <1>1 DEF Joined

\* A level adds the fills of its own orders behind those of the levels before.
LEMMA ReportsNext ==
  ASSUME NEW levels \in LevelSeqs, NEW M, NEW i \in 1..Len(levels), NEW fills \in FillSeqs,
         NEW at, Reports(at, levels, M, i - 1, fills),
         NEW rest, NEW new, Filling(levels[i].orders, M[i], rest, new)
  PROVE  \E to : Reports(to, levels, M, i, Joined(fills, new))
<1> DEFINE os == levels[i].orders
           a == Len(fills)
           b == Len(new)
           both == Joined(fills, new)
<1>1. new \in FillSeqs
  BY DEF Filling
<1>2. /\ a \in Nat /\ b \in Nat /\ Len(both) = a + b
      /\ \A k \in 1..a : both[k] = fills[k]
      /\ \A k \in 1..b : both[a + k] = new[k]
  BY <1>1, JoinedIs
<1>3. PICK by : Selects(by, new, Len(os), TakenAt(os, M[i]), NotedAt(os, M[i]))
  BY DEF Filling, Filtered
<1>4. /\ \A k \in 1..b : /\ by[k] \in 1..Len(os) /\ by[k] \in TakenAt(os, M[i])
                         /\ new[k] = NotedAt(os, M[i])[by[k]]
      /\ \A k, l \in 1..b : k < l => by[k] < by[l]
      /\ \A j \in 1..Len(os) : j \in TakenAt(os, M[i]) => \E k \in 1..b : by[k] = j
  BY <1>3 DEF Selects
<1>5. \A j \in 1..Len(os) :
        /\ <<i, j>> \in Spots(levels)
        /\ TakeAt(os, M[i])[j] = TakeOf(levels, M, <<i, j>>)
        /\ NotedAt(os, M[i])[j] = [order_id |-> OrderAt(levels, <<i, j>>).order_id,
                                   qty |-> TakeOf(levels, M, <<i, j>>)]
        /\ (j \in TakenAt(os, M[i]) <=> TakeOf(levels, M, <<i, j>>) > 0)
  <2> SUFFICES ASSUME NEW j \in 1..Len(os)
               PROVE  /\ <<i, j>> \in Spots(levels)
                      /\ TakeAt(os, M[i])[j] = TakeOf(levels, M, <<i, j>>)
                      /\ NotedAt(os, M[i])[j] = [order_id |-> OrderAt(levels, <<i, j>>).order_id,
                                                 qty |-> TakeOf(levels, M, <<i, j>>)]
                      /\ (j \in TakenAt(os, M[i]) <=> TakeOf(levels, M, <<i, j>>) > 0)
    OBVIOUS
  <2>1. <<i, j>> \in Spots(levels) /\ OrderAt(levels, <<i, j>>) = os[j]
    BY SpotIs
  <2>2. TakeAt(os, M[i])[j] = Take(os[j], M[i][j - 1])
    BY DEF TakeAt
  <2>3. TakeOf(levels, M, <<i, j>>) = Take(os[j], M[i][j - 1])
    BY <2>1 DEF TakeOf, UnitsAt
  <2> QED
    BY <2>1, <2>2, <2>3 DEF NotedAt, TakenAt
<1> DEFINE to == [k \in 1..(a + b) |-> IF k \in 1..a THEN at[k] ELSE <<i, by[k - a]>>]
<1>6. \A k \in 1..(a + b) : k \in 1..a \/ (k - a \in 1..b /\ k = a + (k - a) /\ k \notin 1..a)
  BY <1>2
<1>7. /\ \A k \in 1..a : k \in 1..(a + b) /\ to[k] = at[k]
      /\ \A k \in 1..b : a + k \in 1..(a + b) /\ to[a + k] = <<i, by[k]>>
  <2>1. \A k \in 1..a : k \in 1..(a + b)
    BY <1>2
  <2>2. \A k \in 1..b : a + k \in 1..(a + b) /\ (a + k) - a = k /\ a + k \notin 1..a
    BY <1>2
  <2> QED
    BY <2>1, <2>2
<1>8. i \in Int /\ \A k \in 1..a : at[k] \in Spots(levels) /\ at[k][1] <= i - 1 /\ at[k][1] \in Int
  <2>1. \A k \in 1..a : at[k] \in Spots(levels) /\ at[k][1] <= i - 1
    BY DEF Reports
  <2> QED
    BY <2>1, SpotIs
<1> DEFINE Fits(k, p) ==
             /\ p \in Spots(levels) /\ p[1] <= i /\ TakeOf(levels, M, p) > 0
             /\ both[k] = [order_id |-> OrderAt(levels, p).order_id, qty |-> TakeOf(levels, M, p)]
<1>9. \A k \in 1..(a + b) : Fits(k, to[k])
  <2>1. ASSUME NEW k \in 1..a PROVE Fits(k, to[k])
    <3>1. at[k][1] <= i
      BY <1>8
    <3>2. /\ TakeOf(levels, M, at[k]) > 0
          /\ fills[k] = [order_id |-> OrderAt(levels, at[k]).order_id, qty |-> TakeOf(levels, M, at[k])]
      BY DEF Reports
    <3> HIDE DEF to, a, both
    <3> QED
      BY <1>2, <1>7, <1>8, <3>1, <3>2
  <2>2. ASSUME NEW k \in 1..b PROVE Fits(a + k, to[a + k])
    <3> DEFINE p == <<i, by[k]>>
    <3>1. by[k] \in 1..Len(os) /\ by[k] \in TakenAt(os, M[i]) /\ both[a + k] = NotedAt(os, M[i])[by[k]]
      BY <1>2, <1>4
    <3>2. p[1] = i /\ i <= i
      BY <1>8
    <3>3. Fits(a + k, p)
      BY <1>5, <3>1, <3>2
    <3>4. to[a + k] = p
      BY <1>7
    <3> HIDE DEF to, p, Fits
    <3> QED
      BY <3>3, <3>4
  <2> HIDE DEF Fits, to, a, b
  <2> QED
    BY <1>6, <2>1, <2>2
<1>10. \A k, l \in 1..(a + b) : k < l => Ahead(to[k], to[l])
  <2> SUFFICES ASSUME NEW k \in 1..(a + b), NEW l \in 1..(a + b), k < l PROVE Ahead(to[k], to[l])
    OBVIOUS
  <2>1. CASE k \in 1..a /\ l \in 1..a
    <3>1. Ahead(at[k], at[l])
      BY <2>1 DEF Reports
    <3> HIDE DEF to, a
    <3> QED
      BY <1>7, <2>1, <3>1
  <2>2. CASE k \in 1..a /\ l \notin 1..a
    <3>1. l - a \in 1..b /\ l = a + (l - a)
      BY <1>6, <2>2
    <3>2. to[k] = at[k] /\ to[l] = <<i, by[l - a]>>
      BY <1>7, <2>2, <3>1
    <3>3. at[k][1] < i
      BY <1>8, <2>2
    <3> HIDE DEF to
    <3> QED
      BY <3>2, <3>3 DEF Ahead
  <2>3. CASE k \notin 1..a
    <3>1. k - a \in 1..b /\ k = a + (k - a) /\ l - a \in 1..b /\ l = a + (l - a) /\ k - a < l - a
      BY <1>2, <1>6, <2>3
    <3>2. to[k] = <<i, by[k - a]>> /\ to[l] = <<i, by[l - a]>> /\ by[k - a] < by[l - a]
      BY <1>4, <1>7, <3>1
    <3> HIDE DEF to
    <3> QED
      BY <3>2 DEF Ahead
  <2> QED
    BY <2>1, <2>2, <2>3
<1>11. ASSUME NEW p \in Spots(levels), p[1] <= i, TakeOf(levels, M, p) > 0
       PROVE  \E k \in 1..(a + b) : to[k] = p
  <2>1. p = <<p[1], p[2]>> /\ p[1] \in Int /\ p[2] \in 1..Len(levels[p[1]].orders)
    BY SpotIs
  <2>2. CASE p[1] <= i - 1
    <3>1. \E k \in 1..a : at[k] = p
      BY <1>11, <2>2 DEF Reports
    <3> HIDE DEF to, a
    <3> QED
      BY <1>7, <3>1
  <2>3. CASE p[1] = i
    <3>1. p[2] \in 1..Len(os) /\ p = <<i, p[2]>>
      BY <2>1, <2>3
    <3>2. p[2] \in TakenAt(os, M[i])
      BY <1>5, <1>11, <3>1
    <3>3. PICK k \in 1..b : by[k] = p[2]
      BY <1>4, <3>1, <3>2
    <3>4. a + k \in 1..(a + b) /\ to[a + k] = <<i, by[k]>>
      BY <1>7
    <3> HIDE DEF to
    <3> QED
      BY <3>1, <3>3, <3>4
  <2>4. p[1] <= i - 1 \/ p[1] = i
    BY <1>8, <1>11, <2>1
  <2> QED
    BY <2>2, <2>3, <2>4
<1>12. to \in [1..(a + b) -> Spots(levels)]
  BY <1>9
<1> HIDE DEF to, a, b, both
<1>13. Reports(to, levels, M, i, both)
  BY <1>2, <1>9, <1>10, <1>11, <1>12, Zenon DEF Reports
<1> QED
  BY <1>13 DEF both

\* The fills of the whole walk, in the order of the places they are made at.
LEMMA FillsAre ==
  ASSUME NEW side, NEW price, NEW levels \in LevelSeqs, NEW size, NEW after, NEW F, NEW N, NEW M,
         Passage(side, price, levels, size, after, F, N), Course(side, price, levels, after, F, N, M)
  PROVE  \E at : Reports(at, levels, M, Len(levels), N[Len(levels)])
<1> DEFINE n == Len(levels)
           G == {i \in Nat : i <= n => \E at : Reports(at, levels, M, i, N[i])}
<1>1. n \in Nat /\ N \in [0..n -> FillSeqs] /\ N[0] = <<>>
  BY SpotIs DEF Passage
<1>2. 0 \in G
  <2> DEFINE none == [k \in {} |-> <<1, 1>>]
  <2>1. \A p \in Spots(levels) : ~(p[1] <= 0)
    BY SpotIs
  <2>2. Len(<<>>) = 0 /\ 1..0 = {}
    OBVIOUS
  <2>3. Reports(none, levels, M, 0, <<>>)
    BY <2>1, <2>2 DEF Reports
  <2> HIDE DEF none
  <2> QED
    BY <1>1, <2>3
<1>3. ASSUME NEW i \in Nat, i \in G PROVE i + 1 \in G
  <2> SUFFICES ASSUME i + 1 <= n PROVE \E at : Reports(at, levels, M, i + 1, N[i + 1])
    OBVIOUS
  <2> DEFINE k == i + 1
  <2>1. k \in 1..n /\ k - 1 = i /\ i \in 0..n /\ i <= n
    BY <1>1
  <2>2. PICK at : Reports(at, levels, M, i, N[i])
    BY <1>3, <2>1
  <2>3. N[i] \in FillSeqs
    BY <1>1, <2>1
  <2> HIDE DEF k, G
  <2>4. PICK rest, new : /\ Filling(levels[k].orders, M[k], rest, new)
                         /\ N[k] = Joined(N[k - 1], new)
    BY <2>1 DEF Course
  <2>5. k \in 1..Len(levels) /\ Reports(at, levels, M, k - 1, N[i])
    BY <2>1, <2>2
  <2>6. \E to : Reports(to, levels, M, k, Joined(N[i], new))
    BY <2>3, <2>4, <2>5, ReportsNext
  <2> QED
    BY <2>1, <2>4, <2>6 DEF k
<1> HIDE DEF G
<1>4. n \in G
  BY <1>1, <1>2, <1>3, NumberInduction
<1> QED
  BY <1>1, <1>4 DEF G

---------------------------------------------------------------------------
(* The orders of a side, and what remains of them. *)

OrdersOf(levels) == UNION {ToSet(levels[i].orders) : i \in DOMAIN levels}

\* The orders of a side are those at its places.
LEMMA OrdersAre ==
  ASSUME NEW levels \in LevelSeqs
  PROVE  OrdersOf(levels) = {OrderAt(levels, p) : p \in Spots(levels)}
<1>1. \A i \in DOMAIN levels : ToSet(levels[i].orders) = {levels[i].orders[j] : j \in DOMAIN levels[i].orders}
  BY DEF ToSet
<1>2. ASSUME NEW o, o \in OrdersOf(levels)
      PROVE  \E p \in Spots(levels) : o = OrderAt(levels, p)
  <2>1. PICK i \in DOMAIN levels : o \in ToSet(levels[i].orders)
    BY <1>2 DEF OrdersOf
  <2>2. PICK j \in DOMAIN levels[i].orders : o = levels[i].orders[j]
    BY <1>1, <2>1
  <2>3. <<i, j>> \in Spots(levels) /\ o = OrderAt(levels, <<i, j>>)
    BY <2>2 DEF Spots, OrderAt
  <2> QED
    BY <2>3
<1>3. ASSUME NEW p \in Spots(levels) PROVE OrderAt(levels, p) \in OrdersOf(levels)
  <2>1. PICK i \in DOMAIN levels : \E j \in DOMAIN levels[i].orders : p = <<i, j>>
    BY DEF Spots
  <2>2. PICK j \in DOMAIN levels[i].orders : p = <<i, j>>
    BY <2>1
  <2>3. OrderAt(levels, p) \in ToSet(levels[i].orders)
    BY <1>1, <2>2 DEF OrderAt
  <2> QED
    BY <2>3 DEF OrdersOf
<1> QED
  BY <1>2, <1>3

\* No two places of a side hold an order of the same id.
LEMMA SpotsDiffer ==
  ASSUME NEW side, NEW levels, SideGood(side, levels), NEW p \in Spots(levels), NEW q \in Spots(levels),
         OrderAt(levels, p).order_id = OrderAt(levels, q).order_id
  PROVE  p = q
<1> DEFINE i == p[1]
           k == q[1]
<1>1. /\ p = <<i, p[2]>> /\ q = <<k, q[2]>> /\ i \in DOMAIN levels /\ k \in DOMAIN levels
      /\ levels[i].orders \in OrderSeqs /\ levels[k].orders \in OrderSeqs
      /\ p[2] \in 1..Len(levels[i].orders) /\ q[2] \in 1..Len(levels[k].orders)
  BY SpotIs DEF SideGood
<1>2. /\ p[2] \in DOMAIN levels[i].orders /\ q[2] \in DOMAIN levels[k].orders
      /\ p[2] \in Int /\ q[2] \in Int
  BY <1>1, OrderSeqIs
<1>3. /\ levels[i].orders[p[2]].order_id = levels[k].orders[q[2]].order_id
      /\ levels[i].orders[p[2]].order_id \in Ids(levels[i].orders)
      /\ levels[k].orders[q[2]].order_id \in Ids(levels[k].orders)
  BY <1>2 DEF OrderAt, Ids
<1>4. i = k
  <2>1. i # k => Ids(levels[i].orders) \cap Ids(levels[k].orders) = {}
    BY <1>1 DEF SideGood, Apart
  <2> HIDE DEF i, k
  <2> QED
    BY <1>3, <2>1
<1>5. p[2] = q[2]
  <2>1. InOrder(levels[i].orders) /\ levels[i].orders \in OrderSeqs
    BY <1>1 DEF SideGood
  <2> HIDE DEF i, k
  <2>2. p[2] \in DOMAIN levels[i].orders /\ q[2] \in DOMAIN levels[i].orders
    BY <1>2, <1>4
  <2>3. \A j \in DOMAIN levels[i].orders : levels[i].orders[j].order_id \in Int
    BY <2>1, OrderSeqIs DEF VirtualOrder
  <2>4. ~(p[2] < q[2]) /\ ~(q[2] < p[2])
    BY <1>3, <1>4, <2>1, <2>2, <2>3 DEF InOrder
  <2> QED
    BY <1>2, <2>4
<1> QED
  BY <1>1, <1>4, <1>5

\* Emptied levels hold no order.
LEMMA OccupiedOrders ==
  ASSUME NEW after \in LevelSeqs
  PROVE  OrdersOf(Occupied(after)) = OrdersOf(after)
<1> DEFINE r == Occupied(after)
           n == Len(after)
<1>1. r \in LevelSeqs /\ Filtered(r, n, OccupiedAt(after), after)
  BY OccupiedIs DEF LevelSeqs
<1>2. PICK at : Selects(at, r, n, OccupiedAt(after), after)
  BY <1>1 DEF Filtered
<1>3. DOMAIN r = 1..Len(r) /\ DOMAIN after = 1..n
  BY <1>1, AppendedLevels
<1> HIDE DEF r, n
<1>4. /\ \A k \in 1..Len(r) : at[k] \in 1..n /\ r[k] = after[at[k]]
      /\ \A i \in 1..n : HasOrders(after[i]) => \E k \in 1..Len(r) : r[k] = after[i]
  BY <1>2, <1>3 DEF Selects, OccupiedAt
<1>5. \A i \in 1..n : ~HasOrders(after[i]) => ToSet(after[i].orders) = {}
  <2>1. ToSet(<<>>) = {}
    BY DEF ToSet
  <2> QED
    BY <2>1 DEF HasOrders
<1>6. OrdersOf(r) \subseteq OrdersOf(after)
  BY <1>3, <1>4 DEF OrdersOf
<1>7. OrdersOf(after) \subseteq OrdersOf(r)
  <2> SUFFICES ASSUME NEW i \in 1..n, NEW o \in ToSet(after[i].orders) PROVE o \in OrdersOf(r)
    BY <1>3 DEF OrdersOf
  <2>1. HasOrders(after[i])
    BY <1>5
  <2>2. PICK k \in 1..Len(r) : r[k] = after[i]
    BY <1>4, <2>1
  <2> QED
    BY <1>3, <2>2 DEF OrdersOf
<1> QED
  BY <1>6, <1>7 DEF r

\* What remains of the order at a place.
RestOf(levels, M, p) ==
  Less(OrderAt(levels, p), PassOf(levels, M, p), TakeOf(levels, M, p))
OpenSpots(levels, M) ==
  {p \in Spots(levels) : OrderAt(levels, p).remaining_qty - TakeOf(levels, M, p) > 0}

\* The orders that a fill leaves.
LEMMA FilledOrders ==
  ASSUME NEW side, NEW price, NEW levels \in LevelSeqs, NEW after \in LevelSeqs,
         Len(after) = Len(levels), NEW F, NEW N, NEW M, Course(side, price, levels, after, F, N, M)
  PROVE  OrdersOf(after) = {RestOf(levels, M, p) : p \in OpenSpots(levels, M)}
<1> DEFINE n == Len(levels)
           os(i) == levels[i].orders
           Open(i) == OpenAt(os(i), M[i])
           Rest(i) == LessAt(os(i), M[i])
<1>1. DOMAIN after = 1..n /\ DOMAIN levels = 1..n /\ \A i \in 1..n : os(i) \in OrderSeqs
  BY AppendedLevels, SpotIs
<1>2. ASSUME NEW i \in 1..n PROVE ToSet(after[i].orders) = {Rest(i)[j] : j \in Open(i)}
  <2>1. PICK rest, new : Filling(os(i), M[i], rest, new) /\ after[i].orders = rest
    BY DEF Course
  <2>2. PICK at : Selects(at, rest, Len(os(i)), Open(i), Rest(i))
    BY <2>1 DEF Filling, Filtered
  <2>3. DOMAIN rest = 1..Len(rest)
    BY <2>1, OrderSeqIs DEF Filling
  <2>4. ToSet(rest) = {rest[k] : k \in 1..Len(rest)}
    BY <2>3 DEF ToSet
  <2>5. \A j \in Open(i) : j \in 1..Len(os(i))
    BY DEF OpenAt
  <2> HIDE DEF Open, Rest
  <2>6. \A k \in 1..Len(rest) : at[k] \in Open(i) /\ rest[k] = Rest(i)[at[k]]
    BY <2>2 DEF Selects
  <2>7. \A j \in Open(i) : \E k \in 1..Len(rest) : rest[k] = Rest(i)[j]
    BY <2>2, <2>5 DEF Selects
  <2>8. {rest[k] : k \in 1..Len(rest)} = {Rest(i)[j] : j \in Open(i)}
    BY <2>6, <2>7
  <2> QED
    BY <2>1, <2>4, <2>8
<1>3. ASSUME NEW i \in 1..n, NEW j \in 1..Len(os(i))
      PROVE  /\ <<i, j>> \in Spots(levels) /\ Rest(i)[j] = RestOf(levels, M, <<i, j>>)
             /\ (j \in Open(i) <=> <<i, j>> \in OpenSpots(levels, M))
  <2>1. <<i, j>> \in Spots(levels) /\ OrderAt(levels, <<i, j>>) = os(i)[j]
    BY SpotIs
  <2>2. /\ TakeAt(os(i), M[i])[j] = TakeOf(levels, M, <<i, j>>)
        /\ PassAt(os(i), M[i])[j] = PassOf(levels, M, <<i, j>>)
    BY <2>1 DEF TakeAt, PassAt, TakeOf, PassOf, UnitsAt
  <2> QED
    BY <2>1, <2>2 DEF LessAt, RestOf, OpenAt, OpenSpots
<1>4. \A i \in 1..n : \A j \in Open(i) : j \in 1..Len(os(i))
  BY DEF OpenAt
<1> HIDE DEF Open, Rest
<1>5. \A i \in 1..n : \A o \in ToSet(after[i].orders) :
        \E p \in OpenSpots(levels, M) : o = RestOf(levels, M, p)
  <2> SUFFICES ASSUME NEW i \in 1..n, NEW o \in ToSet(after[i].orders)
               PROVE  \E p \in OpenSpots(levels, M) : o = RestOf(levels, M, p)
    OBVIOUS
  <2>1. PICK j \in Open(i) : o = Rest(i)[j]
    BY <1>2
  <2>2. <<i, j>> \in OpenSpots(levels, M) /\ Rest(i)[j] = RestOf(levels, M, <<i, j>>)
    BY <1>3, <1>4, <2>1
  <2> QED
    BY <2>1, <2>2
<1>6. ASSUME NEW p \in OpenSpots(levels, M)
      PROVE  \E i \in 1..n : RestOf(levels, M, p) \in ToSet(after[i].orders)
  <2>1. p \in Spots(levels)
    BY DEF OpenSpots
  <2>2. p = <<p[1], p[2]>> /\ p[1] \in 1..n /\ p[2] \in 1..Len(os(p[1]))
    BY <2>1, SpotIs
  <2>3. p[2] \in Open(p[1]) /\ RestOf(levels, M, p) = Rest(p[1])[p[2]]
    BY <1>3, <2>2
  <2> QED
    BY <1>2, <2>2, <2>3
<1>7. OrdersOf(after) \subseteq {RestOf(levels, M, p) : p \in OpenSpots(levels, M)}
  BY <1>1, <1>5 DEF OrdersOf
<1>8. ASSUME NEW p \in OpenSpots(levels, M) PROVE RestOf(levels, M, p) \in OrdersOf(after)
  BY <1>1, <1>6 DEF OrdersOf
<1> QED
  BY <1>7, <1>8

---------------------------------------------------------------------------
(* What remains of the order with an id. *)

Dues(levels) == {<<o.order_id, o.remaining_qty>> : o \in OrdersOf(levels)}

\* What remains of some orders, as a sum.
LEMMA RemainingSum ==
  ASSUME NEW S, IsFiniteSet(S), \A o \in S : o.remaining_qty \in Int
  PROVE  MapThenSumSet(LAMBDA o : o.remaining_qty, S) = SumOver([o \in S |-> o.remaining_qty], S)
<1> DEFINE w == [o \in S |-> o.remaining_qty]
           f == CHOOSE g : g = [T \in SUBSET S |-> IF T = {} THEN 0
                  ELSE (CHOOSE x \in T : TRUE).remaining_qty + g[T \ {CHOOSE x \in T : TRUE}]]
<1>1. Weighs(w, S)
  BY DEF Weighs
<1>2. MapThenSumSet(LAMBDA o : o.remaining_qty, S) = f[S]
  BY DEF MapThenSumSet, MapThenFoldSet
<1>3. \A T \in SUBSET S : T # {} => w[CHOOSE x \in T : TRUE] = (CHOOSE x \in T : TRUE).remaining_qty
  OBVIOUS
<1> HIDE DEF w
<1>4. PICK g : Unfolds(g, w, S)
  BY <1>1, SumUnfolds
<1>5. g = [T \in SUBSET S |-> IF T = {} THEN 0
             ELSE (CHOOSE x \in T : TRUE).remaining_qty + g[T \ {CHOOSE x \in T : TRUE}]]
  BY <1>3, <1>4 DEF Unfolds
<1>6. f = [T \in SUBSET S |-> IF T = {} THEN 0
             ELSE (CHOOSE x \in T : TRUE).remaining_qty + f[T \ {CHOOSE x \in T : TRUE}]]
  BY <1>5 DEF f
<1> HIDE DEF f
<1>7. Unfolds(f, w, S)
  BY <1>3, <1>6 DEF Unfolds
<1>8. f[S] = SumOver(w, S)
  BY <1>1, <1>7, SumUnfolds
<1> QED
  BY <1>2, <1>8 DEF w

\* A sum of one weight.
LEMMA SumOfOne ==
  ASSUME NEW x, NEW w, w[x] \in Int
  PROVE  IsFiniteSet({x}) /\ SumOver(w, {x}) = w[x]
<1>1. IsFiniteSet({x}) /\ Weighs(w, {x})
  BY FS_Singleton DEF Weighs
<1>2. SumOver(w, {x}) = w[x] + SumOver(w, {x} \ {x})
  BY <1>1, SumWithout
<1>3. {x} \ {x} = {}
  OBVIOUS
<1> QED
  BY <1>1, <1>2, <1>3, SumOfNone

\* What remains of an id is what is due of it, at the one place where it rests.
LEMMA RemainingIs ==
  ASSUME NEW x, NEW id, \A side \in Sides : SideGood(side, x[side]),
         SideIds(x["Bid"]) \cap SideIds(x["Ask"]) = {}
  PROVE  /\ \A side \in Sides : \A r : <<id, r>> \in Dues(x[side]) => RemainingIn(x, id) = r /\ r \in Nat \ {0}
         /\ (\A side \in Sides : \A r : <<id, r>> \notin Dues(x[side])) => RemainingIn(x, id) = 0
<1> DEFINE S == {o \in Resting(x, "Bid") \cup Resting(x, "Ask") : o.order_id = id}
<1>1. "Bid" \in Sides /\ "Ask" \in Sides /\ \A side \in Sides : side = "Bid" \/ side = "Ask"
  BY DEF Sides
<1>2. \A side \in Sides : x[side] \in LevelSeqs
  BY DEF SideGood
<1>3. Resting(x, "Bid") = OrdersOf(x["Bid"]) /\ Resting(x, "Ask") = OrdersOf(x["Ask"])
  BY DEF Resting, OrdersOf
<1>4. RemainingIn(x, id) = MapThenSumSet(LAMBDA o : o.remaining_qty, S)
  BY Zenon DEF RemainingIn
<1>5. \A side \in Sides : \A o \in OrdersOf(x[side]) : o.remaining_qty \in Nat \ {0}
  <2>1. \A side \in Sides : \A o \in OrdersOf(x[side]) : o \in VirtualOrder
    BY <1>2, OrdersAre, SpotIs
  <2> QED
    BY <2>1 DEF VirtualOrder
<1>6. ASSUME NEW side \in Sides, NEW o \in OrdersOf(x[side]), o.order_id = id
      PROVE  S = {o}
  <2>1. ASSUME NEW other \in Sides, NEW q \in OrdersOf(x[other]), q.order_id = id PROVE q = o
    <3>1. ASSUME NEW s \in Sides, NEW u \in OrdersOf(x[s]), u.order_id = id PROVE id \in SideIds(x[s])
      <4>1. PICK p \in Spots(x[s]) : u = OrderAt(x[s], p)
        BY <1>2, <3>1, OrdersAre
      <4>2. p[1] \in DOMAIN x[s] /\ p[2] \in DOMAIN x[s][p[1]].orders
        BY DEF Spots
      <4> QED
        BY <3>1, <4>1, <4>2 DEF OrderAt, SideIds, Ids
    <3>2. id \in SideIds(x[side]) /\ id \in SideIds(x[other])
      BY <1>6, <2>1, <3>1
    <3>3. other = side
      BY <1>1, <3>2
    <3>4. PICK p \in Spots(x[side]) : o = OrderAt(x[side], p)
      BY <1>2, OrdersAre
    <3>5. PICK t \in Spots(x[side]) : q = OrderAt(x[side], t)
      BY <1>2, <3>3, OrdersAre
    <3>6. p = t
      BY <1>6, <2>1, <3>4, <3>5, SpotsDiffer
    <3> QED
      BY <3>4, <3>5, <3>6
  <2>2. o \in S
    BY <1>1, <1>3, <1>6
  <2>3. \A q \in S : q = o
    BY <1>1, <1>3, <2>1
  <2> QED
    BY <2>2, <2>3
<1>7. ASSUME NEW side \in Sides, NEW r, <<id, r>> \in Dues(x[side])
      PROVE  RemainingIn(x, id) = r /\ r \in Nat \ {0}
  <2>1. PICK o \in OrdersOf(x[side]) : o.order_id = id /\ o.remaining_qty = r
    BY <1>7 DEF Dues
  <2>2. S = {o} /\ r \in Nat \ {0}
    BY <1>5, <1>6, <2>1
  <2> HIDE DEF S
  <2> DEFINE w == [u \in S |-> u.remaining_qty]
  <2>3. w[o] = r /\ w[o] \in Int
    BY <2>1, <2>2
  <2>4. \A u \in S : u.remaining_qty \in Int
    BY <2>1, <2>2
  <2>5. IsFiniteSet(S) /\ SumOver(w, S) = r
    <3> HIDE DEF w
    <3>1. IsFiniteSet({o}) /\ SumOver(w, {o}) = w[o]
      BY <2>3, SumOfOne
    <3> QED
      BY <2>2, <2>3, <3>1
  <2>6. MapThenSumSet(LAMBDA u : u.remaining_qty, S) = SumOver(w, S)
    BY <2>4, <2>5, RemainingSum, Zenon
  <2>7. RemainingIn(x, id) = SumOver(w, S)
    BY <1>4, <2>6, Zenon
  <2> QED
    BY <2>2, <2>5, <2>7
<1>8. ASSUME \A side \in Sides : \A r : <<id, r>> \notin Dues(x[side])
      PROVE  RemainingIn(x, id) = 0
  <2>1. S = {}
    <3> SUFFICES ASSUME NEW o \in S PROVE FALSE
      OBVIOUS
    <3>1. PICK side \in Sides : o \in OrdersOf(x[side])
      BY <1>1, <1>3
    <3>2. <<id, o.remaining_qty>> \in Dues(x[side])
      BY <3>1 DEF Dues
    <3> QED
      BY <1>8, <3>2
  <2> HIDE DEF S
  <2> DEFINE w == [u \in S |-> u.remaining_qty]
  <2>2. IsFiniteSet(S) /\ \A u \in S : u.remaining_qty \in Int
    BY <2>1, FS_EmptySet
  <2>3. MapThenSumSet(LAMBDA u : u.remaining_qty, S) = SumOver(w, S)
    BY <2>2, RemainingSum, Zenon
  <2>4. RemainingIn(x, id) = SumOver(w, S)
    BY <1>4, <2>3, Zenon
  <2>5. SumOver(w, {}) = 0
    <3> HIDE DEF w
    <3> QED
      BY SumOfNone
  <2> QED
    BY <2>1, <2>4, <2>5
<1> QED
  BY <1>7, <1>8

---------------------------------------------------------------------------
(* What a fill does to a side, in one place. *)

\* Units meet every order; those behind an order come to it only when it is used up; the
\* fills are reported in that order; the orders that are not filled remain.
Trades(levels, M, at, fills, after) ==
  /\ \A p \in Spots(levels) : UnitsAt(M, p) \in Nat
  /\ \A p, q \in Spots(levels) : Ahead(p, q) /\ UnitsAt(M, q) > 0 =>
       /\ PassOf(levels, M, p) = OrderAt(levels, p).qty_ahead
       /\ TakeOf(levels, M, p) = OrderAt(levels, p).remaining_qty
  /\ Reports(at, levels, M, Len(levels), fills) /\ fills \in FillSeqs
  /\ OrdersOf(after) = {RestOf(levels, M, p) : p \in OpenSpots(levels, M)}

\* Every fill of a good side does so.
LEMMA FillTrades ==
  ASSUME NEW x, NEW side, NEW price \in Prices, NEW size \in Nat, SideGood(side, x[side])
  PROVE  \E M, at : Trades(x[side], M, at, FillWalk(x, side, price, size).fills,
                           Occupied(FillWalk(x, side, price, size).levels))
<1> DEFINE levels == x[side]
           n == Len(levels)
           after == FillWalk(x, side, price, size).levels
           fills == FillWalk(x, side, price, size).fills
<1>1. levels \in LevelSeqs /\ Sorted(side, levels) /\ n \in Nat
  BY AppendedLevels DEF SideGood
<1>2. PICK F, N : Passage(side, price, levels, size, after, F, N) /\ fills = N[n]
  BY <1>1, SideWalk
<1> HIDE DEF levels, after, fills
<1>3. PICK M : Course(side, price, levels, after, F, N, M)
  BY <1>1, <1>2, CourseIs
<1>4. /\ after \in LevelSeqs /\ Len(after) = Len(levels) /\ F \in [0..Len(levels) -> Nat]
      /\ N \in [0..n -> FillSeqs]
  BY <1>2 DEF Passage
<1>5. PICK at : Reports(at, levels, M, Len(levels), N[Len(levels)])
  BY <1>1, <1>2, <1>3, FillsAre
<1>6. fills \in FillSeqs
  BY <1>1, <1>2, <1>4
<1>7. /\ \A p \in Spots(levels) : UnitsAt(M, p) \in Nat
      /\ \A p, q \in Spots(levels) : Ahead(p, q) /\ UnitsAt(M, q) > 0 =>
           /\ PassOf(levels, M, p) = OrderAt(levels, p).qty_ahead
           /\ TakeOf(levels, M, p) = OrderAt(levels, p).remaining_qty
  BY <1>1, <1>3, <1>4, UnitsFall
<1>8. OrdersOf(Occupied(after)) = {RestOf(levels, M, p) : p \in OpenSpots(levels, M)}
  <2>1. OrdersOf(Occupied(after)) = OrdersOf(after)
    BY <1>4, OccupiedOrders
  <2>2. OrdersOf(after) = {RestOf(levels, M, p) : p \in OpenSpots(levels, M)}
    BY <1>1, <1>3, <1>4, FilledOrders
  <2> QED
    BY <2>1, <2>2
<1>9. Trades(levels, M, at, fills, Occupied(after))
  BY <1>2, <1>5, <1>6, <1>7, <1>8 DEF Trades
<1> QED
  BY <1>9 DEF levels, after, fills

\* What is taken at a place, and what remains there.
LEMMA TakeIs ==
  ASSUME NEW levels \in LevelSeqs, NEW M, NEW p \in Spots(levels), UnitsAt(M, p) \in Nat
  PROVE  LET o == OrderAt(levels, p)
         IN  /\ o.qty_ahead \in Nat /\ o.remaining_qty \in Nat \ {0}
             /\ PassOf(levels, M, p) \in Nat /\ TakeOf(levels, M, p) \in Nat
             /\ PassOf(levels, M, p) <= o.qty_ahead /\ TakeOf(levels, M, p) <= o.remaining_qty
             /\ TakeOf(levels, M, p) > 0 =>
                  UnitsAt(M, p) > 0 /\ PassOf(levels, M, p) = o.qty_ahead
             /\ RestOf(levels, M, p).order_id = o.order_id
             /\ RestOf(levels, M, p).qty_ahead = o.qty_ahead - PassOf(levels, M, p)
             /\ RestOf(levels, M, p).remaining_qty = o.remaining_qty - TakeOf(levels, M, p)
<1> DEFINE o == OrderAt(levels, p)
           a == UnitsAt(M, p)
<1>1. o \in VirtualOrder /\ a \in Nat
  BY SpotIs
<1>2. PassOf(levels, M, p) = Pass(o, a) /\ TakeOf(levels, M, p) = Take(o, a)
      /\ RestOf(levels, M, p) = Less(o, Pass(o, a), Take(o, a))
  BY DEF PassOf, TakeOf, RestOf
<1> HIDE DEF o, a
<1>3. o.remaining_qty \in Nat \ {0}
  BY <1>1 DEF VirtualOrder
<1>4. /\ Pass(o, a) \in Nat /\ Take(o, a) \in Nat /\ o.qty_ahead \in Nat
      /\ Pass(o, a) <= o.qty_ahead /\ Take(o, a) <= o.remaining_qty
      /\ Take(o, a) > 0 => Pass(o, a) = o.qty_ahead
      /\ a = 0 => Take(o, a) = 0
  BY <1>1, TakenIs
<1>5. Take(o, a) > 0 => a > 0
  BY <1>1, <1>4
<1>6. /\ Less(o, Pass(o, a), Take(o, a)).order_id = o.order_id
      /\ Less(o, Pass(o, a), Take(o, a)).qty_ahead = o.qty_ahead - Pass(o, a)
      /\ Less(o, Pass(o, a), Take(o, a)).remaining_qty = o.remaining_qty - Take(o, a)
  BY DEF Less
<1> QED
  BY <1>2, <1>3, <1>4, <1>5, <1>6 DEF o, a

\* The acknowledgement of the k-th fill.
AckAt(fills, price, k) ==
  Sent({}, 0, InboundLatency, k - 1, AckFill(fills[k].order_id, fills[k].qty, price))
Acks(fills, price) == {AckAt(fills, price, k) : k \in 1..Len(fills)}

\* The acknowledgements are numbered in the order of the fills they are of.
Answers(fills, price) ==
  \A k \in 1..Len(fills) : /\ AckAt(fills, price, k).sequence_number = k - 1
                           /\ AckAt(fills, price, k).payload.order_id = fills[k].order_id
                           /\ AckAt(fills, price, k).payload.filled_qty = fills[k].qty

\* The acknowledgements of a fill are numbered in the order of its fills.
LEMMA AcksAre ==
  ASSUME NEW x, NEW side, NEW price, NEW size,
         FillWalk(x, side, price, size).fills \in FillSeqs
  PROVE  LET fills == FillWalk(x, side, price, size).fills
         IN  FillAcks(x, {}, 0, side, price, size) = Acks(fills, price) /\ Answers(fills, price)
<1> DEFINE fills == FillWalk(x, side, price, size).fills
<1>1. DOMAIN fills = 1..Len(fills) /\ Len(fills) \in Nat
  BY DEF FillSeqs
<1>2. FillAcks(x, {}, 0, side, price, size) = {AckAt(fills, price, k) : k \in DOMAIN fills}
  BY DEF FillAcks, AckAt
<1> HIDE DEF fills
<1>3. NextSeq({}, 0 + InboundLatency) = 0
  BY DEF NextSeq
<1>4. ASSUME NEW k \in 1..Len(fills)
      PROVE  /\ AckAt(fills, price, k).sequence_number = k - 1
             /\ AckAt(fills, price, k).payload.order_id = fills[k].order_id
             /\ AckAt(fills, price, k).payload.filled_qty = fills[k].qty
  BY <1>1, <1>3 DEF AckAt, Sent, AckFill
<1> QED
  BY <1>1, <1>2, <1>4 DEF fills, Acks, Answers

\* The acknowledgements of an order's id are those of the fill at its place.
LEMMA AcksOfPlace ==
  ASSUME NEW side, NEW levels, SideGood(side, levels), NEW M, NEW at, NEW fills,
         Reports(at, levels, M, Len(levels), fills), NEW price, Answers(fills, price)
  PROVE  /\ \A p \in Spots(levels) : \A e :
              e \in AcksOf(Acks(fills, price), OrderAt(levels, p).order_id)
                <=> \E k \in 1..Len(fills) : at[k] = p /\ e = AckAt(fills, price, k)
         /\ \A id : (\A p \in Spots(levels) : OrderAt(levels, p).order_id # id)
              => AcksOf(Acks(fills, price), id) = {}
<1>1. \A k \in 1..Len(fills) : /\ at[k] \in Spots(levels)
                               /\ fills[k].order_id = OrderAt(levels, at[k]).order_id
  <2> SUFFICES ASSUME NEW k \in 1..Len(fills)
               PROVE  at[k] \in Spots(levels) /\ fills[k].order_id = OrderAt(levels, at[k]).order_id
    OBVIOUS
  <2>1. at \in [1..Len(fills) -> Spots(levels)]
    BY DEF Reports
  <2>2. fills[k] = [order_id |-> OrderAt(levels, at[k]).order_id, qty |-> TakeOf(levels, M, at[k])]
    BY DEF Reports
  <2> QED
    BY <2>1, <2>2
<1>2. \A p, q \in Spots(levels) : OrderAt(levels, p).order_id = OrderAt(levels, q).order_id => p = q
  BY SpotsDiffer
<1>3. \A id, e : e \in AcksOf(Acks(fills, price), id)
        <=> \E k \in 1..Len(fills) : /\ OrderAt(levels, at[k]).order_id = id
                                      /\ e = AckAt(fills, price, k)
  BY <1>1 DEF AcksOf, Acks, Answers
<1>4. \A p \in Spots(levels), k \in 1..Len(fills) :
        OrderAt(levels, at[k]).order_id = OrderAt(levels, p).order_id <=> at[k] = p
  BY <1>1, <1>2
<1>5. ASSUME NEW p \in Spots(levels), NEW e
      PROVE  e \in AcksOf(Acks(fills, price), OrderAt(levels, p).order_id)
               <=> \E k \in 1..Len(fills) : at[k] = p /\ e = AckAt(fills, price, k)
  BY <1>3, <1>4
<1>6. ASSUME NEW id, \A p \in Spots(levels) : OrderAt(levels, p).order_id # id
      PROVE  AcksOf(Acks(fills, price), id) = {}
  <2>1. \A e : e \notin AcksOf(Acks(fills, price), id)
    BY <1>1, <1>3, <1>6
  <2> QED
    BY <2>1
<1> QED
  BY <1>5, <1>6

---------------------------------------------------------------------------
(* Price-time priority. *)

\* What PriceTimePriority says of a step.
Priority ==
  LET side == call'.side
      front(p) == AcksOf(acks', At(vx, side, p).order_id)
  IN  \A q \in {p \in Places(vx, side) : front(p) # {}} :
        /\ \A p \in Places(vx, side) : Ahead(p, q) =>
             /\ RemainingIn(vx', At(vx, side, p).order_id) = 0
             /\ \A e \in front(p), f \in front(q) : e.sequence_number < f.sequence_number
        /\ \A o \in Resting(vx', side) :
             o.order_id = At(vx, side, q).order_id => o.qty_ahead = 0

\* What a fill does to the side it is on, and that it leaves the other alone.
LEMMA FillIs ==
  ASSUME IInv, NEW side \in Sides, NEW price \in Prices, NEW size \in FillSizes,
         vx' = OnFill(vx, side, price, size), acks' = FillAcks(vx, {}, 0, side, price, size)
  PROVE  /\ \E M, at, fills :
              /\ Trades(vx[side], M, at, fills, vx'[side])
              /\ acks' = Acks(fills, price) /\ Answers(fills, price)
         /\ \A other \in Sides : other # side => vx'[other] = vx[other]
         /\ SideGood(side, vx[side])
<1>1. vx \in [Sides -> LevelSeqs] /\ SideGood(side, vx[side]) /\ size \in Nat
  BY ClientAssumption DEF IInv, BothGood
<1> DEFINE fills == FillWalk(vx, side, price, size).fills
           after == Occupied(FillWalk(vx, side, price, size).levels)
<1>2. PICK M, at : Trades(vx[side], M, at, fills, after)
  BY <1>1, FillTrades
<1>3. vx' = [vx EXCEPT ![side] = after]
  BY DEF OnFill
<1>4. fills \in FillSeqs
  BY <1>2 DEF Trades
<1>5. acks' = Acks(fills, price) /\ Answers(fills, price)
  BY <1>4, AcksAre
<1> HIDE DEF fills, after
<1>6. vx'[side] = after /\ \A other \in Sides : other # side => vx'[other] = vx[other]
  BY <1>1, <1>3
<1> QED
  BY <1>1, <1>2, <1>5, <1>6

\* The orders of the two sides have different ids.
LEMMA OtherIds ==
  ASSUME NEW x, \A side \in Sides : SideGood(side, x[side]),
         NEW side \in Sides, NEW p \in Spots(x[side])
  PROVE  OrderAt(x[side], p).order_id \in SideIds(x[side])
<1>1. p[1] \in DOMAIN x[side] /\ p[2] \in DOMAIN x[side][p[1]].orders
  BY DEF Spots
<1> QED
  BY <1>1 DEF OrderAt, SideIds, Ids

\* What is due of an id is due of an order on that side.
LEMMA DueIds ==
  ASSUME NEW levels \in LevelSeqs, NEW id, NEW r
  PROVE  <<id, r>> \in Dues(levels) <=>
           \E p \in Spots(levels) : OrderAt(levels, p).order_id = id /\ OrderAt(levels, p).remaining_qty = r
<1>1. OrdersOf(levels) = {OrderAt(levels, p) : p \in Spots(levels)}
  BY OrdersAre
<1>2. <<id, r>> \in Dues(levels) <=> \E o \in OrdersOf(levels) : o.order_id = id /\ o.remaining_qty = r
  BY DEF Dues
<1> QED
  BY <1>1, <1>2

\* What is due after a fill.
LEMMA FilledDues ==
  ASSUME NEW levels \in LevelSeqs, NEW M, NEW at, NEW fills, NEW after,
         Trades(levels, M, at, fills, after), NEW id, NEW r
  PROVE  <<id, r>> \in Dues(after) <=>
           \E p \in Spots(levels) : /\ OrderAt(levels, p).order_id = id
                                    /\ r = OrderAt(levels, p).remaining_qty - TakeOf(levels, M, p)
                                    /\ r > 0
<1>1. OrdersOf(after) = {RestOf(levels, M, p) : p \in OpenSpots(levels, M)}
  BY DEF Trades
<1>2. <<id, r>> \in Dues(after) <=> \E o \in OrdersOf(after) : o.order_id = id /\ o.remaining_qty = r
  BY DEF Dues
<1>3. \A p \in Spots(levels) :
        /\ RestOf(levels, M, p).order_id = OrderAt(levels, p).order_id
        /\ RestOf(levels, M, p).remaining_qty = OrderAt(levels, p).remaining_qty - TakeOf(levels, M, p)
  BY DEF RestOf, Less
<1> QED
  BY <1>1, <1>2, <1>3 DEF OpenSpots

\* A fill keeps the priority of the orders.
LEMMA FillKeepsPriority ==
  IInv /\ IInv' /\ Fill => Priority
<1> SUFFICES ASSUME IInv, IInv', Fill PROVE Priority
  OBVIOUS
<1>1. PICK side \in Sides, price \in Prices, size \in FillSizes :
        /\ call'.side = side
        /\ vx' = OnFill(vx, side, price, size) /\ acks' = FillAcks(vx, {}, 0, side, price, size)
  BY DEF Fill
<1> DEFINE levels == vx[side]
           now == vx'[side]
<1>2. PICK M, at, fills :
        /\ Trades(levels, M, at, fills, now)
        /\ acks' = Acks(fills, price) /\ Answers(fills, price)
  BY <1>1, FillIs
<1>3. /\ \A other \in Sides : other # side => vx'[other] = vx[other]
      /\ SideGood(side, levels) /\ levels \in LevelSeqs
  BY <1>1, FillIs DEF SideGood
<1>4. \A s \in Sides : SideGood(s, vx[s]) /\ SideGood(s, vx'[s])
  BY DEF IInv, BothGood
<1>5. SideIds(vx["Bid"]) \cap SideIds(vx["Ask"]) = {} /\ SideIds(vx'["Bid"]) \cap SideIds(vx'["Ask"]) = {}
  BY DEF IInv
<1>6. /\ Places(vx, side) = Spots(levels) /\ Resting(vx', side) = OrdersOf(now)
      /\ \A p : At(vx, side, p) = OrderAt(levels, p)
  BY DEF Places, Spots, Resting, OrdersOf, At, OrderAt
<1> HIDE DEF levels, now
<1> DEFINE front(p) == AcksOf(acks', OrderAt(levels, p).order_id)
<1>7. \A p \in Spots(levels) : \A e :
        e \in front(p) <=> \E k \in 1..Len(fills) : at[k] = p /\ e = AckAt(fills, price, k)
  <2>1. Reports(at, levels, M, Len(levels), fills) /\ Answers(fills, price) /\ SideGood(side, levels)
    BY <1>2, <1>3 DEF Trades
  <2>2. \A p \in Spots(levels) : \A e :
          e \in AcksOf(Acks(fills, price), OrderAt(levels, p).order_id)
            <=> \E k \in 1..Len(fills) : at[k] = p /\ e = AckAt(fills, price, k)
    BY <2>1, AcksOfPlace
  <2> QED
    BY <1>2, <2>2
<1> HIDE DEF front
<1>8. \A p \in Spots(levels) : front(p) # {} => TakeOf(levels, M, p) > 0
  <2>1. \A k \in 1..Len(fills) : TakeOf(levels, M, at[k]) > 0
    BY <1>2 DEF Trades, Reports
  <2> QED
    BY <1>7, <2>1
<1>9. \A p \in Spots(levels) : UnitsAt(M, p) \in Nat
  BY <1>2 DEF Trades
<1>10. ASSUME NEW q \in Spots(levels), front(q) # {}, NEW p \in Spots(levels), Ahead(p, q)
       PROVE  RemainingIn(vx', OrderAt(levels, p).order_id) = 0
  <2> DEFINE id == OrderAt(levels, p).order_id
  <2>1. UnitsAt(M, q) > 0
    BY <1>3, <1>8, <1>9, <1>10, TakeIs
  <2>2. TakeOf(levels, M, p) = OrderAt(levels, p).remaining_qty
    BY <1>2, <1>10, <2>1 DEF Trades
  <2>3. \A t \in Spots(levels) : OrderAt(levels, t).order_id = id => t = p
    BY <1>3, SpotsDiffer
  <2>4. OrderAt(levels, p).remaining_qty \in Nat
    BY <1>3, <1>9, TakeIs
  <2>5. id \in SideIds(levels)
    BY <1>4, OtherIds DEF levels
  <2> HIDE DEF id
  <2>6. ASSUME NEW s \in Sides, NEW r, <<id, r>> \in Dues(vx'[s]) PROVE FALSE
    <3>1. CASE s = side
      <4>1. <<id, r>> \in Dues(now)
        BY <2>6, <3>1 DEF now
      <4>2. PICK t \in Spots(levels) : /\ OrderAt(levels, t).order_id = id
                                       /\ r = OrderAt(levels, t).remaining_qty - TakeOf(levels, M, t)
                                       /\ r > 0
        BY <1>2, <1>3, <4>1, FilledDues
      <4>3. t = p
        BY <2>3, <4>2
      <4> QED
        BY <2>2, <2>4, <4>2, <4>3
    <3>2. CASE s # side
      <4>1. vx'[s] = vx[s] /\ vx[s] \in LevelSeqs
        BY <1>3, <1>4, <3>2 DEF SideGood
      <4>2. PICK t \in Spots(vx[s]) : OrderAt(vx[s], t).order_id = id
        BY <2>6, <4>1, DueIds
      <4>3. id \in SideIds(vx[s])
        BY <1>4, <4>2, OtherIds
      <4> QED
        BY <1>5, <2>5, <3>2, <4>3 DEF Sides, levels
    <3> QED
      BY <3>1, <3>2
  <2>7. RemainingIn(vx', id) = 0
    BY <1>4, <1>5, <2>6, RemainingIs
  <2> QED
    BY <2>7 DEF id
<1>11. ASSUME NEW q \in Spots(levels), NEW p \in Spots(levels), Ahead(p, q),
              NEW e \in front(p), NEW f \in front(q)
       PROVE  e.sequence_number < f.sequence_number
  <2>1. PICK k \in 1..Len(fills) : at[k] = p /\ e = AckAt(fills, price, k)
    BY <1>7
  <2>2. PICK l \in 1..Len(fills) : at[l] = q /\ f = AckAt(fills, price, l)
    BY <1>7
  <2>3. p[1] \in Int /\ p[2] \in Int /\ q[1] \in Int /\ q[2] \in Int
    BY <1>3, SpotIs
  <2>4. ~Ahead(q, p) /\ p # q
    BY <1>11, <2>3 DEF Ahead
  <2>5. \A i, j \in 1..Len(fills) : i < j => Ahead(at[i], at[j])
    BY <1>2 DEF Trades, Reports
  <2>6. k < l
    <3>1. k # l /\ ~(l < k)
      BY <2>1, <2>2, <2>4, <2>5
    <3> QED
      BY <3>1
  <2> QED
    BY <1>2, <2>1, <2>2, <2>6 DEF Answers
<1>12. ASSUME NEW q \in Spots(levels), front(q) # {},
              NEW o \in OrdersOf(now), o.order_id = OrderAt(levels, q).order_id
       PROVE  o.qty_ahead = 0
  <2>1. PICK p \in Spots(levels) : o = RestOf(levels, M, p)
    BY <1>2 DEF Trades, OpenSpots
  <2>2. o.order_id = OrderAt(levels, p).order_id /\ o.qty_ahead = OrderAt(levels, p).qty_ahead - PassOf(levels, M, p)
    BY <2>1 DEF RestOf, Less
  <2>3. p = q
    BY <1>3, <1>12, <2>2, SpotsDiffer
  <2>4. PassOf(levels, M, q) = OrderAt(levels, q).qty_ahead /\ OrderAt(levels, q).qty_ahead \in Nat
    BY <1>3, <1>8, <1>9, <1>12, TakeIs
  <2> QED
    BY <2>2, <2>3, <2>4
<1> QED
  BY <1>1, <1>6, <1>10, <1>11, <1>12 DEF Priority, front

\* An order is filled only when the volume ahead of it and the orders in front of it, at
\* its price and at better ones, are used up, and the acknowledgements leave in that order:
\* on_fill walks levels and orders with what is left of the one fill.
THEOREM PriorityIsKept == Spec => PriceTimePriority
<1>1. IInv /\ [Next]_vars => [acks' # {} => Priority]_vars
  <2> SUFFICES ASSUME IInv, Next, acks' # {} PROVE Priority
    OBVIOUS
  <2>1. ~CreateOrder /\ ~CancelOrder
    BY DEF CreateOrder, CancelOrder
  <2>2. IInv'
    BY NextGood
  <2> QED
    BY <2>1, <2>2, FillKeepsPriority DEF Next
<1>2. Spec => [][acks' # {} => Priority]_vars
  BY <1>1, ExchangeIInv, PTL DEF Spec
<1> QED
  BY <1>2, PTL DEF PriceTimePriority, Priority

---------------------------------------------------------------------------
(* What an order loses is acknowledged. *)

\* A level holds an order with this id and this remainder.
DueAt(os, id, r) == \E k \in DOMAIN os : os[k].order_id = id /\ os[k].remaining_qty = r

\* What is due of an id is due at one of the levels.
LEMMA DueSomewhere ==
  ASSUME NEW levels \in LevelSeqs, NEW id, NEW r
  PROVE  <<id, r>> \in Dues(levels) <=> \E i \in 1..Len(levels) : DueAt(levels[i].orders, id, r)
<1>1. DOMAIN levels = 1..Len(levels)
  BY AppendedLevels
<1>2. \A i \in 1..Len(levels) : DueAt(levels[i].orders, id, r)
        <=> \E o \in ToSet(levels[i].orders) : o.order_id = id /\ o.remaining_qty = r
  BY DEF DueAt, ToSet
<1>3. <<id, r>> \in Dues(levels)
        <=> \E i \in 1..Len(levels) : \E o \in ToSet(levels[i].orders) : o.order_id = id /\ o.remaining_qty = r
  BY <1>1 DEF Dues, OrdersOf
<1> QED
  BY <1>2, <1>3

\* What is due of an id on neither or on one side decides what remains of it.
LEMMA SameRemaining ==
  ASSUME NEW x, NEW y, NEW id,
         \A side \in Sides : SideGood(side, x[side]) /\ SideGood(side, y[side]),
         SideIds(x["Bid"]) \cap SideIds(x["Ask"]) = {}, SideIds(y["Bid"]) \cap SideIds(y["Ask"]) = {},
         \A side \in Sides : \A r : <<id, r>> \in Dues(x[side]) <=> <<id, r>> \in Dues(y[side])
  PROVE  RemainingIn(x, id) = RemainingIn(y, id) /\ RemainingIn(x, id) \in Nat
<1>1. /\ \A side \in Sides : \A r : <<id, r>> \in Dues(x[side]) => RemainingIn(x, id) = r /\ r \in Nat \ {0}
      /\ (\A side \in Sides : \A r : <<id, r>> \notin Dues(x[side])) => RemainingIn(x, id) = 0
  BY RemainingIs
<1>2. /\ \A side \in Sides : \A r : <<id, r>> \in Dues(y[side]) => RemainingIn(y, id) = r /\ r \in Nat \ {0}
      /\ (\A side \in Sides : \A r : <<id, r>> \notin Dues(y[side])) => RemainingIn(y, id) = 0
  BY RemainingIs
<1>3. CASE \E side \in Sides : \E r : <<id, r>> \in Dues(x[side])
  BY <1>1, <1>2, <1>3
<1>4. CASE \A side \in Sides : \A r : <<id, r>> \notin Dues(x[side])
  BY <1>1, <1>2, <1>4
<1> QED
  BY <1>3, <1>4

\* Taking out an order leaves what is due of the others.
LEMMA GoneDues ==
  ASSUME NEW os \in OrderSeqs, NEW j \in DOMAIN os, NEW id, os[j].order_id # id, NEW r
  PROVE  DueAt(Gone(os, j), id, r) <=> DueAt(os, id, r)
<1> DEFINE n == Len(os)
           bs == Behind(os, j)
           rest == Gone(os, j)
<1>1. n \in Nat /\ DOMAIN os = 1..n /\ j \in 1..n
  BY OrderSeqIs
<1>2. bs \in OrderSeqs /\ DOMAIN bs = 1..n /\ Len(bs) = n
  <2>1. bs \in OrderSeqs /\ DOMAIN bs = DOMAIN os
    BY BehindIs
  <2>2. DOMAIN bs = 1..Len(bs) /\ Len(bs) \in Nat
    BY <2>1, OrderSeqIs
  <2> QED
    BY <1>1, <2>1, <2>2
<1>3. \A k \in 1..n : bs[k].order_id = os[k].order_id /\ bs[k].remaining_qty = os[k].remaining_qty
  <2>1. \A k \in 1..n : bs[k].order_id = os[k].order_id
    BY <1>1, BehindIs
  <2>2. \A k \in 1..n : bs[k].remaining_qty = os[k].remaining_qty
    <3>1. CASE ~(j < n)
      BY <3>1 DEF Behind
    <3>2. CASE j < n
      <4>1. bs = [os EXCEPT ![j + 1].qty_ahead = (@ + os[j].qty_ahead) % Word]
        BY <3>2 DEF Behind, HandedOver
      <4>2. \A k \in 1..n : os[k] = [order_id |-> os[k].order_id, qty_ahead |-> os[k].qty_ahead,
                                     remaining_qty |-> os[k].remaining_qty]
        BY <1>1, OrderSeqIs DEF VirtualOrder
      <4> HIDE DEF bs
      <4> SUFFICES ASSUME NEW k \in 1..n PROVE bs[k].remaining_qty = os[k].remaining_qty
        OBVIOUS
      <4>3. CASE k = j + 1
        BY <1>1, <4>1, <4>2, <4>3
      <4>4. CASE k # j + 1
        BY <1>1, <4>1, <4>4
      <4> QED
        BY <4>3, <4>4
    <3> QED
      BY <3>1, <3>2
  <2> QED
    BY <2>1, <2>2
<1>4. /\ DOMAIN rest = 1..(n - 1)
      /\ \A k \in 1..(n - 1) : rest[k] = bs[IF k < j THEN k ELSE k + 1]
  <2>1. bs \in Seq(VirtualOrder) /\ j \in 1..Len(bs)
    BY <1>1, <1>2 DEF OrderSeqs
  <2>2. /\ RemoveAt(bs, j) \in Seq(VirtualOrder) /\ Len(RemoveAt(bs, j)) = Len(bs) - 1
        /\ \A k \in 1..(Len(bs) - 1) : RemoveAt(bs, j)[k] = bs[IF k < j THEN k ELSE k + 1]
    BY <2>1, RemoveAtIs
  <2>3. rest = RemoveAt(bs, j)
    BY DEF Gone
  <2> HIDE DEF rest, bs
  <2>4. DOMAIN rest = 1..Len(rest)
    BY <2>2, <2>3
  <2> QED
    BY <1>2, <2>2, <2>3, <2>4
<1> HIDE DEF rest, bs, n
<1>5. ASSUME DueAt(rest, id, r) PROVE DueAt(os, id, r)
  <2>1. PICK k \in 1..(n - 1) : rest[k].order_id = id /\ rest[k].remaining_qty = r
    BY <1>4, <1>5 DEF DueAt
  <2> DEFINE l == IF k < j THEN k ELSE k + 1
  <2>2. l \in 1..n /\ rest[k] = bs[l]
    BY <1>1, <1>4
  <2> HIDE DEF l
  <2> QED
    BY <1>1, <1>3, <2>1, <2>2 DEF DueAt
<1>6. ASSUME DueAt(os, id, r) PROVE DueAt(rest, id, r)
  <2>1. PICK l \in 1..n : os[l].order_id = id /\ os[l].remaining_qty = r
    BY <1>1, <1>6 DEF DueAt
  <2>2. l # j
    BY <2>1
  <2>3. PICK k \in 1..(n - 1) : (IF k < j THEN k ELSE k + 1) = l
    <3>1. CASE l < j
      <4>1. l \in 1..(n - 1)
        BY <1>1, <3>1
      <4> QED
        BY <3>1, <4>1
    <3>2. CASE ~(l < j)
      <4>1. l - 1 \in 1..(n - 1) /\ ~(l - 1 < j) /\ (l - 1) + 1 = l
        BY <1>1, <2>2, <3>2
      <4> QED
        BY <4>1
    <3> QED
      BY <3>1, <3>2
  <2>4. rest[k] = bs[l]
    BY <1>4, <2>3
  <2> QED
    BY <1>3, <1>4, <2>1, <2>4 DEF DueAt
<1> QED
  BY <1>5, <1>6 DEF rest

\* A cancel leaves what is due of every other order.
LEMMA CancelDues ==
  ASSUME NEW x, NEW gone, NEW side \in Sides, SideGood(side, x[side]), NEW id, id # gone, NEW r
  PROVE  <<id, r>> \in Dues(OnCancelOrder(x, gone)[side]) <=> <<id, r>> \in Dues(x[side])
<1> DEFINE levels == x[side]
           n == Len(levels)
<1>1. PICK after \in LevelSeqs :
        /\ OnCancelOrder(x, gone)[side] = Occupied(after) /\ Len(after) = Len(x[side])
        /\ \A i \in 1..Len(x[side]) : /\ after[i] = Cancelled(x[side][i], gone)
                                     /\ Within(x[side][i], after[i])
  BY CancelIs, SMTT(60)
<1>2. levels \in LevelSeqs /\ \A i \in 1..n : levels[i].orders \in OrderSeqs /\ levels[i] \in VirtualLevel
  BY SpotIs DEF SideGood
<1>3. Dues(OnCancelOrder(x, gone)[side]) = Dues(after)
  BY <1>1, OccupiedOrders DEF Dues
<1> HIDE DEF levels
<1>4. ASSUME NEW i \in 1..n
      PROVE  DueAt(after[i].orders, id, r) <=> DueAt(levels[i].orders, id, r)
  <2> DEFINE level == levels[i]
             at == {j \in DOMAIN level.orders : level.orders[j].order_id = gone}
  <2>1. after[i] = Cancelled(level, gone)
    BY <1>1 DEF levels
  <2>2. level \in VirtualLevel /\ level.orders \in OrderSeqs
    BY <1>2
  <2> HIDE DEF level
  <2>3. CASE at = {}
    <3>1. after[i] = level
      BY <2>1, <2>3 DEF Cancelled
    <3> QED
      BY <3>1 DEF level
  <2>4. CASE at # {}
    <3> DEFINE j == CHOOSE k \in at : TRUE
    <3>1. after[i] = Without(level, j)
      BY <2>1, <2>4 DEF Cancelled
    <3>2. j \in DOMAIN level.orders /\ level.orders[j].order_id = gone
      BY <2>4
    <3> HIDE DEF j
    <3>3. after[i].orders = Gone(level.orders, j)
      BY <2>2, <3>1, WithoutIs
    <3>4. DueAt(Gone(level.orders, j), id, r) <=> DueAt(level.orders, id, r)
      BY <2>2, <3>2, GoneDues
    <3> QED
      BY <3>3, <3>4 DEF level
  <2> QED
    BY <2>3, <2>4
<1>5. <<id, r>> \in Dues(after) <=> \E i \in 1..n : DueAt(after[i].orders, id, r)
  BY <1>1, DueSomewhere DEF levels
<1>6. <<id, r>> \in Dues(levels) <=> \E i \in 1..n : DueAt(levels[i].orders, id, r)
  BY <1>2, DueSomewhere
<1> QED
  BY <1>3, <1>4, <1>5, <1>6 DEF levels

\* A level without orders, put in for a price, adds nothing due.
LEMMA WithLevelDues ==
  ASSUME NEW side, NEW levels, SideGood(side, levels), NEW price \in Prices, NEW id, NEW r
  PROVE  <<id, r>> \in Dues(WithLevel(levels, side, price)) <=> <<id, r>> \in Dues(levels)
<1> DEFINE n == Len(levels)
           full == WithLevel(levels, side, price)
           new == [price |-> price, total_qty_ahead |-> 0, orders |-> <<>>]
           B == {i \in DOMAIN levels : Better(side, levels[i].price, price)}
           pos == 1 + Cardinality(B)
<1>1. levels \in LevelSeqs /\ n \in Nat /\ DOMAIN levels = 1..n
  BY AppendedLevels DEF SideGood
<1>2. full \in LevelSeqs
  BY WithLevelIs
<1>3. CASE \E i \in DOMAIN levels : levels[i].price = price
  BY <1>3 DEF WithLevel
<1>4. CASE \A i \in DOMAIN levels : levels[i].price # price
  <2>1. full = InsertAt(levels, pos, new)
    BY <1>4 DEF WithLevel
  <2>2. pos \in 1..(n + 1)
    <3>1. IsFiniteSet(1..n) /\ Cardinality(1..n) = n
      <4> HIDE DEF n
      <4>1. Cardinality(1..n) = IF 1 > n THEN 0 ELSE n - 1 + 1
        BY <1>1, FS_Interval
      <4> QED
        BY <1>1, <4>1, FS_Interval
    <3>2. B \in SUBSET (1..n)
      BY <1>1
    <3> HIDE DEF B
    <3>3. Cardinality(B) \in Nat /\ Cardinality(B) <= n
      BY <3>1, <3>2, FS_Subset, FS_CardinalityType
    <3> QED
      BY <1>1, <3>3
  <2>3. new \in VirtualLevel /\ DOMAIN new.orders = {}
    <3>1. <<>> \in Seq(VirtualOrder)
      OBVIOUS
    <3> QED
      BY <3>1, WordAssumption DEF VirtualLevel
  <2> HIDE DEF pos, new, full, n
  <2>4. /\ Len(full) = n + 1
        /\ \A k \in 1..(n + 1) : full[k] = IF k < pos THEN levels[k] ELSE IF k = pos THEN new ELSE levels[k - 1]
    <3>1. levels \in Seq(VirtualLevel) /\ pos \in 1..(Len(levels) + 1) /\ new \in VirtualLevel
      BY <1>1, <2>2, <2>3 DEF LevelSeqs, n
    <3>2. /\ Len(InsertAt(levels, pos, new)) = Len(levels) + 1
          /\ \A k \in 1..(Len(levels) + 1) :
               InsertAt(levels, pos, new)[k] = IF k < pos THEN levels[k] ELSE IF k = pos THEN new ELSE levels[k - 1]
      BY <3>1, InsertAtIs
    <3> QED
      BY <2>1, <3>2 DEF n
  <2>5. ~DueAt(new.orders, id, r)
    BY <2>3 DEF DueAt
  <2>6. ASSUME NEW k \in 1..(n + 1), DueAt(full[k].orders, id, r)
        PROVE  \E i \in 1..n : DueAt(levels[i].orders, id, r)
    <3>1. CASE k < pos
      BY <1>1, <2>2, <2>4, <2>6, <3>1
    <3>2. CASE k = pos
      BY <2>2, <2>4, <2>5, <2>6, <3>2
    <3>3. CASE k > pos
      <4>1. k - 1 \in 1..n /\ full[k] = levels[k - 1]
        BY <1>1, <2>2, <2>4, <3>3
      <4> QED
        BY <2>6, <4>1
    <3> QED
      BY <1>1, <2>2, <3>1, <3>2, <3>3
  <2>7. ASSUME NEW i \in 1..n, DueAt(levels[i].orders, id, r)
        PROVE  \E k \in 1..(n + 1) : DueAt(full[k].orders, id, r)
    <3>1. CASE i < pos
      <4>1. i \in 1..(n + 1) /\ full[i] = levels[i]
        BY <1>1, <2>4, <3>1
      <4> QED
        BY <2>7, <4>1
    <3>2. CASE ~(i < pos)
      <4>1. i + 1 \in 1..(n + 1) /\ ~(i + 1 < pos) /\ i + 1 # pos /\ (i + 1) - 1 = i
        BY <1>1, <2>2, <3>2
      <4>2. full[i + 1] = levels[i]
        BY <2>4, <4>1
      <4> QED
        BY <2>7, <4>1, <4>2
    <3> QED
      BY <3>1, <3>2
  <2>8. <<id, r>> \in Dues(full) <=> \E k \in 1..(n + 1) : DueAt(full[k].orders, id, r)
    <3>1. full \in LevelSeqs
      BY <1>2 DEF full
    <3> QED
      BY <2>4, <3>1, DueSomewhere
  <2>9. <<id, r>> \in Dues(levels) <=> \E i \in 1..n : DueAt(levels[i].orders, id, r)
    BY <1>1, DueSomewhere DEF n
  <2> QED
    BY <2>6, <2>7, <2>8, <2>9 DEF full
<1> QED
  BY <1>3, <1>4

\* A new order leaves what is due of every other.
LEMMA CreateDues ==
  ASSUME NEW x, x \in [Sides -> LevelSeqs], NEW side \in Sides, SideGood(side, x[side]), NEW price \in Prices,
         NEW id \in 1..MaxOrders, NEW qty \in Nat \ {0}, NEW shown \in Nat,
         OnCreateOrder(x, Create(id, price, qty, side), shown)[side] \in LevelSeqs,
         NEW other, other # id, NEW r
  PROVE  <<other, r>> \in Dues(OnCreateOrder(x, Create(id, price, qty, side), shown)[side])
           <=> <<other, r>> \in Dues(x[side])
<1> DEFINE levels == x[side]
           full == WithLevel(levels, side, price)
           i == LevelOf(full, price)
           ahead == (shown - full[i].total_qty_ahead) % Word
           order == [order_id |-> id, qty_ahead |-> ahead, remaining_qty |-> qty]
           after == [full EXCEPT ![i] = Grown(full[i], order)]
           n == Len(full)
<1>1. full \in LevelSeqs /\ \E k \in DOMAIN full : full[k].price = price
  BY WithLevelIs
<1>2. <<other, r>> \in Dues(full) <=> <<other, r>> \in Dues(levels)
  BY WithLevelDues
<1> HIDE DEF full, levels
<1>3. i \in DOMAIN full
  BY <1>1 DEF LevelOf
<1> HIDE DEF i
<1>4. n \in Nat /\ DOMAIN full = 1..n /\ \A k \in 1..n : full[k] \in VirtualLevel
  BY <1>1, AppendedLevels
<1>5. OnCreateOrder(x, Create(id, price, qty, side), shown) = [x EXCEPT ![side] = after]
  <2> DEFINE e == Create(id, price, qty, side)
             joined == JoinedTo(full, i, order, ahead)
  <2>1. e.order_id = id /\ e.price = price /\ e.qty = qty /\ e.side = side
    BY DEF Create
  <2> HIDE DEF e
  <2>2. OnCreateOrder(x, e, shown) = [x EXCEPT ![side] = joined]
    BY <2>1 DEF OnCreateOrder, JoinedTo, full, i, levels
  <2>3. order.qty_ahead = ahead
    OBVIOUS
  <2> HIDE DEF order, ahead
  <2>4. joined = after
    <3>1. full \in LevelSeqs /\ i \in DOMAIN full
      BY <1>1, <1>3
    <3>2. JoinedTo(full, i, order, ahead) = [full EXCEPT ![i] = Grown(full[i], order)]
      BY <2>3, <3>1, JoinIs
    <3> QED
      BY <3>2
  <2> QED
    BY <2>2, <2>4 DEF e
<1>6. order.order_id = id
  OBVIOUS
<1> HIDE DEF order, ahead
<1>7. DOMAIN after = DOMAIN full /\ \A k \in 1..n : after[k] = IF k = i THEN Grown(full[i], order) ELSE full[k]
  BY <1>4
<1>8. after = OnCreateOrder(x, Create(id, price, qty, side), shown)[side]
  BY <1>5
<1> HIDE DEF after
<1>9. after \in LevelSeqs /\ Len(after) = n
  <2>1. after \in LevelSeqs
    BY <1>8
  <2>2. DOMAIN after = 1..Len(after) /\ Len(after) \in Nat
    BY <2>1, AppendedLevels
  <2> QED
    BY <1>4, <1>7, <2>1, <2>2
<1>10. DueAt(Grown(full[i], order).orders, other, r) <=> DueAt(full[i].orders, other, r)
  <2> DEFINE os == full[i].orders
             more == Append(os, order)
             m == Len(os)
  <2>1. os \in OrderSeqs
    BY <1>3, <1>4 DEF VirtualLevel, OrderSeqs
  <2>2. m \in Nat /\ DOMAIN os = 1..m
    BY <2>1, OrderSeqIs
  <2>3. Grown(full[i], order).orders = more
    BY DEF Grown
  <2> HIDE DEF os
  <2>4. DOMAIN more = 1..(m + 1) /\ more[m + 1] = order /\ \A k \in 1..m : more[k] = os[k]
    BY <2>1 DEF OrderSeqs
  <2> HIDE DEF more, m
  <2>5. \A k \in 1..(m + 1) : k \in 1..m \/ k = m + 1
    BY <2>2
  <2>6. \A k \in 1..m : k \in 1..(m + 1)
    BY <2>2
  <2>7. DueAt(more, other, r) <=> DueAt(os, other, r)
    BY <1>6, <2>2, <2>4, <2>5, <2>6 DEF DueAt
  <2> QED
    BY <2>3, <2>7 DEF os
<1>11. \A k \in 1..n : DueAt(after[k].orders, other, r) <=> DueAt(full[k].orders, other, r)
  BY <1>7, <1>10
<1>12. <<other, r>> \in Dues(after) <=> <<other, r>> \in Dues(full)
  BY <1>1, <1>9, <1>11, DueSomewhere
<1> QED
  BY <1>2, <1>8, <1>12 DEF levels

\* What is acknowledged of some fills, as a sum.
LEMMA AcknowledgedSum ==
  ASSUME NEW S, IsFiniteSet(S), \A e \in S : e.payload.filled_qty \in Int
  PROVE  MapThenSumSet(LAMBDA e : e.payload.filled_qty, S) = SumOver([e \in S |-> e.payload.filled_qty], S)
<1> DEFINE w == [e \in S |-> e.payload.filled_qty]
           f == CHOOSE g : g = [T \in SUBSET S |-> IF T = {} THEN 0
                  ELSE (CHOOSE x \in T : TRUE).payload.filled_qty + g[T \ {CHOOSE x \in T : TRUE}]]
<1>1. Weighs(w, S)
  BY DEF Weighs
<1>2. MapThenSumSet(LAMBDA e : e.payload.filled_qty, S) = f[S]
  BY DEF MapThenSumSet, MapThenFoldSet
<1>3. \A T \in SUBSET S : T # {} => w[CHOOSE x \in T : TRUE] = (CHOOSE x \in T : TRUE).payload.filled_qty
  OBVIOUS
<1> HIDE DEF w
<1>4. PICK g : Unfolds(g, w, S)
  BY <1>1, SumUnfolds
<1>5. g = [T \in SUBSET S |-> IF T = {} THEN 0
             ELSE (CHOOSE x \in T : TRUE).payload.filled_qty + g[T \ {CHOOSE x \in T : TRUE}]]
  BY <1>3, <1>4 DEF Unfolds
<1>6. f = [T \in SUBSET S |-> IF T = {} THEN 0
             ELSE (CHOOSE x \in T : TRUE).payload.filled_qty + f[T \ {CHOOSE x \in T : TRUE}]]
  BY <1>5 DEF f
<1> HIDE DEF f
<1>7. Unfolds(f, w, S)
  <2> DEFINE h == [T \in SUBSET S |-> IF T = {} THEN 0
                     ELSE w[CHOOSE x \in T : TRUE] + f[T \ {CHOOSE x \in T : TRUE}]]
             k == [T \in SUBSET S |-> IF T = {} THEN 0
                     ELSE (CHOOSE x \in T : TRUE).payload.filled_qty + f[T \ {CHOOSE x \in T : TRUE}]]
  <2>1. \A T \in SUBSET S : h[T] = k[T]
    BY <1>3
  <2>2. h = k
    <3>1. h = [T \in SUBSET S |-> h[T]] /\ k = [T \in SUBSET S |-> k[T]]
      OBVIOUS
    <3> HIDE DEF h, k
    <3> QED
      BY <2>1, <3>1
  <2>3. f = k
    BY <1>6
  <2> QED
    BY <2>2, <2>3, Zenon DEF Unfolds
<1>8. f[S] = SumOver(w, S)
  BY <1>1, <1>7, SumUnfolds
<1> QED
  BY <1>2, <1>8 DEF w

\* What is acknowledged of an id without acknowledgements, and of one with a single one.
LEMMA AcknowledgedIs ==
  ASSUME NEW sent, NEW id
  PROVE  /\ AcksOf(sent, id) = {} => Acknowledged(sent, id) = 0
         /\ \A e : AcksOf(sent, id) = {e} /\ e.payload.filled_qty \in Int
              => Acknowledged(sent, id) = e.payload.filled_qty
<1> DEFINE S == AcksOf(sent, id)
           w == [e \in S |-> e.payload.filled_qty]
<1>1. Acknowledged(sent, id) = MapThenSumSet(LAMBDA e : e.payload.filled_qty, S)
  BY Zenon DEF Acknowledged
<1> HIDE DEF S
<1>2. ASSUME S = {} PROVE Acknowledged(sent, id) = 0
  <2>1. IsFiniteSet(S) /\ \A e \in S : e.payload.filled_qty \in Int
    BY <1>2, FS_EmptySet
  <2>2. MapThenSumSet(LAMBDA e : e.payload.filled_qty, S) = SumOver(w, S)
    BY <2>1, AcknowledgedSum, Zenon
  <2>3. SumOver(w, {}) = 0
    <3> HIDE DEF w
    <3> QED
      BY SumOfNone
  <2>4. Acknowledged(sent, id) = SumOver(w, S)
    BY <1>1, <2>2, Zenon
  <2> QED
    BY <1>2, <2>3, <2>4
<1>3. ASSUME NEW e, S = {e}, e.payload.filled_qty \in Int
      PROVE  Acknowledged(sent, id) = e.payload.filled_qty
  <2>1. w[e] = e.payload.filled_qty /\ w[e] \in Int
    BY <1>3
  <2>2. IsFiniteSet(S) /\ SumOver(w, S) = w[e]
    <3> HIDE DEF w
    <3>1. IsFiniteSet({e}) /\ SumOver(w, {e}) = w[e]
      BY <2>1, SumOfOne
    <3> QED
      BY <1>3, <3>1
  <2>3. \A f \in S : f.payload.filled_qty \in Int
    BY <1>3
  <2>4. MapThenSumSet(LAMBDA f : f.payload.filled_qty, S) = SumOver(w, S)
    BY <2>2, <2>3, AcknowledgedSum, Zenon
  <2>5. Acknowledged(sent, id) = SumOver(w, S)
    BY <1>1, <2>4, Zenon
  <2> QED
    BY <2>1, <2>2, <2>5
<1> QED
  BY <1>2, <1>3 DEF S

\* An order that was created keeps what remains of it but for what is acknowledged.
Balanced(id) == RemainingIn(vx, id) = RemainingIn(vx', id) + Acknowledged(acks', id)

\* Of an order that nothing was taken of, nothing is acknowledged.
LEMMA UntouchedBalances ==
  ASSUME IInv, IInv', NEW id, AcksOf(acks', id) = {},
         \A side \in Sides : \A r : <<id, r>> \in Dues(vx[side]) <=> <<id, r>> \in Dues(vx'[side])
  PROVE  Balanced(id)
<1>1. \A s \in Sides : SideGood(s, vx[s]) /\ SideGood(s, vx'[s])
  BY DEF IInv, BothGood
<1>2. SideIds(vx["Bid"]) \cap SideIds(vx["Ask"]) = {} /\ SideIds(vx'["Bid"]) \cap SideIds(vx'["Ask"]) = {}
  BY DEF IInv
<1>3. RemainingIn(vx, id) = RemainingIn(vx', id) /\ RemainingIn(vx, id) \in Nat
  BY <1>1, <1>2, SameRemaining
<1>4. Acknowledged(acks', id) = 0
  BY AcknowledgedIs
<1> QED
  BY <1>3, <1>4 DEF Balanced

\* A new order, under a new id, leaves the others what they were.
LEMMA CreateBalances ==
  ASSUME IInv, IInv', CreateOrder, NEW id \in 1..created
  PROVE  Balanced(id)
<1> DEFINE new == created + 1
<1>1. PICK side \in Sides, price \in Prices, qty \in OrderSizes, shown \in ShownVolumes :
        vx' = OnCreateOrder(vx, Create(new, price, qty, side), shown)
  BY DEF CreateOrder
<1>2. created < MaxOrders /\ acks' = {}
  BY DEF CreateOrder
<1>3. created \in 0..MaxOrders /\ MaxOrders \in Nat
  BY ClientAssumption DEF IInv
<1>4. new \in 1..MaxOrders /\ id # new
  BY <1>2, <1>3
<1>5. qty \in Nat \ {0} /\ shown \in Nat
  BY ClientAssumption
<1>6. vx \in [Sides -> LevelSeqs] /\ SideGood(side, vx[side]) /\ vx'[side] \in LevelSeqs
  BY DEF IInv, BothGood
<1> HIDE DEF new
<1>7. ASSUME NEW s \in Sides, NEW r
      PROVE  <<id, r>> \in Dues(vx[s]) <=> <<id, r>> \in Dues(vx'[s])
  <2>1. CASE s = side
    <3>1. <<id, r>> \in Dues(OnCreateOrder(vx, Create(new, price, qty, side), shown)[side])
            <=> <<id, r>> \in Dues(vx[side])
      BY <1>1, <1>4, <1>5, <1>6, CreateDues
    <3> QED
      BY <1>1, <2>1, <3>1
  <2>2. CASE s # side
    <3>1. Create(new, price, qty, side).side = side
      BY DEF Create
    <3>2. vx'[s] = vx[s]
      BY <1>1, <1>6, <2>2, <3>1 DEF OnCreateOrder
    <3> QED
      BY <3>2
  <2> QED
    BY <2>1, <2>2
<1>8. AcksOf(acks', id) = {}
  BY <1>2 DEF AcksOf
<1> QED
  BY <1>7, <1>8, UntouchedBalances

\* A cancel leaves all other orders what they were.
LEMMA CancelBalances ==
  ASSUME IInv, IInv', CancelOrder, NEW id \in 1..created
  PROVE  call' = [op |-> "cancel", order_id |-> id] \/ Balanced(id)
<1>1. PICK gone \in 1..created :
        call' = [op |-> "cancel", order_id |-> gone] /\ vx' = OnCancelOrder(vx, gone) /\ acks' = {}
  BY DEF CancelOrder
<1>2. SUFFICES ASSUME id # gone PROVE Balanced(id)
  BY <1>1
<1>3. \A s \in Sides : SideGood(s, vx[s])
  BY DEF IInv, BothGood
<1>4. ASSUME NEW s \in Sides, NEW r
      PROVE  <<id, r>> \in Dues(vx[s]) <=> <<id, r>> \in Dues(vx'[s])
  <2>1. <<id, r>> \in Dues(OnCancelOrder(vx, gone)[s]) <=> <<id, r>> \in Dues(vx[s])
    BY <1>2, <1>3, CancelDues
  <2> QED
    BY <1>1, <2>1
<1>5. AcksOf(acks', id) = {}
  BY <1>1 DEF AcksOf
<1> QED
  BY <1>4, <1>5, UntouchedBalances

\* Of the order at a place, what is taken is what is acknowledged.
LEMMA TakenIsAcknowledged ==
  ASSUME NEW side, NEW levels, SideGood(side, levels), NEW M, NEW at, NEW fills, NEW after,
         Trades(levels, M, at, fills, after), NEW price, Answers(fills, price),
         NEW p \in Spots(levels)
  PROVE  Acknowledged(Acks(fills, price), OrderAt(levels, p).order_id) = TakeOf(levels, M, p)
<1> DEFINE id == OrderAt(levels, p).order_id
           sent == Acks(fills, price)
<1>1. /\ levels \in LevelSeqs /\ Reports(at, levels, M, Len(levels), fills)
      /\ UnitsAt(M, p) \in Nat
  BY DEF SideGood, Trades
<1>2. TakeOf(levels, M, p) \in Nat
  BY <1>1, TakeIs
<1>3. \A e : e \in AcksOf(sent, id) <=> \E k \in 1..Len(fills) : at[k] = p /\ e = AckAt(fills, price, k)
  BY <1>1, AcksOfPlace
<1>4. /\ \A k \in 1..Len(fills) : /\ TakeOf(levels, M, at[k]) > 0
                                  /\ fills[k].qty = TakeOf(levels, M, at[k])
      /\ \A k, l \in 1..Len(fills) : k < l => Ahead(at[k], at[l])
      /\ TakeOf(levels, M, p) > 0 => \E k \in 1..Len(fills) : at[k] = p
  <2>1. \A k \in 1..Len(fills) :
          /\ TakeOf(levels, M, at[k]) > 0
          /\ fills[k] = [order_id |-> OrderAt(levels, at[k]).order_id, qty |-> TakeOf(levels, M, at[k])]
    BY <1>1 DEF Reports
  <2>2. TakeOf(levels, M, p) > 0 => \E k \in 1..Len(fills) : at[k] = p
    <3>1. p[1] \in 1..Len(levels) /\ Len(levels) \in Nat
      BY <1>1, SpotIs
    <3>2. p[1] <= Len(levels)
      BY <3>1
    <3> QED
      BY <1>1, <3>2 DEF Reports
  <2>3. \A k, l \in 1..Len(fills) : k < l => Ahead(at[k], at[l])
    BY <1>1 DEF Reports
  <2>4. \A k \in 1..Len(fills) : TakeOf(levels, M, at[k]) > 0 /\ fills[k].qty = TakeOf(levels, M, at[k])
    <3> SUFFICES ASSUME NEW k \in 1..Len(fills)
                 PROVE  TakeOf(levels, M, at[k]) > 0 /\ fills[k].qty = TakeOf(levels, M, at[k])
      OBVIOUS
    <3>1. /\ TakeOf(levels, M, at[k]) > 0
          /\ fills[k] = [order_id |-> OrderAt(levels, at[k]).order_id, qty |-> TakeOf(levels, M, at[k])]
      BY <2>1
    <3> DEFINE t == TakeOf(levels, M, at[k])
               o == OrderAt(levels, at[k]).order_id
    <3>2. t > 0 /\ fills[k] = [order_id |-> o, qty |-> t]
      BY <3>1
    <3> HIDE DEF t, o
    <3>3. fills[k].qty = t
      BY <3>2
    <3> QED
      BY <3>2, <3>3 DEF t
  <2> QED
    BY <2>2, <2>3, <2>4
<1>5. \A k, l \in 1..Len(fills) : at[k] = p /\ at[l] = p => k = l
  <2>1. ~Ahead(p, p)
    <3>1. p[1] \in Int /\ p[2] \in Int
      BY <1>1, SpotIs
    <3> QED
      BY <3>1 DEF Ahead
  <2> QED
    BY <1>4, <2>1
<1> HIDE DEF id, sent
<1>6. CASE TakeOf(levels, M, p) = 0
  <2>1. \A k \in 1..Len(fills) : at[k] # p
    BY <1>4, <1>6
  <2>2. AcksOf(sent, id) = {}
    BY <1>3, <2>1
  <2>3. Acknowledged(sent, id) = 0
    BY <2>2, AcknowledgedIs
  <2> QED
    BY <1>6, <2>3 DEF id, sent
<1>7. CASE TakeOf(levels, M, p) > 0
  <2>1. PICK k \in 1..Len(fills) : at[k] = p
    BY <1>4, <1>7
  <2> DEFINE e == AckAt(fills, price, k)
  <2>2. AcksOf(sent, id) = {e}
    BY <1>3, <1>5, <2>1
  <2>3. e.payload.filled_qty = TakeOf(levels, M, p)
    BY <1>4, <2>1 DEF Answers
  <2> HIDE DEF e
  <2>4. Acknowledged(sent, id) = e.payload.filled_qty
    BY <1>2, <2>2, <2>3, AcknowledgedIs
  <2> QED
    BY <2>3, <2>4 DEF id, sent
<1> QED
  BY <1>2, <1>6, <1>7

\* A fill takes of every order what it acknowledges.
LEMMA FillBalances ==
  ASSUME IInv, IInv', Fill, NEW id
  PROVE  Balanced(id)
<1>1. PICK side \in Sides, price \in Prices, size \in FillSizes :
        vx' = OnFill(vx, side, price, size) /\ acks' = FillAcks(vx, {}, 0, side, price, size)
  BY DEF Fill
<1> DEFINE levels == vx[side]
           now == vx'[side]
<1>2. PICK M, at, fills :
        /\ Trades(levels, M, at, fills, now)
        /\ acks' = Acks(fills, price) /\ Answers(fills, price)
  BY <1>1, FillIs
<1>3. /\ \A other \in Sides : other # side => vx'[other] = vx[other]
      /\ SideGood(side, levels) /\ levels \in LevelSeqs
  BY <1>1, FillIs DEF SideGood
<1>4. /\ \A s \in Sides : SideGood(s, vx[s]) /\ SideGood(s, vx'[s])
      /\ SideIds(vx["Bid"]) \cap SideIds(vx["Ask"]) = {}
      /\ SideIds(vx'["Bid"]) \cap SideIds(vx'["Ask"]) = {}
  BY DEF IInv, BothGood
<1>5. \A r : <<id, r>> \in Dues(now) <=>
        \E p \in Spots(levels) : /\ OrderAt(levels, p).order_id = id
                                 /\ r = OrderAt(levels, p).remaining_qty - TakeOf(levels, M, p)
                                 /\ r > 0
  BY <1>2, <1>3, FilledDues
<1>6. \A r : <<id, r>> \in Dues(levels) <=>
        \E p \in Spots(levels) : OrderAt(levels, p).order_id = id /\ OrderAt(levels, p).remaining_qty = r
  BY <1>3, DueIds
<1>7. CASE \A p \in Spots(levels) : OrderAt(levels, p).order_id # id
  <2>1. AcksOf(acks', id) = {}
    <3>1. Reports(at, levels, M, Len(levels), fills) /\ Answers(fills, price) /\ SideGood(side, levels)
      BY <1>2, <1>3 DEF Trades
    <3>2. \A i : (\A p \in Spots(levels) : OrderAt(levels, p).order_id # i)
            => AcksOf(Acks(fills, price), i) = {}
      BY <3>1, AcksOfPlace
    <3> QED
      BY <1>2, <1>7, <3>2
  <2>2. \A s \in Sides : \A r : <<id, r>> \in Dues(vx[s]) <=> <<id, r>> \in Dues(vx'[s])
    <3>1. \A r : <<id, r>> \notin Dues(levels) /\ <<id, r>> \notin Dues(now)
      BY <1>5, <1>6, <1>7
    <3> QED
      BY <1>3, <3>1
  <2> QED
    BY <2>1, <2>2, UntouchedBalances
<1>8. CASE \E p \in Spots(levels) : OrderAt(levels, p).order_id = id
  <2>1. PICK p \in Spots(levels) : OrderAt(levels, p).order_id = id
    BY <1>8
  <2> DEFINE q == OrderAt(levels, p).remaining_qty
             t == TakeOf(levels, M, p)
  <2>2. q \in Nat \ {0} /\ t \in Nat /\ t <= q
    <3>1. UnitsAt(M, p) \in Nat
      BY <1>2 DEF Trades
    <3> QED
      BY <1>3, <3>1, TakeIs
  <2>3. \A u \in Spots(levels) : OrderAt(levels, u).order_id = id => u = p
    BY <1>3, <2>1, SpotsDiffer
  <2>4. Acknowledged(acks', id) = t
    <3>1. Acknowledged(Acks(fills, price), OrderAt(levels, p).order_id) = t
      BY <1>2, <1>3, TakenIsAcknowledged
    <3> QED
      BY <1>2, <2>1, <3>1
  <2>5. <<id, q>> \in Dues(levels) /\ \A r : <<id, r>> \in Dues(now) <=> r = q - t /\ r > 0
    BY <1>5, <1>6, <2>1, <2>3
  <2> HIDE DEF q, t
  <2>6. id \in SideIds(vx[side])
    BY <1>4, <2>1, OtherIds
  <2> HIDE DEF levels, now
  <2>7. RemainingIn(vx, id) = q
    <3>1. <<id, q>> \in Dues(vx[side])
      BY <2>5 DEF levels
    <3> QED
      BY <1>4, <3>1, RemainingIs
  <2>8. RemainingIn(vx', id) = q - t
    <3>1. CASE q - t > 0
      <4>1. <<id, q - t>> \in Dues(vx'[side])
        BY <2>5, <3>1 DEF now
      <4> QED
        BY <1>4, <4>1, RemainingIs
    <3>2. CASE q - t = 0
      <4>1. ASSUME NEW s \in Sides, NEW r, <<id, r>> \in Dues(vx'[s]) PROVE FALSE
        <5>1. CASE s = side
          <6>1. <<id, r>> \in Dues(now)
            BY <4>1, <5>1 DEF now
          <6>2. r = q - t /\ r > 0
            BY <2>5, <6>1
          <6> QED
            BY <3>2, <6>2
        <5>2. CASE s # side
          <6>1. vx'[s] = vx[s] /\ vx[s] \in LevelSeqs
            BY <1>3, <1>4, <5>2 DEF SideGood
          <6>2. PICK u \in Spots(vx[s]) : OrderAt(vx[s], u).order_id = id
            BY <4>1, <6>1, DueIds
          <6>3. id \in SideIds(vx[s])
            BY <1>4, <6>2, OtherIds
          <6> QED
            BY <1>4, <2>6, <5>2, <6>3 DEF Sides
        <5> QED
          BY <5>1, <5>2
      <4>2. RemainingIn(vx', id) = 0
        BY <1>4, <4>1, RemainingIs
      <4> QED
        BY <3>2, <4>2
    <3> QED
      BY <2>2, <3>1, <3>2
  <2> QED
    BY <2>2, <2>4, <2>7, <2>8 DEF Balanced
<1> QED
  BY <1>7, <1>8

\* What FillsAreAcknowledged says of a step.
Balance ==
  \A id \in 1..created :
    \/ call' = [op |-> "cancel", order_id |-> id]
    \/ RemainingIn(vx, id) = RemainingIn(vx', id) + Acknowledged(acks', id)

\* What an order loses is what is acknowledged of it, unless it was cancelled: on_fill
\* reports every fill of an order with the quantity it took, on_create_order and
\* on_cancel_order change no other order's.
THEOREM LossesAreAcknowledged == Spec => FillsAreAcknowledged
<1>1. IInv /\ [Next]_vars => [Balance]_vars
  <2> SUFFICES ASSUME IInv, Next PROVE Balance
    OBVIOUS
  <2>1. IInv'
    BY NextGood
  <2>2. CASE CreateOrder
    BY <2>1, <2>2, CreateBalances DEF Balance, Balanced
  <2>3. CASE CancelOrder
    BY <2>1, <2>3, CancelBalances DEF Balance, Balanced
  <2>4. CASE Fill
    BY <2>1, <2>4, FillBalances DEF Balance, Balanced
  <2> QED
    BY <2>2, <2>3, <2>4 DEF Next
<1>2. Spec => [][Balance]_vars
  BY <1>1, ExchangeIInv, PTL DEF Spec
<1> QED
  BY <1>2, PTL DEF FillsAreAcknowledged, Balance

---------------------------------------------------------------------------
(* What a fill uses up. *)

\* The places up to the j-th of the level i.
Upto(levels, i, j) == {p \in Spots(levels) : p[1] < i \/ (p[1] = i /\ p[2] <= j)}

\* The places up to one are that place and those before it.
LEMMA UptoNext ==
  ASSUME NEW levels \in LevelSeqs
  PROVE  /\ Upto(levels, 1, 0) = {}
         /\ \A i \in 1..Len(levels) :
              /\ Upto(levels, i, Len(levels[i].orders)) = Upto(levels, i + 1, 0)
              /\ \A j \in 1..Len(levels[i].orders) :
                   /\ <<i, j>> \in Upto(levels, i, j)
                   /\ Upto(levels, i, j) \ {<<i, j>>} = Upto(levels, i, j - 1)
         /\ Upto(levels, Len(levels) + 1, 0) = Spots(levels)
<1> DEFINE n == Len(levels)
           m(i) == Len(levels[i].orders)
<1>1. /\ n \in Nat
      /\ \A p \in Spots(levels) : /\ p = <<p[1], p[2]>> /\ p[1] \in 1..n /\ p[2] \in 1..m(p[1])
                                  /\ p[1] \in Int /\ p[2] \in Int
      /\ \A i \in 1..n : m(i) \in Nat /\ \A j \in 1..m(i) : <<i, j>> \in Spots(levels)
  BY SpotIs, OrderSeqIs
<1>2. \A p \in Spots(levels) : p[2] >= 1 /\ p[2] <= m(p[1]) /\ p[1] >= 1 /\ p[1] <= n
  <2> SUFFICES ASSUME NEW p \in Spots(levels)
               PROVE  p[2] >= 1 /\ p[2] <= m(p[1]) /\ p[1] >= 1 /\ p[1] <= n
    OBVIOUS
  <2> DEFINE a == p[1]
             b == p[2]
  <2>1. a \in 1..n /\ m(a) \in Nat /\ b \in 1..m(a) /\ n \in Nat
    BY <1>1
  <2> HIDE DEF a, b, n, m
  <2>2. b >= 1 /\ b <= m(a) /\ a >= 1 /\ a <= n
    BY <2>1
  <2> QED
    BY <2>2 DEF a, b
<1>3. Upto(levels, 1, 0) = {}
  <2> SUFFICES ASSUME NEW p \in Upto(levels, 1, 0) PROVE FALSE
    OBVIOUS
  <2>1. p \in Spots(levels) /\ (p[1] < 1 \/ (p[1] = 1 /\ p[2] <= 0))
    BY DEF Upto
  <2> QED
    BY <1>1, <1>2, <2>1
<1>4. Upto(levels, n + 1, 0) = Spots(levels)
  <2> SUFFICES ASSUME NEW p \in Spots(levels) PROVE p[1] < n + 1
    BY DEF Upto
  <2> QED
    BY <1>1, <1>2
<1>5. ASSUME NEW i \in 1..n PROVE Upto(levels, i, m(i)) = Upto(levels, i + 1, 0)
  <2> SUFFICES ASSUME NEW p \in Spots(levels)
               PROVE  (p[1] < i \/ (p[1] = i /\ p[2] <= m(i)))
                        <=> (p[1] < i + 1 \/ (p[1] = i + 1 /\ p[2] <= 0))
    BY DEF Upto
  <2>1. p[1] = i => p[2] <= m(i)
    BY <1>2
  <2>2. p[2] >= 1 /\ p[1] \in Int /\ p[2] \in Int /\ i \in Int
    BY <1>1, <1>2
  <2> HIDE DEF m
  <2> QED
    BY <2>1, <2>2
<1>6. ASSUME NEW i \in 1..n, NEW j \in 1..m(i)
      PROVE  /\ <<i, j>> \in Upto(levels, i, j)
             /\ Upto(levels, i, j) \ {<<i, j>>} = Upto(levels, i, j - 1)
  <2>1. <<i, j>> \in Spots(levels) /\ i \in Int /\ j \in Int
    BY <1>1
  <2>2. <<i, j>> \in Upto(levels, i, j)
    BY <2>1 DEF Upto
  <2>3. ASSUME NEW p \in Spots(levels)
        PROVE  (p[1] < i \/ (p[1] = i /\ p[2] <= j)) /\ p # <<i, j>>
                 <=> p[1] < i \/ (p[1] = i /\ p[2] <= j - 1)
    <3> DEFINE a == p[1]
               b == p[2]
    <3>1. a \in Int /\ b \in Int /\ (p = <<i, j>> <=> a = i /\ b = j)
      BY <1>1
    <3> HIDE DEF a, b
    <3>2. (a < i \/ (a = i /\ b <= j)) /\ p # <<i, j>> <=> a < i \/ (a = i /\ b <= j - 1)
      BY <2>1, <3>1
    <3> QED
      BY <3>2 DEF a, b
  <2>4. Upto(levels, i, j) \ {<<i, j>>} = Upto(levels, i, j - 1)
    BY <2>3 DEF Upto
  <2> QED
    BY <2>2, <2>4
<1> QED
  BY <1>3, <1>4, <1>5, <1>6

\* R counts the weights of the places up to j in the level i, T those up to the level.
CountsUp(R, T, w, levels) ==
  /\ T \in [0..Len(levels) -> Int] /\ T[0] = 0
  /\ \A i \in 1..Len(levels) :
       /\ R[i] \in [0..Len(levels[i].orders) -> Int]
       /\ R[i][0] = T[i - 1] /\ R[i][Len(levels[i].orders)] = T[i]
       /\ \A j \in 1..Len(levels[i].orders) : R[i][j] = R[i][j - 1] + w[<<i, j>>]

\* Weights that are counted place by place add up to the count.
LEMMA PlaceSum ==
  ASSUME NEW levels \in LevelSeqs, NEW w, Weighs(w, Spots(levels)), NEW R, NEW T,
         CountsUp(R, T, w, levels)
  PROVE  IsFiniteSet(Spots(levels)) /\ SumOver(w, Spots(levels)) = T[Len(levels)]
<1> DEFINE n == Len(levels)
           m(i) == Len(levels[i].orders)
           Q(i, j) == Upto(levels, i, j)
           Fits(i, j, c) == IsFiniteSet(Q(i, j)) /\ SumOver(w, Q(i, j)) = c
<1>1. n \in Nat /\ \A i \in 1..n : m(i) \in Nat
  BY SpotIs, OrderSeqIs
<1>2. /\ Q(1, 0) = {} /\ Q(n + 1, 0) = Spots(levels)
      /\ \A i \in 1..n : /\ Q(i, m(i)) = Q(i + 1, 0)
                         /\ \A j \in 1..m(i) : <<i, j>> \in Q(i, j) /\ Q(i, j) \ {<<i, j>>} = Q(i, j - 1)
  BY UptoNext
<1>3. \A i, j : Weighs(w, Q(i, j))
  BY DEF Weighs, Upto
<1>4. /\ T \in [0..n -> Int] /\ T[0] = 0
      /\ \A i \in 1..n :
           /\ R[i] \in [0..m(i) -> Int] /\ R[i][0] = T[i - 1] /\ R[i][m(i)] = T[i]
           /\ \A j \in 1..m(i) : R[i][j] = R[i][j - 1] + w[<<i, j>>]
  BY DEF CountsUp
<1> HIDE DEF n, m, Q
<1>5. ASSUME NEW i \in 1..n, Fits(i, 0, T[i - 1]) PROVE Fits(i + 1, 0, T[i])
  <2> DEFINE G == {j \in Nat : j <= m(i) => Fits(i, j, R[i][j])}
  <2>1. 0 \in G
    BY <1>4, <1>5
  <2>2. ASSUME NEW j \in Nat, j \in G PROVE j + 1 \in G
    <3> SUFFICES ASSUME j + 1 <= m(i) PROVE Fits(i, j + 1, R[i][j + 1])
      OBVIOUS
    <3>1. j + 1 \in 1..m(i) /\ (j + 1) - 1 = j /\ j <= m(i)
      BY <1>1
    <3> DEFINE k == j + 1
               A == Q(i, k)
               p == <<i, k>>
    <3>2. IsFiniteSet(Q(i, j)) /\ SumOver(w, Q(i, j)) = R[i][j]
      BY <2>2, <3>1
    <3>3. p \in A /\ A \ {p} = Q(i, j)
      BY <1>2, <3>1
    <3>4. R[i][k] = R[i][j] + w[p]
      BY <1>4, <3>1
    <3>5. w[p] \in Int /\ R[i][j] \in Int
      <4>1. w[p] \in Int
        BY <1>3, <3>3 DEF Weighs
      <4>2. j \in 0..m(i)
        BY <1>1, <3>1
      <4> QED
        BY <1>4, <4>1, <4>2
    <3>6. Weighs(w, A)
      BY <1>3
    <3> HIDE DEF A, p, k, G
    <3>7. IsFiniteSet(A)
      <4>1. A = Q(i, j) \cup {p}
        BY <3>3
      <4>2. IsFiniteSet(Q(i, j) \cup {p})
        BY <3>2, FS_AddElement
      <4> QED
        BY <4>1, <4>2
    <3>8. SumOver(w, A) = w[p] + SumOver(w, A \ {p})
      BY <3>3, <3>6, <3>7, SumWithout
    <3>9. SumOver(w, A) = R[i][k]
      <4>1. SumOver(w, A \ {p}) = R[i][j]
        BY <3>2, <3>3
      <4> DEFINE a == SumOver(w, A)
                 b == w[p]
                 c == R[i][j]
      <4>2. a = b + c /\ R[i][k] = c + b /\ b \in Int /\ c \in Int
        BY <3>4, <3>5, <3>8, <4>1
      <4> HIDE DEF a, b, c
      <4>3. a = R[i][k]
        BY <4>2
      <4> QED
        BY <4>3 DEF a
    <3> QED
      BY <3>7, <3>9 DEF A, k
  <2> HIDE DEF G, Fits
  <2>3. Nat \subseteq G
    BY <2>1, <2>2, NumberInduction
  <2>4. m(i) \in G /\ m(i) <= m(i)
    BY <1>1, <2>3
  <2>5. Fits(i, m(i), R[i][m(i)])
    BY <2>4 DEF G
  <2> QED
    BY <1>2, <1>4, <2>5 DEF Fits
<1> DEFINE H == {i \in Nat : i <= n => Fits(i + 1, 0, T[i])}
<1>6. 0 \in H
  <2>1. IsFiniteSet({}) /\ SumOver(w, {}) = 0
    BY SumOfNone, FS_EmptySet
  <2>2. Fits(1, 0, T[0])
    BY <1>2, <1>4, <2>1
  <2> HIDE DEF Fits
  <2> QED
    BY <2>2
<1>7. ASSUME NEW i \in Nat, i \in H PROVE i + 1 \in H
  <2> SUFFICES ASSUME i + 1 <= n PROVE Fits((i + 1) + 1, 0, T[i + 1])
    OBVIOUS
  <2>1. i + 1 \in 1..n /\ (i + 1) - 1 = i /\ i <= n
    BY <1>1
  <2>2. Fits(i + 1, 0, T[i])
    BY <1>7, <2>1
  <2> HIDE DEF Fits
  <2> QED
    BY <1>5, <2>1, <2>2
<1> HIDE DEF H, Fits
<1>8. n \in H
  BY <1>1, <1>6, <1>7, NumberInduction
<1>9. Fits(n + 1, 0, T[n])
  BY <1>1, <1>8 DEF H
<1> QED
  BY <1>2, <1>9 DEF Fits, n

\* The places of a side are finitely many.
LEMMA SpotsFinite ==
  ASSUME NEW levels \in LevelSeqs
  PROVE  IsFiniteSet(Spots(levels))
<1> DEFINE w == [p \in Spots(levels) |-> 0]
           T == [i \in 0..Len(levels) |-> 0]
           R == [i \in 1..Len(levels) |-> [j \in 0..Len(levels[i].orders) |-> 0]]
<1>1. /\ Len(levels) \in Nat
      /\ \A i \in 1..Len(levels) : /\ Len(levels[i].orders) \in Nat
                                   /\ \A j \in 1..Len(levels[i].orders) : <<i, j>> \in Spots(levels)
  BY SpotIs, OrderSeqIs
<1>2. Weighs(w, Spots(levels))
  BY DEF Weighs
<1>3. CountsUp(R, T, w, levels)
  <2>1. T \in [0..Len(levels) -> Int] /\ T[0] = 0
    BY <1>1
  <2>2. ASSUME NEW i \in 1..Len(levels)
        PROVE  /\ R[i] \in [0..Len(levels[i].orders) -> Int]
               /\ R[i][0] = T[i - 1] /\ R[i][Len(levels[i].orders)] = T[i]
               /\ \A j \in 1..Len(levels[i].orders) : R[i][j] = R[i][j - 1] + w[<<i, j>>]
    <3>1. R[i] = [j \in 0..Len(levels[i].orders) |-> 0] /\ i - 1 \in 0..Len(levels) /\ i \in 0..Len(levels)
      BY <1>1
    <3>2. \A j \in 0..Len(levels[i].orders) : R[i][j] = 0
      BY <3>1
    <3>3. T[i - 1] = 0 /\ T[i] = 0
      BY <3>1
    <3>4. 0 \in 0..Len(levels[i].orders) /\ Len(levels[i].orders) \in 0..Len(levels[i].orders)
      BY <1>1
    <3>5. \A j \in 1..Len(levels[i].orders) : j \in 0..Len(levels[i].orders) /\ j - 1 \in 0..Len(levels[i].orders)
      BY <1>1
    <3>6. \A j \in 1..Len(levels[i].orders) : w[<<i, j>>] = 0
      BY <1>1
    <3>7. R[i] \in [0..Len(levels[i].orders) -> Int]
      BY <3>1
    <3> HIDE DEF R, T, w
    <3> QED
      BY <3>2, <3>3, <3>4, <3>5, <3>6, <3>7
  <2> HIDE DEF R, T, w
  <2> QED
    BY <2>1, <2>2 DEF CountsUp
<1> HIDE DEF R, T, w
<1> QED
  BY <1>2, <1>3, PlaceSum

\* The volume at a place, the order's own and what is ahead of it, and what a fill uses of it.
VolumeOf(levels, p) == OrderAt(levels, p).qty_ahead + OrderAt(levels, p).remaining_qty
UsedOf(levels, M, p) == PassOf(levels, M, p) + TakeOf(levels, M, p)
Volumes(levels) == [p \in Spots(levels) |-> VolumeOf(levels, p)]
Used(levels, M) == [p \in Spots(levels) |-> UsedOf(levels, M, p)]

\* A fill uses what its size loses; nothing at a place that it does not reach, and all
\* at those it reaches if something is left of it at the end.
LEMMA UseIs ==
  ASSUME NEW side, NEW price \in Prices, NEW levels \in LevelSeqs,
         NEW after, NEW F, F \in [0..Len(levels) -> Nat], NEW N, NEW M,
         Course(side, price, levels, after, F, N, M)
  PROVE  /\ SumOver(Used(levels, M), Spots(levels)) = F[0] - F[Len(levels)]
         /\ \A p \in Spots(levels) :
              /\ UsedOf(levels, M, p) \in Nat /\ VolumeOf(levels, p) \in Nat
              /\ UsedOf(levels, M, p) <= VolumeOf(levels, p)
              /\ ~Reaches(side, price, levels[p[1]]) => UsedOf(levels, M, p) = 0
              /\ Reaches(side, price, levels[p[1]]) /\ F[Len(levels)] > 0
                   => UsedOf(levels, M, p) = VolumeOf(levels, p)
<1> DEFINE n == Len(levels)
           os(i) == levels[i].orders
           m(i) == Len(os(i))
           U == Used(levels, M)
           T == [i \in 0..n |-> F[0] - F[i]]
           R == [i \in 1..n |-> [j \in 0..m(i) |-> F[0] - F[i - 1] + M[i][0] - M[i][j]]]
<1>1. /\ n \in Nat
      /\ \A i \in 1..n : os(i) \in OrderSeqs /\ m(i) \in Nat /\ i - 1 \in 0..n /\ i \in 0..n
                         /\ 0 \in 0..m(i) /\ m(i) \in 0..m(i)
      /\ 0 \in 0..n /\ n \in 0..n
  BY SpotIs, OrderSeqIs
<1>2. \A i \in 1..n : Spent(os(i), M[i]) /\ M[i] \in [0..m(i) -> Nat]
  BY DEF Course, Filling, Spent
<1>3. ASSUME NEW i \in 1..n, NEW j \in 1..m(i)
      PROVE  LET p == <<i, j>>
             IN  /\ p \in Spots(levels) /\ OrderAt(levels, p) = os(i)[j] /\ OrderAt(levels, p) \in VirtualOrder
                 /\ UnitsAt(M, p) = M[i][j - 1] /\ M[i][j - 1] \in Nat /\ M[i][j] \in Nat
                 /\ PassOf(levels, M, p) \in Nat /\ TakeOf(levels, M, p) \in Nat
                 /\ M[i][j] = M[i][j - 1] - UsedOf(levels, M, p)
                 /\ U[p] = UsedOf(levels, M, p)
  <2> DEFINE p == <<i, j>>
             o == os(i)[j]
             a == M[i][j - 1]
  <2>1. p \in Spots(levels) /\ OrderAt(levels, p) = o /\ o \in VirtualOrder
    BY SpotIs
  <2>2. j - 1 \in 0..m(i) /\ j \in 0..m(i)
    BY <1>1
  <2>3. a \in Nat /\ M[i][j] \in Nat
    BY <1>2, <2>2
  <2>4. UnitsAt(M, p) = a
    BY DEF UnitsAt
  <2>5. PassOf(levels, M, p) = Pass(o, a) /\ TakeOf(levels, M, p) = Take(o, a)
    BY <2>1, <2>4 DEF PassOf, TakeOf
  <2>6. M[i][j] = a - Pass(o, a) - Take(o, a)
    BY <1>2 DEF Spent, PassAt, TakeAt
  <2>7. U[p] = UsedOf(levels, M, p)
    BY <2>1 DEF Used
  <2> HIDE DEF o, a, U, p
  <2>8. Pass(o, a) \in Nat /\ Take(o, a) \in Nat
    BY <2>1, <2>3, TakenIs
  <2>9. M[i][j] = a - UsedOf(levels, M, p)
    BY <2>3, <2>5, <2>6, <2>8 DEF UsedOf
  <2> QED
    BY <2>1, <2>3, <2>4, <2>5, <2>7, <2>8, <2>9 DEF o, a, p
<1>4. \A i \in 1..n :
        /\ Reaches(side, price, levels[i]) => M[i][0] = F[i - 1] /\ M[i][m(i)] = F[i]
        /\ ~Reaches(side, price, levels[i]) =>
             F[i] = F[i - 1] /\ \A j \in 0..m(i) : M[i][j] = 0
  <2> SUFFICES ASSUME NEW i \in 1..n
               PROVE  /\ Reaches(side, price, levels[i]) => M[i][0] = F[i - 1] /\ M[i][m(i)] = F[i]
                      /\ ~Reaches(side, price, levels[i]) =>
                           F[i] = F[i - 1] /\ \A j \in 0..m(i) : M[i][j] = 0
    OBVIOUS
  <2>1. IF Reaches(side, price, levels[i])
        THEN M[i][0] = F[i - 1] /\ M[i][m(i)] = F[i]
        ELSE M[i] = [j \in 0..m(i) |-> 0] /\ F[i] = F[i - 1]
    BY DEF Course
  <2> QED
    BY <2>1
<1>5. ASSUME NEW p \in Spots(levels)
      PROVE  p = <<p[1], p[2]>> /\ p[1] \in 1..n /\ p[2] \in 1..m(p[1])
  BY SpotIs
<1> HIDE DEF U, T, R
<1>6. CountsUp(R, T, U, levels)
  <2>1. T \in [0..n -> Int] /\ T[0] = 0 /\ \A i \in 0..n : T[i] = F[0] - F[i] /\ F[i] \in Int
    BY <1>1 DEF T
  <2>2. ASSUME NEW i \in 1..n
        PROVE  /\ R[i] \in [0..m(i) -> Int] /\ R[i][0] = T[i - 1] /\ R[i][m(i)] = T[i]
               /\ \A j \in 1..m(i) : R[i][j] = R[i][j - 1] + U[<<i, j>>]
    <3> DEFINE f == F[0]
               g == F[i - 1]
               L == M[i]
               r == R[i]
    <3>1. f \in Int /\ g \in Int /\ F[i] \in Int /\ \A j \in 0..m(i) : L[j] \in Int
      <4>1. f \in Int /\ g \in Int /\ F[i] \in Int
        BY <1>1, <2>1
      <4>2. \A j \in 0..m(i) : L[j] \in Int
        <5>1. L \in [0..m(i) -> Nat]
          BY <1>2
        <5> HIDE DEF L, m
        <5> QED
          BY <5>1
      <4> QED
        BY <4>1, <4>2
    <3>2. r = [j \in 0..m(i) |-> f - g + L[0] - L[j]]
      BY DEF R
    <3>3. T[i - 1] = f - g /\ T[i] = f - F[i]
      BY <1>1, <2>1
    <3>4. L[0] - L[m(i)] = g - F[i]
      <4>1. CASE Reaches(side, price, levels[i])
        BY <1>4, <4>1
      <4>2. CASE ~Reaches(side, price, levels[i])
        <5>1. L[0] = 0 /\ L[m(i)] = 0 /\ F[i] = g
          BY <1>1, <1>4, <4>2
        <5> QED
          BY <3>1, <5>1
      <4> QED
        BY <4>1, <4>2
    <3>5. \A j \in 1..m(i) : j \in 0..m(i) /\ j - 1 \in 0..m(i) /\ L[j] = L[j - 1] - U[<<i, j>>]
      <4>1. \A j \in 1..m(i) : j \in 0..m(i) /\ j - 1 \in 0..m(i)
        BY <1>1
      <4>2. \A j \in 1..m(i) : L[j] = L[j - 1] - U[<<i, j>>]
        BY <1>3
      <4> QED
        BY <4>1, <4>2
    <3>6. \A j \in 1..m(i) : U[<<i, j>>] \in Int
      BY <1>3 DEF UsedOf
    <3> HIDE DEF f, g, L, r, m
    <3>7. 0 \in 0..m(i) /\ m(i) \in 0..m(i)
      BY <1>1 DEF m
    <3>8. r \in [0..m(i) -> Int] /\ \A j \in 0..m(i) : r[j] = f - g + L[0] - L[j] /\ r[j] \in Int
      BY <3>1, <3>2, <3>7
    <3>9. r[0] = T[i - 1]
      BY <3>1, <3>3, <3>7, <3>8
    <3>10. r[m(i)] = T[i]
      <4> DEFINE k == m(i)
                 a == L[0]
                 b == L[k]
                 c == F[i]
      <4>1. r[k] = f - g + a - b /\ a - b = g - c /\ T[i] = f - c /\ a \in Int /\ b \in Int /\ c \in Int
        BY <3>1, <3>3, <3>4, <3>7, <3>8
      <4> HIDE DEF k, a, b, c
      <4> QED
        BY <3>1, <4>1 DEF k
    <3>11. ASSUME NEW j \in 1..m(i) PROVE r[j] = r[j - 1] + U[<<i, j>>]
      <4> DEFINE k == j - 1
                 u == U[<<i, j>>]
                 a == L[j]
                 b == L[k]
                 c == L[0]
      <4>1. /\ j \in 0..m(i) /\ k \in 0..m(i) /\ a = b - u
            /\ u \in Int /\ a \in Int /\ b \in Int /\ c \in Int
        BY <3>1, <3>5, <3>6, <3>7
      <4>2. r[j] = f - g + c - a /\ r[k] = f - g + c - b
        BY <3>8, <4>1
      <4> HIDE DEF k, u, a, b, c
      <4>3. r[j] = r[k] + u
        BY <3>1, <4>1, <4>2
      <4> QED
        BY <4>3 DEF k, u
    <3> QED
      BY <3>8, <3>9, <3>10, <3>11 DEF r, m
  <2> QED
    BY <2>1, <2>2 DEF CountsUp
<1>7. Weighs(U, Spots(levels))
  <2> SUFFICES ASSUME NEW p \in Spots(levels) PROVE U[p] \in Int
    BY DEF Weighs
  <2>1. U[<<p[1], p[2]>>] \in Int
    BY <1>3, <1>5 DEF UsedOf
  <2> QED
    BY <1>5, <2>1
<1>8. SumOver(U, Spots(levels)) = F[0] - F[n]
  <2>1. SumOver(U, Spots(levels)) = T[n]
    BY <1>6, <1>7, PlaceSum
  <2> QED
    BY <1>1, <2>1 DEF T
<1>9. ASSUME NEW i \in 1..n, F[i] > 0, Reaches(side, price, levels[i]), NEW j \in 1..m(i)
      PROVE  M[i][j] > 0
  <2>1. \A k, l \in 0..m(i) : k <= l => M[i][l] <= M[i][k]
    BY <1>1, <1>2, SpentFalls
  <2>2. j \in 0..m(i) /\ m(i) \in 0..m(i) /\ j <= m(i)
    BY <1>1
  <2>3. M[i][m(i)] <= M[i][j] /\ M[i][j] \in Nat /\ M[i][m(i)] \in Nat
    BY <1>2, <2>1, <2>2
  <2>4. M[i][m(i)] > 0
    BY <1>4, <1>9
  <2> QED
    BY <2>3, <2>4
<1>10. F[n] > 0 => \A i \in 0..n : F[i] > 0
  <2>1. \A i \in 1..n : F[i] <= F[i - 1]
    <3> SUFFICES ASSUME NEW i \in 1..n PROVE F[i] <= F[i - 1]
      OBVIOUS
    <3>1. \A k, l \in 0..m(i) : k <= l => M[i][l] <= M[i][k]
      BY <1>1, <1>2, SpentFalls
    <3>2. F[i - 1] \in Int
      BY <1>1
    <3>3. 0 \in 0..m(i) /\ m(i) \in 0..m(i) /\ 0 <= m(i)
      BY <1>1
    <3>4. CASE Reaches(side, price, levels[i])
      <4>1. M[i][m(i)] <= M[i][0]
        BY <3>1, <3>3
      <4> QED
        BY <1>4, <3>4, <4>1
    <3>5. CASE ~Reaches(side, price, levels[i])
      <4>1. F[i] = F[i - 1]
        BY <1>4, <3>5
      <4> QED
        BY <3>2, <4>1
    <3> QED
      BY <3>4, <3>5
  <2>2. \A i, k \in 0..n : i <= k => F[k] <= F[i]
    BY <1>1, <2>1, Falling
  <2>3. \A i \in 0..n : i <= n /\ F[i] \in Nat
    BY <1>1
  <2> QED
    BY <1>1, <2>2, <2>3
<1>11. ASSUME NEW p \in Spots(levels)
       PROVE  /\ UsedOf(levels, M, p) \in Nat /\ VolumeOf(levels, p) \in Nat
              /\ UsedOf(levels, M, p) <= VolumeOf(levels, p)
              /\ ~Reaches(side, price, levels[p[1]]) => UsedOf(levels, M, p) = 0
              /\ Reaches(side, price, levels[p[1]]) /\ F[n] > 0
                   => UsedOf(levels, M, p) = VolumeOf(levels, p)
  <2> DEFINE i == p[1]
             j == p[2]
             o == OrderAt(levels, p)
             a == UnitsAt(M, p)
             b == M[i][j]
  <2>1. i \in 1..n /\ j \in 1..m(i) /\ p = <<i, j>>
    BY <1>5
  <2> HIDE DEF i, j
  <2>2. o \in VirtualOrder /\ a \in Nat /\ a = M[i][j - 1] /\ b = a - UsedOf(levels, M, p)
    BY <1>3, <2>1
  <2>3. /\ PassOf(levels, M, p) = Pass(o, a) /\ TakeOf(levels, M, p) = Take(o, a)
        /\ UsedOf(levels, M, p) = Pass(o, a) + Take(o, a)
        /\ VolumeOf(levels, p) = o.qty_ahead + o.remaining_qty
    BY DEF PassOf, TakeOf, UsedOf, VolumeOf
  <2> HIDE DEF o, a, b
  <2>4. /\ Pass(o, a) \in Nat /\ Take(o, a) \in Nat
        /\ o.qty_ahead \in Nat /\ o.remaining_qty \in Nat
        /\ Pass(o, a) <= o.qty_ahead /\ Take(o, a) <= o.remaining_qty
        /\ Pass(o, a) < o.qty_ahead \/ Take(o, a) < o.remaining_qty
             => a - Pass(o, a) - Take(o, a) = 0
        /\ a = 0 => Pass(o, a) = 0 /\ Take(o, a) = 0
    BY <2>2, TakenIs
  <2>5. /\ UsedOf(levels, M, p) \in Nat /\ VolumeOf(levels, p) \in Nat
        /\ UsedOf(levels, M, p) <= VolumeOf(levels, p)
    BY <2>3, <2>4
  <2>6. ASSUME ~Reaches(side, price, levels[i]) PROVE UsedOf(levels, M, p) = 0
    <3>1. j - 1 \in 0..m(i)
      BY <1>1, <2>1
    <3>2. a = 0
      BY <1>4, <2>1, <2>2, <2>6, <3>1
    <3> QED
      BY <2>3, <2>4, <3>2
  <2>7. ASSUME Reaches(side, price, levels[i]), F[n] > 0
        PROVE  UsedOf(levels, M, p) = VolumeOf(levels, p)
    <3>1. F[i] > 0
      BY <1>1, <1>10, <2>1, <2>7
    <3>2. b > 0
      BY <1>9, <2>1, <2>7, <3>1 DEF b
    <3>3. a - Pass(o, a) - Take(o, a) # 0
      BY <2>2, <2>3, <2>4, <3>2
    <3>4. Pass(o, a) = o.qty_ahead /\ Take(o, a) = o.remaining_qty
      BY <2>4, <3>3
    <3> QED
      BY <2>3, <3>4
  <2> QED
    BY <2>5, <2>6, <2>7 DEF i
<1> QED
  BY <1>8, <1>11 DEF U, n

\* The volume at some places, as a sum.
LEMMA VolumeSum ==
  ASSUME NEW x, NEW side, x[side] \in LevelSeqs, NEW P \in SUBSET Spots(x[side])
  PROVE  /\ VolumeAt(x, side, P) = SumOver(Volumes(x[side]), P)
         /\ IsFiniteSet(P) /\ Weighs(Volumes(x[side]), P)
<1> DEFINE w == Volumes(x[side])
           f == CHOOSE g : g = [T \in SUBSET P |-> IF T = {} THEN 0
                  ELSE At(x, side, CHOOSE q \in T : TRUE).qty_ahead
                       + At(x, side, CHOOSE q \in T : TRUE).remaining_qty
                       + g[T \ {CHOOSE q \in T : TRUE}]]
<1>1. IsFiniteSet(P)
  BY SpotsFinite, FS_Subset
<1>2. \A p \in P : w[p] = At(x, side, p).qty_ahead + At(x, side, p).remaining_qty
  BY DEF Volumes, VolumeOf, At, OrderAt
<1>3. Weighs(w, P)
  <2>1. \A p \in Spots(x[side]) : OrderAt(x[side], p) \in VirtualOrder
    BY SpotIs
  <2>2. \A o \in VirtualOrder : o.qty_ahead + o.remaining_qty \in Int
    BY WordAssumption DEF VirtualOrder
  <2> QED
    BY <2>1, <2>2 DEF Weighs, Volumes, VolumeOf
<1>4. VolumeAt(x, side, P) = f[P]
  BY DEF VolumeAt, MapThenSumSet, MapThenFoldSet
<1>5. \A T \in SUBSET P : T # {} =>
        w[CHOOSE q \in T : TRUE] = At(x, side, CHOOSE q \in T : TRUE).qty_ahead
                                   + At(x, side, CHOOSE q \in T : TRUE).remaining_qty
  <2> SUFFICES ASSUME NEW T \in SUBSET P, T # {}
               PROVE  w[CHOOSE q \in T : TRUE] = At(x, side, CHOOSE q \in T : TRUE).qty_ahead
                                                 + At(x, side, CHOOSE q \in T : TRUE).remaining_qty
    OBVIOUS
  <2>1. (CHOOSE q \in T : TRUE) \in P
    OBVIOUS
  <2> HIDE DEF w
  <2> QED
    BY <1>2, <2>1
<1> HIDE DEF w
<1>6. PICK g : Unfolds(g, w, P)
  BY <1>1, <1>3, SumUnfolds
<1> DEFINE rec(h) == [T \in SUBSET P |-> IF T = {} THEN 0
                        ELSE At(x, side, CHOOSE q \in T : TRUE).qty_ahead
                             + At(x, side, CHOOSE q \in T : TRUE).remaining_qty
                             + h[T \ {CHOOSE q \in T : TRUE}]]
           sum(h) == [T \in SUBSET P |-> IF T = {} THEN 0
                        ELSE w[CHOOSE q \in T : TRUE] + h[T \ {CHOOSE q \in T : TRUE}]]
<1>7. ASSUME NEW h PROVE rec(h) = sum(h)
  <2> DEFINE a == rec(h)
             b == sum(h)
  <2>1. \A T \in SUBSET P : a[T] = b[T]
    BY <1>5
  <2>2. a = [T \in SUBSET P |-> a[T]] /\ b = [T \in SUBSET P |-> b[T]]
    OBVIOUS
  <2> HIDE DEF a, b
  <2>3. a = b
    BY <2>1, <2>2
  <2> QED
    BY <2>3 DEF a, b
<1>8. g = rec(g)
  <2>1. g = sum(g)
    BY <1>6 DEF Unfolds
  <2> HIDE DEF rec, sum
  <2> QED
    BY <1>7, <2>1
<1>9. f = rec(f)
  <2>1. f = CHOOSE h : h = rec(h)
    OBVIOUS
  <2> HIDE DEF f, rec
  <2> QED
    BY <1>8, <2>1
<1> HIDE DEF f
<1>10. Unfolds(f, w, P)
  <2>1. f = sum(f)
    <3> HIDE DEF rec, sum
    <3> QED
      BY <1>7, <1>9
  <2> QED
    BY <2>1 DEF Unfolds
<1>11. f[P] = SumOver(w, P)
  BY <1>1, <1>3, <1>10, SumUnfolds
<1> QED
  BY <1>1, <1>3, <1>4, <1>11 DEF w

\* A fill that leaves `left` uses the rest of its size.
Uses(side, price, levels, size, M, left, after) ==
  /\ left \in Nat /\ SumOver(Used(levels, M), Spots(levels)) = size - left
  /\ \A p \in Spots(levels) :
       /\ UsedOf(levels, M, p) \in Nat /\ VolumeOf(levels, p) \in Nat
       /\ UsedOf(levels, M, p) <= VolumeOf(levels, p)
       /\ ~Reaches(side, price, levels[p[1]]) => UsedOf(levels, M, p) = 0
       /\ Reaches(side, price, levels[p[1]]) /\ left > 0
            => UsedOf(levels, M, p) = VolumeOf(levels, p)
  /\ \A p \in Spots(levels) : UnitsAt(M, p) \in Nat
  /\ OrdersOf(after) = {RestOf(levels, M, p) : p \in OpenSpots(levels, M)}

\* Every fill of a good side does so.
LEMMA FillUses ==
  ASSUME NEW x, NEW side, NEW price \in Prices, NEW size \in Nat, SideGood(side, x[side])
  PROVE  \E M, left : Uses(side, price, x[side], size, M, left,
                           Occupied(FillWalk(x, side, price, size).levels))
<1> DEFINE levels == x[side]
           n == Len(levels)
           after == FillWalk(x, side, price, size).levels
<1>1. levels \in LevelSeqs /\ Sorted(side, levels) /\ n \in Nat
  BY AppendedLevels DEF SideGood
<1>2. PICK F, N : Passage(side, price, levels, size, after, F, N)
  BY <1>1, SideWalk
<1> HIDE DEF levels, after
<1>3. PICK M : Course(side, price, levels, after, F, N, M)
  BY <1>1, <1>2, CourseIs
<1>4. after \in LevelSeqs /\ Len(after) = Len(levels) /\ F \in [0..Len(levels) -> Nat]
  BY <1>2 DEF Passage
<1>10. F[0] = size
  BY <1>2 DEF Passage
<1>5. \A p \in Spots(levels) : UnitsAt(M, p) \in Nat
  BY <1>1, <1>3, <1>4, UnitsFall
<1>6. OrdersOf(Occupied(after)) = {RestOf(levels, M, p) : p \in OpenSpots(levels, M)}
  <2>1. OrdersOf(Occupied(after)) = OrdersOf(after)
    BY <1>4, OccupiedOrders
  <2>2. OrdersOf(after) = {RestOf(levels, M, p) : p \in OpenSpots(levels, M)}
    BY <1>1, <1>3, <1>4, FilledOrders
  <2> QED
    BY <2>1, <2>2
<1>7. /\ SumOver(Used(levels, M), Spots(levels)) = F[0] - F[Len(levels)]
      /\ \A p \in Spots(levels) :
           /\ UsedOf(levels, M, p) \in Nat /\ VolumeOf(levels, p) \in Nat
           /\ UsedOf(levels, M, p) <= VolumeOf(levels, p)
           /\ ~Reaches(side, price, levels[p[1]]) => UsedOf(levels, M, p) = 0
           /\ Reaches(side, price, levels[p[1]]) /\ F[Len(levels)] > 0
                => UsedOf(levels, M, p) = VolumeOf(levels, p)
  BY <1>1, <1>3, <1>4, UseIs, SMTT(60)
<1>8. F[n] \in Nat
  BY <1>1, <1>4
<1>9. Uses(side, price, levels, size, M, F[n], Occupied(after))
  BY <1>4, <1>5, <1>6, <1>7, <1>8, <1>10 DEF Uses
<1> QED
  BY <1>9 DEF levels, after

\* What a fill uses, the side loses.
LEMMA LeftVolume ==
  ASSUME NEW side, NEW price, NEW levels, SideGood(side, levels), NEW size, NEW M, NEW left,
         NEW after, SideGood(side, after), Uses(side, price, levels, size, M, left, after)
  PROVE  /\ SumOver(Volumes(levels), Spots(levels))
              = SumOver(Volumes(after), Spots(after)) + SumOver(Used(levels, M), Spots(levels))
         /\ SumOver(Volumes(after), Spots(after)) \in Int
<1> DEFINE S == Spots(levels)
           R == Spots(after)
           u == Used(levels, M)
           v == Volumes(after)
           w == [p \in S |-> VolumeOf(levels, p) - UsedOf(levels, M, p)]
           at == [q \in R |-> CHOOSE p \in OpenSpots(levels, M) : OrderAt(after, q) = RestOf(levels, M, p)]
<1>1. levels \in LevelSeqs /\ after \in LevelSeqs
  BY DEF SideGood
<1>2. IsFiniteSet(S) /\ IsFiniteSet(R)
  BY <1>1, SpotsFinite
<1>3. OrdersOf(after) = {RestOf(levels, M, p) : p \in OpenSpots(levels, M)}
  BY DEF Uses
<1>4. OrdersOf(after) = {OrderAt(after, q) : q \in R}
  BY <1>1, OrdersAre
<1>5. ASSUME NEW p \in S
      PROVE  /\ VolumeOf(levels, p) \in Nat /\ UsedOf(levels, M, p) \in Nat
             /\ RestOf(levels, M, p).order_id = OrderAt(levels, p).order_id
             /\ RestOf(levels, M, p).qty_ahead + RestOf(levels, M, p).remaining_qty
                  = VolumeOf(levels, p) - UsedOf(levels, M, p)
             /\ p \notin OpenSpots(levels, M) => VolumeOf(levels, p) - UsedOf(levels, M, p) = 0
  <2> DEFINE o == OrderAt(levels, p)
             r == RestOf(levels, M, p)
             a == PassOf(levels, M, p)
             b == TakeOf(levels, M, p)
  <2>1. UnitsAt(M, p) \in Nat /\ VolumeOf(levels, p) \in Nat /\ UsedOf(levels, M, p) \in Nat
    BY DEF Uses
  <2>2. /\ o.qty_ahead \in Nat /\ o.remaining_qty \in Nat \ {0} /\ a \in Nat /\ b \in Nat
        /\ a <= o.qty_ahead /\ b <= o.remaining_qty /\ (b > 0 => a = o.qty_ahead)
        /\ r.order_id = o.order_id
        /\ r.qty_ahead = o.qty_ahead - a /\ r.remaining_qty = o.remaining_qty - b
    BY <1>1, <2>1, TakeIs
  <2>3. VolumeOf(levels, p) = o.qty_ahead + o.remaining_qty /\ UsedOf(levels, M, p) = a + b
    BY DEF VolumeOf, UsedOf
  <2>4. p \notin OpenSpots(levels, M) => ~(o.remaining_qty - b > 0)
    BY DEF OpenSpots
  <2> HIDE DEF o, r, a, b
  <2>5. r.qty_ahead + r.remaining_qty = VolumeOf(levels, p) - UsedOf(levels, M, p)
    BY <2>2, <2>3
  <2>6. p \notin OpenSpots(levels, M) => VolumeOf(levels, p) - UsedOf(levels, M, p) = 0
    BY <2>2, <2>3, <2>4
  <2> QED
    BY <2>1, <2>2, <2>5, <2>6 DEF o, r
<1>6. \A p \in OpenSpots(levels, M) : p \in S
  BY DEF OpenSpots
<1>7. \A p, q \in S : OrderAt(levels, p).order_id = OrderAt(levels, q).order_id => p = q
  BY SpotsDiffer
<1>8. \A p, q \in R : OrderAt(after, p).order_id = OrderAt(after, q).order_id => p = q
  BY SpotsDiffer
<1>9. ASSUME NEW q \in R
      PROVE  at[q] \in OpenSpots(levels, M) /\ OrderAt(after, q) = RestOf(levels, M, at[q])
  <2>1. \E p \in OpenSpots(levels, M) : OrderAt(after, q) = RestOf(levels, M, p)
    BY <1>3, <1>4
  <2> QED
    BY <2>1
<1> HIDE DEF at
<1>10. at \in [R -> S]
  <2>1. at = [q \in R |-> at[q]]
    BY DEF at
  <2>2. \A q \in R : at[q] \in S
    BY <1>6, <1>9
  <2> HIDE DEF R, S
  <2> QED
    BY <2>1, <2>2
<1>11. \A x, y \in R : at[x] = at[y] => x = y
  BY <1>8, <1>9
<1>12. \A x \in R : v[x] = w[at[x]]
  <2> SUFFICES ASSUME NEW x \in R PROVE v[x] = w[at[x]]
    OBVIOUS
  <2>1. v[x] = OrderAt(after, x).qty_ahead + OrderAt(after, x).remaining_qty
    BY DEF Volumes, VolumeOf
  <2>2. at[x] \in S /\ OrderAt(after, x) = RestOf(levels, M, at[x])
    BY <1>6, <1>9
  <2>3. w[at[x]] = VolumeOf(levels, at[x]) - UsedOf(levels, M, at[x])
    BY <2>2
  <2> QED
    BY <1>5, <2>1, <2>2, <2>3
<1>13. \A s \in S : (\E x \in R : at[x] = s) \/ w[s] = 0
  <2> SUFFICES ASSUME NEW s \in S, w[s] # 0 PROVE \E x \in R : at[x] = s
    OBVIOUS
  <2>1. s \in OpenSpots(levels, M)
    BY <1>5
  <2>2. PICK x \in R : OrderAt(after, x) = RestOf(levels, M, s)
    BY <1>3, <1>4, <2>1
  <2>3. at[x] \in S /\ RestOf(levels, M, at[x]) = RestOf(levels, M, s)
    BY <1>6, <1>9, <2>2
  <2>4. OrderAt(levels, at[x]).order_id = OrderAt(levels, s).order_id
    <3>1. /\ RestOf(levels, M, at[x]).order_id = OrderAt(levels, at[x]).order_id
          /\ RestOf(levels, M, s).order_id = OrderAt(levels, s).order_id
      BY <1>5, <2>3
    <3> QED
      BY <2>3, <3>1
  <2> QED
    BY <1>7, <2>3, <2>4
<1>14. Weighs(w, S) /\ Weighs(u, S) /\ \A p \in S : Volumes(levels)[p] = w[p] + u[p]
  <2> SUFFICES ASSUME NEW p \in S
               PROVE  w[p] \in Int /\ u[p] \in Int /\ Volumes(levels)[p] = w[p] + u[p]
    BY DEF Weighs
  <2>1. /\ w[p] = VolumeOf(levels, p) - UsedOf(levels, M, p) /\ u[p] = UsedOf(levels, M, p)
        /\ Volumes(levels)[p] = VolumeOf(levels, p)
    BY DEF Used, Volumes
  <2> QED
    BY <1>5, <2>1
<1>15. Weighs(v, R)
  <2> SUFFICES ASSUME NEW x \in R PROVE v[x] \in Int
    BY DEF Weighs
  <2>1. at[x] \in S /\ v[x] = w[at[x]]
    BY <1>10, <1>12
  <2> HIDE DEF v, w, S
  <2> QED
    BY <1>14, <2>1 DEF Weighs
<1> HIDE DEF u, v, w, S, R
<1>16. SumOver(w, S) = SumOver(v, R)
  BY <1>2, <1>10, <1>11, <1>12, <1>13, <1>14, <1>15, SumAlong
<1>17. SumOver(Volumes(levels), S) = SumOver(w, S) + SumOver(u, S)
  BY <1>2, <1>14, SumPlus
<1>18. SumOver(v, R) \in Int
  BY <1>2, <1>15, SumWithout
<1> QED
  BY <1>16, <1>17, <1>18 DEF u, v, S, R

\* The places that a fill reaches.
Reached(side, price, levels) == {p \in Spots(levels) : Reaches(side, price, levels[p[1]])}

\* A fill uses its size, or the volume of all that it reaches.
LEMMA UseIsLesser ==
  ASSUME NEW side, NEW price, NEW levels \in LevelSeqs, NEW size \in Nat, NEW M, NEW left, NEW after,
         Uses(side, price, levels, size, M, left, after)
  PROVE  SumOver(Used(levels, M), Spots(levels))
           = MinOf(SumOver(Volumes(levels), Reached(side, price, levels)), size)
<1> DEFINE S == Spots(levels)
           R == Reached(side, price, levels)
           u == Used(levels, M)
           v == Volumes(levels)
           at == [p \in R |-> p]
<1>1. IsFiniteSet(S) /\ R \in SUBSET S /\ IsFiniteSet(R)
  <2>1. IsFiniteSet(S) /\ R \in SUBSET S
    BY SpotsFinite DEF Reached
  <2> QED
    BY <2>1, FS_Subset
<1>2. \A p \in S : u[p] = UsedOf(levels, M, p) /\ v[p] = VolumeOf(levels, p)
  BY DEF Used, Volumes
<1>3. /\ left \in Nat /\ SumOver(u, S) = size - left
      /\ \A p \in S : u[p] \in Nat /\ v[p] \in Nat /\ u[p] <= v[p]
      /\ \A p \in S : p \notin R => u[p] = 0
      /\ left > 0 => \A p \in R : u[p] = v[p]
  <2>1. left \in Nat /\ SumOver(u, S) = size - left
    BY DEF Uses
  <2>2. \A p \in S : /\ UsedOf(levels, M, p) \in Nat /\ VolumeOf(levels, p) \in Nat
                     /\ UsedOf(levels, M, p) <= VolumeOf(levels, p)
                     /\ p \notin R => UsedOf(levels, M, p) = 0
                     /\ p \in R /\ left > 0 => UsedOf(levels, M, p) = VolumeOf(levels, p)
    BY DEF Uses, Reached
  <2> HIDE DEF u, v, R
  <2> QED
    BY <1>1, <1>2, <2>1, <2>2
<1>4. at \in [R -> S] /\ \A p \in R : at[p] = p
  BY <1>1
<1> HIDE DEF S, R, u, v, at
<1>5. Weighs(u, S) /\ Weighs(u, R) /\ Weighs(v, R)
  BY <1>1, <1>3 DEF Weighs
<1>6. SumOver(u, S) = SumOver(u, R)
  <2>1. \A x, y \in R : at[x] = at[y] => x = y
    BY <1>4
  <2>2. \A x \in R : u[x] = u[at[x]]
    BY <1>4
  <2>3. \A s \in S : (\E x \in R : at[x] = s) \/ u[s] = 0
    BY <1>3, <1>4
  <2> QED
    BY <1>1, <1>4, <1>5, <2>1, <2>2, <2>3, SumAlong
<1>7. SumOver(u, R) <= SumOver(v, R)
  <2>1. \A x \in R : u[x] <= v[x]
    BY <1>1, <1>3
  <2> QED
    BY <1>1, <1>5, <2>1, SumOrder
<1>8. left > 0 => SumOver(u, R) = SumOver(v, R)
  BY <1>1, <1>3, <1>5, SumSame
<1>9. SumOver(u, R) \in Int /\ SumOver(v, R) \in Int
  BY <1>1, <1>5, SumWithout
<1> DEFINE a == SumOver(u, R)
           b == SumOver(v, R)
<1>10. /\ a = size - left /\ a <= b /\ a \in Int /\ b \in Int /\ left \in Nat
       /\ left > 0 => a = b
  BY <1>3, <1>6, <1>7, <1>8, <1>9
<1> HIDE DEF a, b
<1>11. a = MinOf(b, size)
  <2>1. CASE left > 0
    <3>1. a = b /\ b < size
      BY <1>10, <2>1
    <3> QED
      BY <3>1 DEF MinOf
  <2>2. CASE left = 0
    <3>1. a = size /\ ~(b < size)
      BY <1>10, <2>2
    <3> QED
      BY <3>1 DEF MinOf
  <2> QED
    BY <1>10, <2>1, <2>2
<1> QED
  BY <1>6, <1>11 DEF a, b, u, v, S, R

\* What VolumeUsed says of a step.
UsedUp ==
  LET side    == call'.side
      reached == {p \in Places(vx, side) : ~Better(side, call'.price, vx[side][p[1]].price)}
      before  == VolumeAt(vx, side, reached)
  IN  VolumeAt(vx, side, Places(vx, side)) - VolumeAt(vx', side, Places(vx', side))
        = MinOf(before, call'.size)

\* A fill uses up its size, or all that it reaches.
LEMMA FillUsesUp ==
  ASSUME IInv, IInv', Fill
  PROVE  UsedUp
<1>1. PICK side \in Sides, price \in Prices, size \in FillSizes :
        /\ call' = [op |-> "fill", side |-> side, price |-> price, size |-> size]
        /\ vx' = OnFill(vx, side, price, size)
  BY DEF Fill
<1> DEFINE levels == vx[side]
           now == vx'[side]
           reached == Reached(side, price, levels)
<1>2. call'.side = side /\ call'.price = price /\ call'.size = size
  BY <1>1
<1>3. /\ vx \in [Sides -> LevelSeqs] /\ SideGood(side, levels) /\ SideGood(side, now) /\ size \in Nat
      /\ levels \in LevelSeqs /\ now \in LevelSeqs
  BY ClientAssumption DEF IInv, BothGood, SideGood
<1>4. now = Occupied(FillWalk(vx, side, price, size).levels)
  BY <1>1, <1>3 DEF OnFill
<1>5. PICK M, left : Uses(side, price, levels, size, M, left, now)
  <2>1. \E M, left : Uses(side, price, vx[side], size, M, left,
                          Occupied(FillWalk(vx, side, price, size).levels))
    BY <1>3, FillUses
  <2> QED
    BY <1>4, <2>1
<1>6. VolumeAt(vx, side, Spots(levels)) = SumOver(Volumes(levels), Spots(levels))
  BY <1>3, VolumeSum
<1>7. VolumeAt(vx', side, Spots(now)) = SumOver(Volumes(now), Spots(now))
  BY <1>3, VolumeSum
<1>8. VolumeAt(vx, side, reached) = SumOver(Volumes(levels), reached)
  BY <1>3, VolumeSum DEF Reached
<1>9. /\ SumOver(Volumes(levels), Spots(levels))
            = SumOver(Volumes(now), Spots(now)) + SumOver(Used(levels, M), Spots(levels))
      /\ SumOver(Volumes(now), Spots(now)) \in Int
  BY <1>3, <1>5, LeftVolume
<1>10. SumOver(Used(levels, M), Spots(levels)) = MinOf(SumOver(Volumes(levels), reached), size)
  BY <1>3, <1>5, UseIsLesser
<1>11. SumOver(Used(levels, M), Spots(levels)) \in Int
  BY <1>3, <1>5 DEF Uses
<1>12. Places(vx, side) = Spots(levels) /\ Places(vx', side) = Spots(now)
  BY DEF Places, Spots
<1>13. {p \in Places(vx, side) : ~Better(side, price, vx[side][p[1]].price)} = reached
  BY <1>12 DEF Reached, Reaches
<1> DEFINE a == SumOver(Volumes(levels), Spots(levels))
           b == SumOver(Volumes(now), Spots(now))
           c == SumOver(Used(levels, M), Spots(levels))
<1>14. a - b = c
  <2>1. a = b + c /\ b \in Int /\ c \in Int
    BY <1>9, <1>11
  <2> HIDE DEF a, b, c
  <2> QED
    BY <2>1
<1>15. VolumeAt(vx, side, Places(vx, side)) - VolumeAt(vx', side, Places(vx', side))
         = MinOf(VolumeAt(vx, side, reached), size)
  BY <1>6, <1>7, <1>8, <1>10, <1>12, <1>14
<1> HIDE DEF reached, levels, now, a, b, c
<1> QED
  BY <1>2, <1>13, <1>15 DEF UsedUp

\* A fill uses up its size in volume at the levels it reaches, or all that they have:
\* on_fill goes on with what is left of its size, and counts neither the volume in front
\* of an order nor what it fills of it twice.
THEOREM VolumeIsUsed == Spec => VolumeUsed
<1>1. IInv /\ [Next]_vars => [call'.op = "fill" => UsedUp]_vars
  <2> SUFFICES ASSUME IInv, Next, call'.op = "fill" PROVE UsedUp
    OBVIOUS
  <2>1. ~CreateOrder /\ ~CancelOrder
    BY DEF CreateOrder, CancelOrder
  <2>2. IInv'
    BY NextGood
  <2> QED
    BY <2>1, <2>2, FillUsesUp DEF Next
<1>2. Spec => [][call'.op = "fill" => UsedUp]_vars
  BY <1>1, ExchangeIInv, PTL DEF Spec
<1> QED
  BY <1>2, PTL DEF VolumeUsed, UsedUp
====
