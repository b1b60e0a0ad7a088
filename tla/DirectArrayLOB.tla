---- MODULE DirectArrayLOB ----
(* The order book whose levels are found by arithmetic: one array of levels for
   each side, anchored at the first price seen
   (LimitOrderBook/DataBentoLOB/DirectArrayLOB.h).

   A book is a record
     nodes, free, id_map = as in OptimizedDataBentoLOB,
     levels = for each side the array of levels,
     best   = for each side the cached best price, or Undef,
     base   = the price at the middle of the arrays, or Undef,
     error  = what the code has thrown, or "none".
   The price of a level without quantity and the content of a free node are never
   read; the model forgets them.  Top-of-book messages (IsTob) are not modelled:
   the feed reports every order. *)
EXTENDS Integers, Sequences, FiniteSets, FiniteSetsExt

CONSTANTS MaxOrders, IdMapCapacity,
          LobCapacity, \* levels in each array
          TickSize,
          ScanTicks    \* the search for the next best price gives up after so many

ASSUME LobAssumption == /\ MaxOrders \in Nat /\ IdMapCapacity \in Nat /\ MaxOrders < IdMapCapacity
                        /\ LobCapacity \in Nat \ {0} /\ TickSize \in Nat \ {0} /\ ScanTicks \in Nat

Pool == INSTANCE ObjectPool WITH PoolCapacity <- MaxOrders
IdMap == INSTANCE FlatHashMap WITH MapCapacity <- IdMapCapacity

Undef == 0
None == -1
NoIndex == -1
Sides == {"Bid", "Ask"}
Places == 0..(LobCapacity - 1)

NoNode == [order_id |-> 0, side |-> "None", price |-> 0, size |-> 0,
           next_idx |-> None, prev_idx |-> None]
NoLevel == [price |-> 0, total_qty |-> 0, head_idx |-> None, tail_idx |-> None]

EmptyLob == [nodes  |-> [n \in Pool!Indices |-> NoNode], free |-> Pool!AllFree,
             id_map |-> IdMap!EmptyMap,
             levels |-> [side \in Sides |-> [i \in Places |-> NoLevel]],
             best   |-> [side \in Sides |-> Undef], base |-> Undef, error |-> "none"]

NodeOf(b, id) == IdMap!Find(b.id_map, id)

---------------------------------------------------------------------------
\* C++ division rounds towards zero.
Quotient(a, d) == IF a >= 0 THEN a \div d ELSE -((-a) \div d)

\* price_to_index: an offset from the middle of the array, NoIndex beyond its ends.
IndexOf(base, price) ==
  LET i == LobCapacity \div 2 + Quotient(price - base, TickSize)
  IN  IF base = Undef THEN LobCapacity \div 2 ELSE IF i \in Places THEN i ELSE NoIndex

Better(side, p, q) == IF side = "Bid" THEN p > q ELSE p < q

\* The price k ticks behind p.
Behind(side, p, k) == IF side = "Bid" THEN p - k * TickSize ELSE p + k * TickSize

IsAlive(b, side, price) ==
  LET i == IndexOf(b.base, price)
  IN  /\ i # NoIndex
      /\ b.levels[side][i].total_qty > 0 /\ b.levels[side][i].price = price

\* recompute_best_bid and recompute_best_ask, for a best level that is now empty.
Rescanned(b, side) ==
  LET found == {k \in 1..(ScanTicks - 1) : IsAlive(b, side, Behind(side, b.best[side], k))}
  IN  [b EXCEPT !.best[side] = IF found = {} THEN Undef ELSE Behind(side, @, Min(found))]

\* Node n becomes the tail of a level, or leaves it.
Linked(b, side, i, n) ==
  LET tail == b.levels[side][i].tail_idx
  IN  [b EXCEPT
         !.nodes = [k \in DOMAIN @ |-> IF k = n THEN [@[k] EXCEPT !.next_idx = None, !.prev_idx = tail]
                                       ELSE IF k = tail THEN [@[k] EXCEPT !.next_idx = n] ELSE @[k]],
         !.levels[side][i].head_idx = IF @ = None THEN n ELSE @,
         !.levels[side][i].tail_idx = n]

UnlinkedForwardOnly(b, side, i, n) ==
  LET next == b.nodes[n].next_idx
      prev == b.nodes[n].prev_idx
  IN  [b EXCEPT
         !.nodes = [k \in DOMAIN @ |-> IF k = prev THEN [@[k] EXCEPT !.next_idx = next] ELSE @[k]],
         !.levels[side][i].head_idx = IF prev = None THEN next ELSE @,
         !.levels[side][i].tail_idx = IF next = None THEN prev ELSE @]

Unlinked(b, side, i, n) ==
  LET next == b.nodes[n].next_idx
      prev == b.nodes[n].prev_idx
  IN  [b EXCEPT
         !.nodes = [k \in DOMAIN @ |-> IF k = prev THEN [@[k] EXCEPT !.next_idx = next]
                                       ELSE IF k = next THEN [@[k] EXCEPT !.prev_idx = prev] ELSE @[k]],
         !.levels[side][i].head_idx = IF prev = None THEN next ELSE @,
         !.levels[side][i].tail_idx = IF next = None THEN prev ELSE @]

---------------------------------------------------------------------------
Throw(b, what) == [b EXCEPT !.error = what]

\* The first price after a clear is the middle of the arrays from then on.
Anchored(b, price) == [b EXCEPT !.base = IF @ = Undef THEN price ELSE @]

\* An order for which there is a bucket becomes the last of its level.
Placed(b, m, i) ==
  LET n == Pool!Allocated(b.free)
      node == [order_id |-> m.order_id, side |-> m.side, price |-> m.price, size |-> m.size,
               next_idx |-> None, prev_idx |-> None]
      stored == [b EXCEPT !.free = Pool!AfterAllocate(@),
                          !.nodes[n] = node,
                          !.id_map = IdMap!Insert(@, m.order_id, n),
                          !.levels[m.side][i].price = m.price,
                          !.levels[m.side][i].total_qty = @ + m.size,
                          !.best[m.side] = IF @ = Undef \/ Better(m.side, m.price, @)
                                           THEN m.price ELSE @]
  IN  Linked(stored, m.side, i, n)

\* add_order: an order out of reach is dropped.
AddOrder(b, m) ==
  LET a     == Anchored(b, m.price)
      i     == IndexOf(a.base, m.price)
      level == a.levels[m.side][i]
  IN  IF i = NoIndex THEN a
      ELSE IF level.total_qty > 0 /\ level.price # m.price THEN Throw(a, "DirectArrayLOB Collision")
      ELSE IF Pool!Exhausted(a.free) THEN Throw(a, "ObjectPool exhausted")
      ELSE Placed(a, m, i)

\* The order at node n is gone.
RemovedKeepingBest(b, n, i) ==
  LET node == b.nodes[n]
      u    == Unlinked(b, node.side, i, n)
  IN  [u EXCEPT !.nodes[n] = NoNode,
                !.id_map = IdMap!Erase(@, node.order_id),
                !.free = Pool!AfterDeallocate(@, n),
                !.levels[node.side][i] = IF @.total_qty = 0 THEN NoLevel ELSE @]

Removed(b, n, i) ==
  LET node == b.nodes[n]
      left == RemovedKeepingBest(b, n, i)
  IN  IF left.levels[node.side][i].total_qty = 0 /\ node.price = left.best[node.side]
      THEN Rescanned(left, node.side) ELSE left

TakenBlindly(size, asked) == asked

\* How much of an order a cancel takes.
Taken(size, asked) == Min({size, asked})

\* cancel_order: an order that is not there is ignored.
CancelOrder(b, id, asked) ==
  LET n     == NodeOf(b, id)
      node  == b.nodes[n]
      i     == IndexOf(b.base, node.price)
      taken == Taken(node.size, asked)
      left  == [b EXCEPT !.nodes[n].size = @ - taken,
                         !.levels[node.side][i].total_qty = @ - taken]
  IN  IF n = None \/ i = NoIndex THEN b
      ELSE IF node.size = taken THEN Removed(left, n, i) ELSE left

\* An order that grows loses its place in the queue.
Resized(b, n, size) ==
  LET node == b.nodes[n]
      i    == IndexOf(b.base, node.price)
      set  == [b EXCEPT !.nodes[n].size = size,
                        !.levels[node.side][i].total_qty = @ - node.size + size]
  IN  IF i = NoIndex THEN b
      ELSE IF size > node.size /\ n # b.levels[node.side][i].tail_idx
      THEN Linked(Unlinked(set, node.side, i, n), node.side, i, n)
      ELSE set

\* modify_order
ModifyOrder(b, m) ==
  LET n == NodeOf(b, m.order_id)
  IN  IF n = None THEN AddOrder(b, m)
      ELSE IF b.nodes[n].price # m.price
      THEN AddOrder(CancelOrder(b, m.order_id, b.nodes[n].size), m)
      ELSE Resized(b, n, m.size)

ClearKeepsBase(b) ==
  [EmptyLob EXCEPT !.free = b.free, !.error = b.error, !.base = b.base]

\* clear_book: the nodes are not given back to the pool.
ClearBook(b) == [EmptyLob EXCEPT !.free = b.free, !.error = b.error]

UpdateBook(b, m) ==
  CASE m.action = "Add"    -> AddOrder(b, m)
    [] m.action = "Modify" -> ModifyOrder(b, m)
    [] m.action = "Cancel" -> CancelOrder(b, m.order_id, m.size)
    [] m.action = "Clear"  -> ClearBook(b)

---------------------------------------------------------------------------
\* get_level_qty
LevelQty(b, side, price) ==
  LET i == IndexOf(b.base, price)
  IN  IF i # NoIndex /\ b.levels[side][i].price = price THEN b.levels[side][i].total_qty ELSE 0
====
