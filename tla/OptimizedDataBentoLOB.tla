---- MODULE OptimizedDataBentoLOB ----
(* The order book with pooled nodes and sorted level vectors
   (LimitOrderBook/DataBentoLOB/OptimizedDataBentoLOB.cpp).

   A book is a record
     nodes  = the node at every index of the pool, with the order and its links,
     free   = the pool's stack of free indices,
     id_map = the hash map from order ids to nodes,
     levels = for each side its levels, worst price first and best price last,
     error  = what the code has thrown, or "none".
   A level without orders stays in the middle of its side as a tombstone, and is
   dropped once it is at the end.  The content of a free node is never read; the
   model forgets it.  Top-of-book messages (IsTob) are not modelled: the feed
   reports every order. *)
EXTENDS Integers, Sequences, SequencesExt, FiniteSets

CONSTANTS MaxOrders, IdMapCapacity

ASSUME LobAssumption == MaxOrders \in Nat /\ IdMapCapacity \in Nat /\ MaxOrders < IdMapCapacity

Pool == INSTANCE ObjectPool WITH PoolCapacity <- MaxOrders
IdMap == INSTANCE FlatHashMap WITH MapCapacity <- IdMapCapacity

None == -1
NoNode == [order_id |-> 0, side |-> "None", price |-> 0, size |-> 0,
           next_idx |-> None, prev_idx |-> None]

EmptyLob == [nodes  |-> [n \in Pool!Indices |-> NoNode], free |-> Pool!AllFree,
             id_map |-> IdMap!EmptyMap,
             levels |-> [side \in {"Bid", "Ask"} |-> <<>>], error |-> "none"]

NodeOf(b, id) == IdMap!Find(b.id_map, id)

---------------------------------------------------------------------------
\* Bids are sorted ascending, asks descending: p comes before q.
Worse(side, p, q) == IF side = "Bid" THEN p < q ELSE p > q

\* find_price_level makes the level if there is none: the place it has then, and
\* the side's levels with it.
PlaceOf(levels, side, price) ==
  1 + Cardinality({i \in DOMAIN levels : Worse(side, levels[i].price, price)})

WithLevel(levels, side, price) ==
  IF \E i \in DOMAIN levels : levels[i].price = price THEN levels
  ELSE InsertAt(levels, PlaceOf(levels, side, price),
                [price |-> price, total_qty |-> 0, head_idx |-> None, tail_idx |-> None])

\* add_order: the new node becomes the tail of its level.  The level is there even
\* if the pool then throws.
AddOrder(b, m) ==
  LET levels == WithLevel(b.levels[m.side], m.side, m.price)
      i      == PlaceOf(levels, m.side, m.price)
      n      == Pool!Allocated(b.free)
      tail   == levels[i].tail_idx
      node   == [order_id |-> m.order_id, side |-> m.side, price |-> m.price, size |-> m.size,
                 next_idx |-> None, prev_idx |-> tail]
      linked == IF tail = None THEN b.nodes ELSE [b.nodes EXCEPT ![tail].next_idx = n]
  IN  IF Pool!Exhausted(b.free)
      THEN [b EXCEPT !.levels[m.side] = levels, !.error = "ObjectPool exhausted"]
      ELSE [b EXCEPT
              !.nodes = [linked EXCEPT ![n] = node],
              !.free = Pool!AfterAllocate(@),
              !.id_map = IdMap!Insert(@, m.order_id, n),
              !.levels[m.side] =
                 [levels EXCEPT ![i].head_idx = IF @ = None THEN n ELSE @,
                                ![i].tail_idx = n,
                                ![i].total_qty = @ + m.size]]

---------------------------------------------------------------------------
\* The nodes around n are linked to each other.
Unlink(nodes, n) ==
  LET next == nodes[n].next_idx
      prev == nodes[n].prev_idx
  IN  [k \in DOMAIN nodes |->
         IF k = prev THEN [nodes[k] EXCEPT !.next_idx = next]
         ELSE IF k = next THEN [nodes[k] EXCEPT !.prev_idx = prev]
         ELSE nodes[k]]

TrimNothing(levels) == levels

\* The levels without quantity at the end of a side are dropped.
Trim(levels) ==
  SubSeq(levels, 1, CHOOSE k \in 0..Len(levels) :
                      /\ k > 0 => levels[k].total_qty # 0
                      /\ \A i \in (k + 1)..Len(levels) : levels[i].total_qty = 0)

\* A node whose order is gone leaves its level, the id map and the pool.
RemoveNode(b, n, i) ==
  LET node  == b.nodes[n]
      level == b.levels[node.side][i]
      left  == [level EXCEPT !.head_idx = IF node.prev_idx = None THEN node.next_idx ELSE @,
                             !.tail_idx = IF node.next_idx = None THEN node.prev_idx ELSE @]
      levels == [b.levels[node.side] EXCEPT ![i] = left]
  IN  [b EXCEPT !.nodes = [Unlink(@, n) EXCEPT ![n] = NoNode],
                !.free = Pool!AfterDeallocate(@, n),
                !.id_map = IdMap!Erase(@, node.order_id),
                !.levels[node.side] = IF left.head_idx = None THEN Trim(levels) ELSE levels]

TakenBlindly(size, asked) == asked

\* How much of an order a cancel takes.
Taken(size, asked) == IF asked < size THEN asked ELSE size

\* cancel_order: an order that is not there is ignored.
CancelOrder(b, id, asked) ==
  LET n     == NodeOf(b, id)
      node  == b.nodes[n]
      i     == PlaceOf(b.levels[node.side], node.side, node.price)
      taken == Taken(node.size, asked)
      left  == [b EXCEPT !.nodes[n].size = @ - taken,
                         !.levels[node.side][i].total_qty = @ - taken]
  IN  IF n = None THEN b
      ELSE IF node.size = taken THEN RemoveNode(left, n, i) ELSE left

Resize(b, n, size) ==
  LET node == b.nodes[n]
      i    == PlaceOf(b.levels[node.side], node.side, node.price)
  IN  [b EXCEPT !.nodes[n].size = size,
                !.levels[node.side][i].total_qty = @ - node.size + size]

ModifyAsReplace(b, m) ==
  LET n == NodeOf(b, m.order_id)
  IN  IF n = None THEN AddOrder(b, m)
      ELSE AddOrder(CancelOrder(b, m.order_id, b.nodes[n].size), m)

\* modify_order: an order at another price is cancelled and added again.
ModifyOrder(b, m) ==
  LET n == NodeOf(b, m.order_id)
  IN  IF n = None THEN AddOrder(b, m)
      ELSE IF b.nodes[n].price # m.price
      THEN AddOrder(CancelOrder(b, m.order_id, b.nodes[n].size), m)
      ELSE Resize(b, n, m.size)

\* clear_book: the nodes are not given back to the pool.
ClearBook(b) ==
  [b EXCEPT !.nodes = EmptyLob.nodes, !.id_map = IdMap!EmptyMap, !.levels = EmptyLob.levels]

UpdateBook(b, m) ==
  CASE m.action = "Add"    -> AddOrder(b, m)
    [] m.action = "Modify" -> ModifyOrder(b, m)
    [] m.action = "Cancel" -> CancelOrder(b, m.order_id, m.size)
    [] m.action = "Clear"  -> ClearBook(b)

---------------------------------------------------------------------------
\* get_bbo: the last level of a side that has quantity, or 0 for kUndefPrice.
Best(b, side) ==
  LET levels == b.levels[side]
      alive  == {i \in DOMAIN levels : levels[i].total_qty > 0}
  IN  IF alive = {} THEN 0 ELSE levels[Max(alive)].price

\* get_level_qty
LevelQty(b, side, price) ==
  LET levels == b.levels[side]
      i      == PlaceOf(levels, side, price)
  IN  IF i \in DOMAIN levels /\ levels[i].price = price THEN levels[i].total_qty ELSE 0
====
