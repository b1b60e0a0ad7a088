---- MODULE DirectArrayBooks ----
(* The direct-array book driven by a feed, beside the market's book: as OrderBooks
   does for the optimized book.  Prices are on the tick grid; some are out of
   reach of the array, depending on where the feed begins. *)
EXTENDS DirectArrayLOB, SequencesExt

CONSTANTS Ids, BidPrices, AskPrices, Sizes

ASSUME FeedAssumption == /\ Ids \subseteq Nat \ {0} /\ Sizes \subseteq Nat \ {0}
                         /\ \A p \in BidPrices \cup AskPrices : p \in Nat \ {0} /\ p % TickSize = 0

VARIABLES
  lob,    \* the direct-array book
  book,   \* the market's book, orders out of reach included
  queue,  \* for every side and price the ids of the market's orders, oldest first
  anchor  \* the first price of the feed since the last clear

vars == <<lob, book, queue, anchor>>

Market == INSTANCE LimitOrderBook

Prices == BidPrices \cup AskPrices
PricesOf(side) == IF side = "Bid" THEN BidPrices ELSE AskPrices

Message(action, id, side, price, size) ==
  [action |-> action, order_id |-> id, side |-> side, price |-> price, size |-> size]

Init == /\ lob = EmptyLob
        /\ book = Market!EmptyBook
        /\ queue = [at \in Sides \X Prices |-> <<>>]
        /\ anchor = Undef

Grows(m) == m.action = "Modify" /\ m.order_id \in DOMAIN book /\ m.size > book[m.order_id].size

Those(q, ids) == FoldLeft(LAMBDA kept, id : IF id \in ids THEN Append(kept, id) ELSE kept, <<>>, q)

\* An order that comes to a price, or grows there, is the last; the others keep their places.
Queued(m, next) ==
  [at \in Sides \X Prices |->
     LET here == {id \in DOMAIN next : at = <<next[id].side, next[id].price>>}
         stay == Those(queue[at], IF Grows(m) THEN here \ {m.order_id} ELSE here)
     IN  IF m.order_id \in here /\ m.order_id \notin ToSet(stay)
         THEN Append(stay, m.order_id) ELSE stay]

\* Both books take m; one that throws has taken nothing the market can see.
Feed(m) ==
  /\ lob' = UpdateBook(lob, m)
  /\ book' = IF lob'.error = "none" THEN Market!UpdateBook(book, m) ELSE book
  /\ queue' = IF lob'.error = "none" THEN Queued(m, book') ELSE queue
  /\ anchor' = IF m.action = "Clear" THEN Undef ELSE IF anchor = Undef THEN m.price ELSE anchor

Add == \E id \in Ids \ DOMAIN book, side \in Sides, size \in Sizes : \E price \in PricesOf(side) :
         Feed(Message("Add", id, side, price, size))

Modify == \E id \in Ids, side \in Sides, size \in Sizes : \E price \in PricesOf(side) :
            /\ id \in DOMAIN book => side = book[id].side
            /\ Feed(Message("Modify", id, side, price, size))

\* Also of orders the array has dropped.
Cancel == \E id \in DOMAIN book, size \in Sizes :
            /\ size <= book[id].size
            /\ Feed(Message("Cancel", id, book[id].side, book[id].price, size))

\* More than there is: the market takes it for all there is.
OverCancel == \E id \in DOMAIN book, size \in Sizes :
                /\ size > book[id].size
                /\ lob' = UpdateBook(lob, Message("Cancel", id, "None", 0, size))
                /\ book' = Market!UpdateBook(book, Message("Cancel", id, "None", 0, book[id].size))
                /\ queue' = Queued(Message("Cancel", id, "None", 0, size), book')
                /\ UNCHANGED anchor

LateCancel == \E id \in Ids \ DOMAIN book, size \in Sizes :
                /\ lob' = UpdateBook(lob, Message("Cancel", id, "None", 0, size))
                /\ UNCHANGED <<book, queue, anchor>>

Clear == Feed(Message("Clear", 0, "None", 0, 0))

\* Nobody catches what the book throws: the program ends.
Next == lob.error = "none" /\ (Add \/ Modify \/ Cancel \/ OverCancel \/ LateCancel \/ Clear)

Spec == Init /\ [][Next]_vars

---------------------------------------------------------------------------
\* The market's orders within reach of an array whose middle is the anchor.
Reached(price) ==
  LET low == anchor - (LobCapacity \div 2) * TickSize
  IN  anchor # Undef /\ price \in low..(low + LobCapacity * TickSize - 1)
BookInReach ==
  LET ids == {id \in DOMAIN book : Reached(book[id].price)}
  IN  [id \in ids |-> book[id]]

\* The nodes of a level from its head on, following at most MaxOrders links.
Chain(side, i) ==
  LET upto[k \in 0..MaxOrders] ==
        LET q == upto[k - 1]
            n == IF k = 1 THEN lob.levels[side][i].head_idx
                 ELSE IF q = <<>> THEN None ELSE lob.nodes[Last(q)].next_idx
        IN  IF k = 0 THEN <<>> ELSE IF n = None THEN q ELSE Append(q, n)
  IN  upto[MaxOrders]

\* What stands at a bucket of the array: its orders' ids, sides, prices and sizes.
OrdersAt(side, i) ==
  LET q == Chain(side, i)
  IN  [k \in DOMAIN q |-> [order_id |-> lob.nodes[q[k]].order_id, side |-> lob.nodes[q[k]].side,
                           price |-> lob.nodes[q[k]].price, size |-> lob.nodes[q[k]].size]]

MarketAt(side, price) ==
  LET q == queue[<<side, price>>]
  IN  [k \in DOMAIN q |-> [order_id |-> q[k], side |-> side, price |-> price,
                           size |-> book[q[k]].size]]

---------------------------------------------------------------------------
(* Nodes, levels and cached prices have their types; no unsigned size or total has
   wrapped below zero, and no two prices of the feed meet in one bucket. *)
TypeOK ==
  LET index == Pool!Indices \cup {None}
  IN  /\ lob.nodes \in [Pool!Indices ->
           [order_id : Ids \cup {0}, side : Sides \cup {"None"}, price : Prices \cup {0},
            size : Nat, next_idx : index, prev_idx : index]]
      /\ ToSet(lob.free) \subseteq Pool!Indices
      /\ lob.levels \in [Sides -> [Places ->
           [price : Prices \cup {0}, total_qty : Nat,
            head_idx : index, tail_idx : index]]]
      /\ lob.best \in [Sides -> Prices \cup {Undef}] /\ lob.base \in Prices \cup {Undef}
      /\ lob.error \in {"none", "ObjectPool exhausted"}

(* The array holds the market's orders within its reach and no others, each in the
   bucket of its price, with its size and in its turn: an order that was dropped
   and comes back, moves away and returns, or grows and loses its place stands
   where the market has it, whatever price the feed began with. *)
FollowsMarket ==
  \A side \in Sides :
    /\ \A price \in PricesOf(side) : Reached(price) =>
         LET i == IndexOf(lob.base, price)
         IN  i # NoIndex /\ OrdersAt(side, i) = MarketAt(side, price)
    /\ \A i \in Places : lob.levels[side][i].total_qty > 0 =>
         Reached(lob.levels[side][i].price) /\ IndexOf(lob.base, lob.levels[side][i].price) = i

\* No two prices of a side are so far apart that the search for the next best gives up.
Dense(side) == \A p, q \in PricesOf(side) : p - q < ScanTicks * TickSize

(* The quantities of the levels are those a look at every order within reach would
   give, and so are the cached best prices of a side without gaps.  Across a gap
   as wide as the search (recompute_best_bid and recompute_best_ask) the side is
   taken to be empty, and the next order, however bad, to be the best: even then
   a price that is reported has orders, and none better than the market's. *)
QueriesAgree ==
  LET inReach == BookInReach
  IN  \A side \in Sides :
        /\ \A price \in Prices : LevelQty(lob, side, price) = Market!LevelQty(inReach, side, price)
        /\ \/ lob.best[side] = Market!Best(inReach, side)
           \/ ~Dense(side) /\ (lob.best[side] # Undef => IsAlive(lob, side, lob.best[side]))

(* The links are whole in both directions, no free node is linked, and the id map
   finds every linked node: an order that cannot be found stands for ever. *)
ListsIntact ==
  \A side \in Sides : \A i \in Places :
    LET q == Chain(side, i)
    IN  /\ lob.levels[side][i].tail_idx = IF q = <<>> THEN None ELSE Last(q)
        /\ \A k \in DOMAIN q :
             /\ lob.nodes[q[k]].prev_idx = IF k = 1 THEN None ELSE q[k - 1]
             /\ NodeOf(lob, lob.nodes[q[k]].order_id) = q[k]
             /\ q[k] \notin ToSet(lob.free)
====
