---- MODULE OrderBooks ----
(* The optimized order book driven by a feed.  The feed adds orders with new ids,
   changes an order on its side, and cancels: also orders the book does not know
   and more than there is, both of which the code allows for. *)
EXTENDS OptimizedDataBentoLOB, FiniteSetsExt

CONSTANTS Ids, BidPrices, AskPrices, BidSizes, AskSizes

ASSUME FeedAssumption == /\ Ids \subseteq Nat \ {0}
                         /\ BidSizes \cup AskSizes \subseteq Nat \ {0}
                         /\ BidPrices \cup AskPrices \subseteq Nat \ {0}

VARIABLES
  lob,   \* the optimized book
  book,  \* the market's book as LimitOrderBookConcept means it
  queue, \* for every side and price the ids of the market's orders, in their turn
  grown  \* history: the orders that at their price have grown past one behind them

vars == <<lob, book, queue, grown>>

Market == INSTANCE LimitOrderBook

Sides == {"Bid", "Ask"}
Prices == BidPrices \cup AskPrices
PricesOf(side) == IF side = "Bid" THEN BidPrices ELSE AskPrices
Sizes == BidSizes \cup AskSizes
SizesOf(side) == IF side = "Bid" THEN BidSizes ELSE AskSizes

Message(action, id, side, price, size) ==
  [action |-> action, order_id |-> id, side |-> side, price |-> price, size |-> size]

Init == /\ lob = EmptyLob
        /\ book = Market!EmptyBook
        /\ queue = [at \in Sides \X Prices |-> <<>>]
        /\ grown = {}

\* m makes an order larger at its price.
Grows(m) == /\ m.action = "Modify" /\ m.order_id \in DOMAIN book
            /\ m.price = book[m.order_id].price /\ m.size > book[m.order_id].size

Those(q, ids) == FoldLeft(LAMBDA kept, id : IF id \in ids THEN Append(kept, id) ELSE kept, <<>>, q)

\* The market's turns, as the reference book keeps them (DataBentoLOB.cpp:70, 86-100): an
\* order that comes to a price, or grows there, is the last; the others keep their places.
Queued(m, next) ==
  [at \in Sides \X Prices |->
     LET here == {id \in DOMAIN next : at = <<next[id].side, next[id].price>>}
         stay == Those(queue[at], IF Grows(m) THEN here \ {m.order_id} ELSE here)
     IN  IF m.order_id \in here /\ m.order_id \notin ToSet(stay)
         THEN Append(stay, m.order_id) ELSE stay]

Before(q, x, y) == \E j, k \in DOMAIN q : j < k /\ q[j] = x /\ q[k] = y

\* m costs an order its turn.
Passed(m) == Grows(m) /\ \E id \in DOMAIN book : Before(queue[<<book[id].side, book[id].price>>], m.order_id, id)

Grown(m, next) == {id \in grown \cap DOMAIN next : next[id].price = book[id].price}
                    \cup (IF Passed(m) THEN {m.order_id} ELSE {})

\* Both books take m; one that throws has taken nothing.
Feed(m) ==
  /\ lob' = UpdateBook(lob, m)
  /\ book' = IF lob'.error = "none" THEN Market!UpdateBook(book, m) ELSE book
  /\ queue' = Queued(m, book') /\ grown' = Grown(m, book')

Add == \E id \in Ids \ DOMAIN book, side \in Sides :
         \E price \in PricesOf(side), size \in SizesOf(side) :
           Feed(Message("Add", id, side, price, size))

Modify == \E id \in Ids, side \in Sides :
            \E price \in PricesOf(side), size \in SizesOf(side) :
              /\ id \in DOMAIN book => side = book[id].side
              /\ Feed(Message("Modify", id, side, price, size))

Cancel == \E id \in DOMAIN book, size \in Sizes :
            /\ size <= book[id].size
            /\ Feed(Message("Cancel", id, book[id].side, book[id].price, size))

\* More than there is: the market takes it for all there is.
OverCancel == \E id \in DOMAIN book, size \in Sizes :
                /\ size > book[id].size
                /\ lob' = UpdateBook(lob, Message("Cancel", id, "None", 0, size))
                /\ book' = Market!UpdateBook(book, Message("Cancel", id, "None", 0, book[id].size))
                /\ queue' = Queued(Message("Cancel", id, "None", 0, size), book')
                /\ grown' = Grown(Message("Cancel", id, "None", 0, size), book')

LateCancel == \E id \in Ids \ DOMAIN book, size \in Sizes :
                /\ lob' = UpdateBook(lob, Message("Cancel", id, "None", 0, size))
                /\ UNCHANGED <<book, queue, grown>>

Clear == Feed(Message("Clear", 0, "None", 0, 0))

\* Nobody catches what the book throws: the program ends.
Next == lob.error = "none" /\ (Add \/ Modify \/ Cancel \/ OverCancel \/ LateCancel \/ Clear)

Spec == Init /\ [][Next]_vars

---------------------------------------------------------------------------
Places(side) == DOMAIN lob.levels[side]

\* The nodes of a level from its head on, following at most MaxOrders links.
Queue(side, i) ==
  LET upto[k \in 0..MaxOrders] ==
        LET q == upto[k - 1]
            n == IF k = 1 THEN lob.levels[side][i].head_idx
                 ELSE IF q = <<>> THEN None ELSE lob.nodes[Last(q)].next_idx
        IN  IF k = 0 THEN <<>> ELSE IF n = None THEN q ELSE Append(q, n)
  IN  upto[MaxOrders]

Linked == UNION {UNION {ToSet(Queue(side, i)) : i \in Places(side)} : side \in Sides}

Known == {id \in Ids : NodeOf(lob, id) # None}
OrderOf(id) == lob.nodes[NodeOf(lob, id)]

\* The book the id map knows.
BookOf == [id \in Known |-> [side |-> OrderOf(id).side, price |-> OrderOf(id).price,
                             size |-> OrderOf(id).size]]

\* The ids of the orders at a price, oldest first.
IdsAt(side, price) ==
  LET at == {i \in Places(side) : lob.levels[side][i].price = price}
      q  == Queue(side, Min(at))
  IN  IF at = {} THEN <<>> ELSE [k \in DOMAIN q |-> lob.nodes[q[k]].order_id]

---------------------------------------------------------------------------
(* Nodes, links, buckets and levels have their types; in particular no size or
   total has wrapped below zero. *)
TypeOK ==
  LET index == Pool!Indices \cup {None}
  IN  /\ lob.nodes \in [Pool!Indices ->
           [order_id : Ids \cup {0}, side : Sides \cup {"None"}, price : Prices \cup {0},
            size : Nat, next_idx : index, prev_idx : index]]
      /\ ToSet(lob.free) \subseteq Pool!Indices
      /\ lob.id_map \in [IdMap!Buckets -> [key : Ids \cup {0}, value : index]]
      /\ \A side \in Sides : ToSet(lob.levels[side]) \subseteq
           [price : PricesOf(side), total_qty : Nat, head_idx : index, tail_idx : index]
      /\ lob.error \in {"none", "ObjectPool exhausted"}

(* The prices and quantities the strategy and the exchange ask for are those of the
   orders that rest: the sorted levels with their tombstones and cached totals
   answer get_bbo and get_level_qty as a look at every order would, and get_bbo need
   not walk: "This keeps Top-Of-Book pops O(1) and clears trailing tombstones"
   (OptimizedDataBentoLOB.cpp:155-156), so the end of a side is a level with quantity. *)
QueriesAgree ==
  \A side \in Sides :
    /\ Best(lob, side) = Market!Best(book, side)
    /\ \A price \in Prices : LevelQty(lob, side, price) = Market!LevelQty(book, side, price)
    /\ lob.error = "none" /\ lob.levels[side] # <<>> => Last(lob.levels[side]).total_qty > 0

(* The intrusive lists are whole: from head and from tail the same nodes are met,
   in opposite order, each of them belongs to this level alone, and none is free
   for the next add to overwrite.  The id map finds the orders in the lists and no
   others, after any sequence of inserts and erases whose ids share probe sequences:
   otherwise a cancel would be ignored and its order would stand for ever. *)
ListsIntact ==
  /\ \A side \in Sides : \A i \in Places(side) :
       LET level == lob.levels[side][i]
           q     == Queue(side, i)
       IN  /\ level.tail_idx = IF q = <<>> THEN None ELSE Last(q)
           /\ \A k \in DOMAIN q :
                /\ lob.nodes[q[k]].prev_idx = IF k = 1 THEN None ELSE q[k - 1]
                /\ lob.nodes[q[k]].side = side /\ lob.nodes[q[k]].price = level.price
           /\ IsInjective(q)
  /\ Linked \cap ToSet(lob.free) = {}
  /\ IsInjective(lob.free)
  /\ \A n \in Linked : NodeOf(lob, lob.nodes[n].order_id) = n
  /\ \A id \in Known : NodeOf(lob, id) \in Linked

\* At every price the list has the market's orders, and none of them stands before one that
\* has the turn before it, but those that have grown.
TurnsKept ==
  \A side \in Sides, price \in Prices :
    LET ids   == IdsAt(side, price)
        turns == queue[<<side, price>>]
    IN  /\ ToSet(ids) = ToSet(turns)
        /\ \A j, k \in DOMAIN ids : j < k /\ ids[j] \notin grown => Before(turns, ids[j], ids[k])

(* The pooled, hashed and sorted book is the book the users see: the same orders with
   the same sides, prices and sizes after every message, also over clusters of ids in
   the map, and an order that is thrown out for lack of room leaves it as it was.  The
   lists (the intrusive FIFO of OptimizedDataBentoLOB.h:15) have them in the market's
   turns: to come, to come back, to shrink or to lose a neighbour never lets an order
   jump the queue.  To grow does: the original book puts such an order last
   (DataBentoLOB.cpp:96-100) and this one leaves it where it is (line 194), although
   "we follow the original logic which might re-link or just update"
   (OptimizedDataBentoLOB.cpp:192-193).  So nothing is said of the place of one that
   has grown. *)
FollowsMarket == BookOf = book /\ TurnsKept

(* clear_book: "ObjectPool doesn't necessarily need to be cleared as dealloc
   handles it" (OptimizedDataBentoLOB.cpp:208): every node is free or in the book. *)
NodesReturn == Len(lob.free) + Cardinality(Linked) = MaxOrders
====
