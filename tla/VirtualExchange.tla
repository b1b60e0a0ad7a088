---- MODULE VirtualExchange ----
(* The virtual exchange (VirtualExchange/VirtualExchange.h): the strategy's orders
   wait behind the volume the real market had at their price, and are filled by
   the fills of the real market once that volume is used up.

   An exchange is a function from the two sides to their price levels, best price
   first; a level is [price, total_qty_ahead, orders] with its orders in arrival
   order, each [order_id, qty_ahead, remaining_qty].  The sequences stand for the
   code's linked lists, its hash maps from ids and prices to pool slots, and the
   pools.  Quantities are unsigned words: total_qty_ahead and qty_ahead wrap. *)
EXTENDS MboEvents, Sequences, SequencesExt

CONSTANT Word \* number of values of an unsigned word: 2^64 in the code

ASSUME WordAssumption == Word \in Nat \ {0}

EmptyExchange == [side \in {"Bid", "Ask"} |-> <<>>]

Better(side, p, q) == IF side = "Bid" THEN p > q ELSE p < q

Resting(vx, side) == UNION {ToSet(vx[side][i].orders) : i \in DOMAIN vx[side]}

Knows(vx, id) == \E side \in {"Bid", "Ask"} : \E o \in Resting(vx, side) : o.order_id = id

---------------------------------------------------------------------------
\* The side's levels with one for `price`, put in its place if there was none.
WithLevel(levels, side, price) ==
  IF \E i \in DOMAIN levels : levels[i].price = price THEN levels
  ELSE InsertAt(levels,
                1 + Cardinality({i \in DOMAIN levels : Better(side, levels[i].price, price)}),
                [price |-> price, total_qty_ahead |-> 0, orders |-> <<>>])

LevelOf(levels, price) == CHOOSE i \in DOMAIN levels : levels[i].price = price

\* on_create_order: the volume ahead is what the market shows at the price, less
\* what is already counted ahead of the orders in front.
OnCreateOrder(vx, e, level_qty) ==
  LET levels == WithLevel(vx[e.side], e.side, e.price)
      i      == LevelOf(levels, e.price)
      ahead  == (level_qty - levels[i].total_qty_ahead) % Word
      order  == [order_id |-> e.order_id, qty_ahead |-> ahead, remaining_qty |-> e.qty]
  IN  [vx EXCEPT ![e.side] =
         [levels EXCEPT ![i].orders = Append(@, order),
                        ![i].total_qty_ahead = (@ + ahead) % Word]]

WithoutHandOver(level, j) ==
  LET ahead == level.orders[j].qty_ahead
  IN  [level EXCEPT !.orders = RemoveAt(@, j), !.total_qty_ahead = (@ - ahead) % Word]

HandedOver(orders, j) ==
  [orders EXCEPT ![j + 1].qty_ahead = (@ + orders[j].qty_ahead) % Word]

WithoutCount(level, j) ==
  IF j < Len(level.orders) THEN [level EXCEPT !.orders = RemoveAt(HandedOver(@, j), j)]
  ELSE [level EXCEPT !.orders = RemoveAt(@, j)]

\* on_cancel_order: the volume ahead of the order passes to the one behind it, or
\* leaves the level's count with the last.
Without(level, j) ==
  IF j < Len(level.orders)
  THEN [level EXCEPT !.orders = RemoveAt(HandedOver(@, j), j)]
  ELSE [level EXCEPT !.orders = RemoveAt(@, j),
                     !.total_qty_ahead = (@ - level.orders[j].qty_ahead) % Word]

HasOrders(level) == level.orders # <<>>

\* The levels that still hold an order: an emptied level is unlinked.
Occupied(levels) ==
  FoldLeft(LAMBDA kept, level : IF HasOrders(level) THEN Append(kept, level) ELSE kept,
           <<>>, levels)

OnCancelIgnored(vx, id) == vx

OnCancelOrder(vx, id) ==
  [side \in {"Bid", "Ask"} |->
     LET levels == vx[side]
         after(i) == LET at == {j \in DOMAIN levels[i].orders :
                                  levels[i].orders[j].order_id = id}
                     IN  IF at = {} THEN levels[i]
                         ELSE Without(levels[i], CHOOSE j \in at : TRUE)
     IN  Occupied([i \in DOMAIN levels |-> after(i)])]

---------------------------------------------------------------------------
(* on_fill walks the levels from the best price and, in each, the orders from the
   oldest, with what is left of the fill's size.  The state of the walk is
   [left, levels, fills]: the levels and orders passed so far as they leave the
   walk, the level in hand last, and the fills [order_id, qty] in their order. *)
MinOf(a, b) == IF a < b THEN a ELSE b

IsBehindVolume(o) == o.qty_ahead > 0
IsOpen(o) == o.remaining_qty > 0

MeetSkippingAhead(walk, o) ==
  LET filled == IF o.qty_ahead < walk.left THEN MinOf(o.remaining_qty, walk.left) ELSE 0
      rest   == [o EXCEPT !.qty_ahead = 0, !.remaining_qty = @ - filled]
  IN  [walk EXCEPT
         !.left = @ - filled,
         !.levels[Len(walk.levels)].orders = IF IsOpen(rest) THEN Append(@, rest) ELSE @,
         !.levels[Len(walk.levels)].total_qty_ahead = (@ - o.qty_ahead) % Word,
         !.fills = IF filled > 0 THEN Append(@, [order_id |-> o.order_id, qty |-> filled])
                   ELSE @]

\* The walk meets an order: it takes the volume ahead of it, then fills it, and
\* unlinks it when nothing remains.
Meet(walk, o) ==
  LET passed == MinOf(o.qty_ahead, walk.left)
      filled == MinOf(o.remaining_qty, walk.left - passed)
      rest   == [o EXCEPT !.qty_ahead = @ - passed, !.remaining_qty = @ - filled]
  IN  [walk EXCEPT
         !.left = @ - passed - filled,
         !.levels[Len(walk.levels)].orders = IF IsOpen(rest) THEN Append(@, rest) ELSE @,
         !.levels[Len(walk.levels)].total_qty_ahead = (@ - passed) % Word,
         !.fills = IF filled > 0 THEN Append(@, [order_id |-> o.order_id, qty |-> filled])
                   ELSE @]

\* A fill at `price` reaches the orders priced as well as it or better.
Reaches(side, price, level) == ~Better(side, price, level.price)

\* Each level is given the whole size of the fill.
EnterAfresh(walk, side, price, size, level) ==
  LET entered == [walk EXCEPT !.left = size, !.levels = Append(@, [level EXCEPT !.orders = <<>>])]
  IN  IF Reaches(side, price, level) THEN FoldLeft(Meet, entered, level.orders)
      ELSE [walk EXCEPT !.levels = Append(@, level)]

\* fill_orders_at_price_level
Enter(walk, side, price, size, level) ==
  LET entered == [walk EXCEPT !.levels = Append(@, [level EXCEPT !.orders = <<>>])]
  IN  IF Reaches(side, price, level) THEN FoldLeft(Meet, entered, level.orders)
      ELSE [walk EXCEPT !.levels = Append(@, level)]

FillWalk(vx, side, price, size) ==
  LET enter(walk, level) == Enter(walk, side, price, size, level)
  IN  FoldLeft(enter, [left |-> size, levels |-> <<>>, fills |-> <<>>], vx[side])

OnFill(vx, side, price, size) ==
  [vx EXCEPT ![side] = Occupied(FillWalk(vx, side, price, size).levels)]

\* The acknowledgements of a fill, at the price of the fill.
FillAcks(vx, queue, now, side, price, size) ==
  LET fills == FillWalk(vx, side, price, size).fills
  IN  {Sent(queue, now, InboundLatency, k - 1, AckFill(fills[k].order_id, fills[k].qty, price)) :
         k \in DOMAIN fills}
====
