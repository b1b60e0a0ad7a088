---- MODULE OrderManagementSystem ----
(* The order management system and its pre-trade risk check
   (OrderManagementSystem.cpp, RiskManager/Mbo/MBORiskManager.h).

   The handlers are operators on a record s of the engine's state, of which they
   use
     oms   = [orders, holdings, cash]: the orders in the sequence of their ids
             (which the code counts from 0, the model from 1), and the account,
     risk  = the risk manager's current_position,
     queue = the network's events,
     error = what the code has thrown, "none" before the end of the run. *)
EXTENDS MboEvents, Sequences

CONSTANTS MaxOrders,   \* capacity of the order table
          MaxOrderQty, \* largest order the risk manager lets through
          MaxPosition  \* largest position, long or short, it lets an order lead to

ASSUME OmsAssumption == MaxOrders \in Nat /\ MaxOrderQty \in Nat /\ MaxPosition \in Nat

Open     == {"PENDING", "LIVE", "PARTIALLY_FILLED"}
Terminal == {"FILLED", "CANCELLED", "REJECTED"}
Status   == Open \cup Terminal \cup {"PENDING_CANCEL"}

InitOms == [orders |-> <<>>, holdings |-> 0, cash |-> 0]

Throw(s, what) == [s EXCEPT !.error = what]

SetStatus(s, id, status) == [s EXCEPT !.oms.orders[id].status = status]

Abs(n) == IF n < 0 THEN -n ELSE n

\* check_order: an order is judged by the filled position alone.
Approved(risk, side, qty) ==
  /\ qty <= MaxOrderQty
  /\ Abs(IF side = "Ask" THEN risk - qty ELSE risk + qty) <= MaxPosition

\* A rejected order takes a place in the table all the same.
CreateOrder(s, now, price, qty, side) ==
  LET approved == Approved(s.risk, side, qty)
      id       == Len(s.oms.orders) + 1
      order    == [price |-> price, qty |-> qty, filled_qty |-> 0, side |-> side,
                   status |-> IF approved THEN "PENDING" ELSE "REJECTED"]
  IN  IF Len(s.oms.orders) = MaxOrders
      THEN Throw(s, "OrderManagementSystem is full")
      ELSE LET placed == [s EXCEPT !.oms.orders = Append(@, order)]
           IN  IF ~approved THEN placed
               ELSE [placed EXCEPT !.queue =
                       SendOutbound(@, now, Create(id, price, qty, side))]

AckCreateOrder(s, id) == SetStatus(s, id, "LIVE")

\* What a fill does to the order, to the account and to the risk manager's position.
BookFill(s, id, filled, price) ==
  LET order  == s.oms.orders[id]
      total  == order.filled_qty + filled
      status == IF total = order.qty THEN "FILLED" ELSE "PARTIALLY_FILLED"
      bought == IF order.side = "Bid" THEN filled ELSE -filled
      booked == [s EXCEPT !.oms =
                   [orders   |-> [@.orders EXCEPT ![id] =
                                    [price |-> order.price, qty |-> order.qty,
                                     filled_qty |-> total, side |-> order.side,
                                     status |-> status]],
                    holdings |-> @.holdings + bought,
                    cash     |-> @.cash - bought * price]]
  IN  [booked EXCEPT !.risk = IF order.side = "Ask" THEN @ - filled ELSE @ + filled]

AckFillLiveOnly(s, id, filled, price) ==
  IF s.oms.orders[id].status \notin {"LIVE", "PARTIALLY_FILLED"}
  THEN Throw(s, "Order is not live or partially filled")
  ELSE BookFill(s, id, filled, price)

AckFillOrder(s, id, filled, price) ==
  LET order == s.oms.orders[id]
  IN  IF order.status \notin {"LIVE", "PARTIALLY_FILLED", "PENDING_CANCEL"}
      THEN Throw(s, "Order is not live or partially filled")
      ELSE IF filled > order.qty - order.filled_qty
      THEN Throw(s, "Fill quantity exceeds remaining order quantity")
      ELSE BookFill(s, id, filled, price)

CancelUnlessPending(s, now, id) ==
  IF s.oms.orders[id].status \in {"PENDING", "FILLED", "PENDING_CANCEL", "CANCELLED"}
  THEN s
  ELSE [SetStatus(s, id, "PENDING_CANCEL") EXCEPT
          !.queue = SendOutbound(@, now, Cancel(id))]

\* A cancel that has been overtaken by a fill or another cancel is ignored.
CancelOrder(s, now, id) ==
  IF s.oms.orders[id].status \in {"FILLED", "PENDING_CANCEL", "CANCELLED"}
  THEN s
  ELSE [SetStatus(s, id, "PENDING_CANCEL") EXCEPT
          !.queue = SendOutbound(@, now, Cancel(id))]

AckCancelAlways(s, id) == SetStatus(s, id, "CANCELLED")

AckCancelOrder(s, id) ==
  IF s.oms.orders[id].status = "FILLED" THEN s ELSE SetStatus(s, id, "CANCELLED")
====
