---- MODULE MBOSimulationEngine ----
(* The simulation engine's loop (Events/Mbo/MBOSimulationEngine.h), composed with
   the market maker, the order management system, the network, the virtual
   exchange and the market's book.  The loop is one thread: a message is polled,
   the internal events due by its timestamp are routed one after the other, then
   the message is applied.  Each of those steps is an action here, with every call
   it makes down the components. *)
EXTENDS MarketMaker, LimitOrderBook

CONSTANTS FeedOrders, \* the orders [order_id, side, price, size] the market may show
          MaxFeed,    \* bound on the messages of a run
          MaxTime,    \* bound on their timestamps
          Word        \* number of values of the exchange's unsigned words

ASSUME EngineAssumption ==
  /\ MaxFeed \in Nat /\ MaxTime \in Nat /\ Word \in Nat \ {0}
  /\ FeedOrders \subseteq [order_id : Nat, side : Sides, price : Nat, size : Nat \ {0}]

VX == INSTANCE VirtualExchange

VARIABLES book,         \* the limit order book
          vx,           \* the virtual exchange
          oms, risk,    \* the order management system and the risk manager
          mm,           \* the strategy
          queue,        \* the network's events
          reading_feed, \* the feed has not ended
          msg,          \* the message polled and not yet applied, or NoMsg
          fed,          \* messages polled so far
          engine_time,
          error         \* the exception that ended the run, or "none"

trading == <<oms, risk, mm>>
feed == <<reading_feed, msg, fed>>
vars == <<book, vx, oms, risk, mm, queue, reading_feed, msg, fed, engine_time, error>>

NoMsg == [action |-> "no message"]

OrderType == [price : Int, qty : Nat, filled_qty : Nat, side : Sides, status : Status]
PayloadType == [kind : {"Create"}, order_id : 1..MaxOrders, price : Int, qty : Nat, side : Sides]
                 \cup [kind : {"Cancel", "AckCreate", "AckCancel"}, order_id : 1..MaxOrders]
                 \cup [kind : {"AckFill"}, order_id : 1..MaxOrders, filled_qty : Nat, price : Int]
EventType == [timestamp : Nat, sequence_number : Nat, payload : PayloadType]
VirtualOrder == [order_id : 1..MaxOrders, qty_ahead : 0..(Word - 1), remaining_qty : Nat]
VirtualLevel == [price : Int, total_qty_ahead : 0..(Word - 1), orders : Seq(VirtualOrder)]

TypeOK == /\ oms \in [orders : Seq(OrderType), holdings : Int, cash : Int]
          /\ Len(oms.orders) <= MaxOrders
          /\ risk \in Int
          /\ mm \in [active : [Sides -> 0..MaxOrders], quote : [Sides -> Int], position : Int]
          /\ queue \in SUBSET EventType
          /\ vx \in [Sides -> Seq(VirtualLevel)]
          /\ \A id \in DOMAIN book : book[id] \in [side : Sides, price : Nat, size : Nat \ {0}]
          /\ reading_feed \in BOOLEAN
          /\ msg.action \in {"no message", "Add", "Modify", "Cancel", "Clear", "Fill", "Trade"}
          /\ engine_time \in Nat /\ fed \in 0..MaxFeed
          /\ error \in {"none", "OrderManagementSystem is full",
                        "Order is not live or partially filled",
                        "Fill quantity exceeds remaining order quantity",
                        "Order already exists"}

Init == /\ book = EmptyBook
        /\ vx = VX!EmptyExchange
        /\ oms = InitOms /\ risk = 0
        /\ mm = InitMarketMaker
        /\ queue = {}
        /\ reading_feed = TRUE /\ msg = NoMsg /\ fed = 0
        /\ engine_time = 0
        /\ error = "none"

---------------------------------------------------------------------------
(* The feed, external to the engine: timestamps do not decrease, an order is added
   once and modified on its side, and cancels and fills are of resting volume. *)
Resized(ids) == {[order_id |-> id, side |-> book[id].side, price |-> book[id].price, size |-> n] :
                   id \in ids, n \in 1..2}

Nothing == [order_id |-> 0, side |-> "None", price |-> NoPrice, size |-> 0]

Messages ==
  LET resting == {r \in Resized(DOMAIN book) : r.size <= book[r.order_id].size}
      new     == {r \in FeedOrders : r.order_id \notin DOMAIN book}
      changed == {r \in FeedOrders \ new : r.side = book[r.order_id].side}
  IN  {<<"Add", r>> : r \in new} \cup {<<"Modify", r>> : r \in changed}
        \cup ({"Cancel", "Fill"} \X resting) \cup ({"Clear", "Trade"} \X {Nothing})

\* try_poll succeeds.  (When it fails the loop just tries again.)
PollFeed == /\ error = "none" /\ reading_feed /\ msg = NoMsg
            /\ fed < MaxFeed
            /\ \E m \in Messages, ts \in engine_time..MaxTime :
                 msg' = [action |-> m[1], order_id |-> m[2].order_id, side |-> m[2].side,
                         price |-> m[2].price, size |-> m[2].size, ts_recv |-> ts]
            /\ fed' = fed + 1
            /\ UNCHANGED <<book, vx, trading, queue, reading_feed, engine_time, error>>

\* The empty message that ends the feed.
EndOfFeed == /\ error = "none" /\ reading_feed /\ msg = NoMsg
             /\ reading_feed' = FALSE
             /\ UNCHANGED <<book, vx, trading, queue, msg, fed, engine_time, error>>

---------------------------------------------------------------------------
DueBefore(e) == IF msg # NoMsg THEN e.timestamp < msg.ts_recv ELSE ~reading_feed
DueWhileFeeding(e) == msg # NoMsg /\ e.timestamp <= msg.ts_recv

\* The internal events to be processed before the message: all of them at the end.
Due(e) == IF msg # NoMsg THEN e.timestamp <= msg.ts_recv ELSE ~reading_feed

\* e is the earliest internal event and is due.
Routes(e, kind) == /\ error = "none"
                   /\ IsTop(e, queue)
                   /\ Due(e)
                   /\ e.payload.kind = kind
                   /\ engine_time' = e.timestamp

\* The state the components' handlers work on, and what they make of it.
State(events) == [oms |-> oms, risk |-> risk, mm |-> mm, queue |-> events, error |-> error]
Becomes(s) == /\ oms' = s.oms /\ risk' = s.risk /\ mm' = s.mm
              /\ queue' = s.queue /\ error' = s.error

RouteCreate(e) ==
  /\ Routes(e, "Create")
  /\ IF VX!Knows(vx, e.payload.order_id)
     THEN /\ error' = "Order already exists"
          /\ queue' = queue \ {e}
          /\ UNCHANGED vx
     ELSE /\ vx' = VX!OnCreateOrder(vx, e.payload, LevelQty(book, e.payload.side, e.payload.price))
          /\ queue' = SendInbound(queue \ {e}, e.timestamp, AckCreate(e.payload.order_id))
          /\ UNCHANGED error
  /\ UNCHANGED <<book, trading, feed>>

\* An order the exchange does not know is acknowledged as cancelled all the same.
RouteCancel(e) ==
  /\ Routes(e, "Cancel")
  /\ vx' = VX!OnCancelOrder(vx, e.payload.order_id)
  /\ queue' = SendInbound(queue \ {e}, e.timestamp, AckCancel(e.payload.order_id))
  /\ UNCHANGED <<book, trading, feed, error>>

RouteAckCreate(e) ==
  /\ Routes(e, "AckCreate")
  /\ Becomes(AckCreateOrder(State(queue \ {e}), e.payload.order_id))
  /\ UNCHANGED <<book, vx, feed>>

RouteAckCancel(e) ==
  /\ Routes(e, "AckCancel")
  /\ LET s == AckCancelOrder(State(queue \ {e}), e.payload.order_id)
     IN  Becomes(OnOrderCanceled(s, e.payload.order_id))
  /\ UNCHANGED <<book, vx, feed>>

RouteAckFill(e) ==
  /\ Routes(e, "AckFill")
  /\ LET fill == e.payload
         s    == AckFillOrder(State(queue \ {e}), fill.order_id, fill.filled_qty, fill.price)
     IN  Becomes(IF s.error # "none" THEN s
                 ELSE OnOrderFilled(s, fill.order_id, fill.filled_qty))
  /\ UNCHANGED <<book, vx, feed>>

---------------------------------------------------------------------------
\* The message is applied when no internal event is due any more.
Applies(actions) == /\ error = "none"
                    /\ msg # NoMsg /\ msg.action \in actions
                    /\ \A e \in queue : ~Due(e)
                    /\ msg' = NoMsg
                    /\ engine_time' = msg.ts_recv

ApplyBookUpdate ==
  /\ Applies({"Add", "Modify", "Cancel", "Clear"})
  /\ book' = UpdateBook(book, msg)
  /\ Becomes(OnBookUpdate(State(queue), msg.ts_recv,
                          Best(book', "Bid"), Best(book', "Ask")))
  /\ UNCHANGED <<vx, reading_feed, fed>>

ApplyFill ==
  /\ Applies({"Fill"})
  /\ vx' = VX!OnFill(vx, msg.side, msg.price, msg.size)
  /\ queue' = queue \cup VX!FillAcks(vx, queue, msg.ts_recv, msg.side, msg.price, msg.size)
  /\ UNCHANGED <<book, trading, reading_feed, fed, error>>

ApplyNothing ==
  /\ Applies({"Trade"})
  /\ UNCHANGED <<book, vx, trading, queue, reading_feed, fed, error>>

---------------------------------------------------------------------------
Route == \E e \in queue : \/ RouteCreate(e) \/ RouteCancel(e)
                          \/ RouteAckCreate(e) \/ RouteAckCancel(e) \/ RouteAckFill(e)

Apply == ApplyBookUpdate \/ ApplyFill \/ ApplyNothing

Step == PollFeed \/ EndOfFeed \/ Route \/ Apply

\* run() has returned, or an exception has left it.
Stopped == error # "none" \/ (~reading_feed /\ queue = {})

Next == Step \/ (Stopped /\ UNCHANGED vars)

Spec == Init /\ [][Next]_vars

\* The engine's thread is not suspended for ever, and the recording it reads is finite.
FairSpec == Spec /\ WF_vars(Step)

---------------------------------------------------------------------------
Ids == DOMAIN oms.orders
Order(id) == oms.orders[id]
InFlight == {e.payload : e \in queue}
Flying(kind, id) == \E p \in InFlight : p.kind = kind /\ p.order_id = id
Tracked(id) == \E side \in Sides : mm.active[side] = id

FillsInFlight(id) ==
  MapThenSumSet(LAMBDA e : e.payload.filled_qty,
                {e \in queue : e.payload.kind = "AckFill" /\ e.payload.order_id = id})

Rests(id) == VX!Knows(vx, id)
RestingQty(id) == LET o == CHOOSE o \in VX!Resting(vx, Order(id).side) : o.order_id = id
                  IN  o.remaining_qty

BookedOf(side) ==
  MapThenSumSet(LAMBDA id : Order(id).filled_qty, {id \in Ids : Order(id).side = side})
LimitValueOf(side) ==
  MapThenSumSet(LAMBDA id : Order(id).filled_qty * Order(id).price,
                {id \in Ids : Order(id).side = side})

(* The order management system, the risk manager and the strategy each add up the
   fills on their own; they agree with each other and with what is booked on the
   orders, withdrawn ones included, after every handler.  The account has paid
   nothing above the limits of its bids and got nothing below those of its asks. *)
AccountsAgree ==
  /\ oms.holdings = risk /\ risk = mm.position
  /\ oms.holdings = BookedOf("Bid") - BookedOf("Ask")
  /\ oms.cash >= LimitValueOf("Ask") - LimitValueOf("Bid")

(* Fills, cancels and their acknowledgements cross in the network, and none of the
   exceptions of ack_fill_order and on_create_order is ever reached: only a full
   order table can end a run. *)
OnlyCapacityThrows == error \in {"none", "OrderManagementSystem is full"}

(* The order the strategy believes to be resting is alive, and is the one it
   quoted: a fill, a cancel or a rejection never leaves a dead order tracked, on
   which the strategy would wait for ever. *)
TrackedOrdersAreOpen ==
  \A side \in Sides : mm.active[side] # NoOrder =>
    /\ mm.active[side] \in Ids
    /\ Order(mm.active[side]).side = side
    /\ Order(mm.active[side]).price = mm.quote[side]
    /\ Order(mm.active[side]).status \in Open

(* An order that may still trade and that the strategy has forgotten is being
   cancelled: the strategy never leaves an order behind in the market. *)
NoForgottenOrders ==
  \A id \in Ids : Order(id).status \in Open \cup {"PENDING_CANCEL"} /\ ~Tracked(id)
                    => Flying("Cancel", id) \/ Flying("AckCancel", id)

(* No quantity of an order is lost or made up between the three places it can be:
   booked by the order management system, acknowledged and in the network, or
   resting at the exchange.  An order leaves the exchange filled or cancelled. *)
QuantityConserved ==
  \A id \in Ids :
    LET done == Order(id).filled_qty + FillsInFlight(id)
    IN  IF Order(id).status = "REJECTED" \/ Flying("Create", id)
        THEN done = 0 /\ ~Rests(id)
        ELSE IF Rests(id) THEN done + RestingQty(id) = Order(id).qty
        ELSE \/ done = Order(id).qty
             \/ done < Order(id).qty /\ (Flying("AckCancel", id) \/ Order(id).status = "CANCELLED")

(* The strategy withdraws a quote before it sends the next, at a later update, and
   the network keeps them in this order even at equal timestamps: the exchange
   never holds two of its orders on one side. *)
OneOrderPerSide == \A side \in Sides : Cardinality(VX!Resting(vx, side)) <= 1

(* When nothing is in the network, the order management system, the exchange and
   the strategy agree on which orders rest. *)
QuietMeansAgreed ==
  queue = {} => \A id \in Ids :
                  /\ Order(id).status \notin {"PENDING", "PENDING_CANCEL"}
                  /\ Rests(id) <=> (Order(id).status \in {"LIVE", "PARTIALLY_FILLED"})
                  /\ Rests(id) <=> Tracked(id)

\* Every message to the exchange and back takes time.
Delayed == OutboundLatency > 0 /\ InboundLatency > 0

(* The loop never lets simulated time pass an event that is still queued, and events
   at the very timestamp of a message come before it: "all internal events that
   occurred BEFORE or AT the incoming market data timestamp" (MBOSimulationEngine.h:100).
   Once a message is applied only later ones are left, those sent with it included if
   they take time. *)
NoEventInThePast ==
  \A e \in queue : /\ e.timestamp >= engine_time
                   /\ Delayed /\ reading_feed /\ msg = NoMsg => e.timestamp > engine_time

(* A filled, cancelled or rejected order stays what it is, whatever
   acknowledgement still arrives for it. *)
TerminalStatusIsFinal ==
  [][\A id \in Ids : Order(id).status \in Terminal => oms'.orders[id] = oms.orders[id]]_vars

(* Every cancel is resolved, by the cancellation or by a fill that overtook it,
   also those still in the network when the feed ends. *)
CancelsResolve ==
  \A id \in 1..MaxOrders :
    (id \in Ids /\ Order(id).status = "PENDING_CANCEL")
       ~> \/ error # "none"
          \/ id \in Ids /\ Order(id).status \in {"FILLED", "CANCELLED"}
====
