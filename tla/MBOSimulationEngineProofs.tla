---- MODULE MBOSimulationEngineProofs ----
(* Proofs about the engine, for every market, latency, order table, risk limit and
   strategy parameter.

   NoEventInThePast is inductive once it is said of the message in hand as well
   (TimeInv), and TrackedOrdersAreOpen over the shape of the records the handlers work
   on (Sound).  The other properties need the life of an order, from the strategy's
   quote to the last acknowledgement: the invariant puts together what is true of the
   orders, the network and the exchange (Whole), the accounts of the fills (Balanced),
   the clock (TimedShape) and the feed (Fed). *)
EXTENDS MBOSimulationEngine, ContainerFacts

---------------------------------------------------------------------------
(* Simulated time. *)

\* The time of what is still to come, in whole numbers and not before the engine's.
TimeInv == /\ engine_time \in Int
           /\ \A e \in queue : e.timestamp \in Int /\ e.timestamp >= engine_time
           /\ msg # NoMsg => msg.ts_recv \in Int /\ msg.ts_recv >= engine_time
           /\ Delayed /\ reading_feed /\ msg = NoMsg => \A e \in queue : e.timestamp > engine_time

\* The events of `after` that `before` does not hold are due at time t.
AddedAt(before, after, t) == \A e \in after : e \in before \/ e.timestamp = t

\* s is a record of the kind that State(_) builds.
IsState(s) ==
  /\ s = [oms |-> s.oms, risk |-> s.risk, mm |-> s.mm, queue |-> s.queue, error |-> s.error]
  /\ s.oms = [orders |-> s.oms.orders, holdings |-> s.oms.holdings, cash |-> s.oms.cash]
  /\ s.mm = [active |-> s.mm.active, quote |-> s.mm.quote, position |-> s.mm.position]

\* SetStatus changes the table of orders only.
LEMMA SetStatusKeeps ==
  ASSUME NEW s, IsState(s), NEW id, NEW status
  PROVE  /\ IsState(SetStatus(s, id, status))
         /\ SetStatus(s, id, status).queue = s.queue
         /\ SetStatus(s, id, status).mm = s.mm
         /\ SetStatus(s, id, status).error = s.error
  BY DEF IsState, SetStatus

\* An exception changes nothing but the error.
LEMMA ThrowKeeps ==
  ASSUME NEW s, IsState(s), NEW what
  PROVE  /\ IsState(Throw(s, what))
         /\ Throw(s, what).queue = s.queue
         /\ Throw(s, what).mm = s.mm
         /\ Throw(s, what).oms = s.oms
<1>1. IsState(Throw(s, what))
  BY DEF IsState, Throw
<1> QED
  BY <1>1 DEF IsState, Throw

\* A cancel goes out, if it does, at the outbound latency after now.
LEMMA CancelSends ==
  ASSUME NEW s, IsState(s), NEW now, NEW id
  PROVE  LET t == CancelOrder(s, now, id)
         IN  /\ IsState(t) /\ t.mm = s.mm /\ t.error = s.error
             /\ AddedAt(s.queue, t.queue, now + OutboundLatency)
<1> DEFINE u == SetStatus(s, id, "PENDING_CANCEL")
           v == [u EXCEPT !.queue = SendOutbound(@, now, Cancel(id))]
<1>1. IsState(u) /\ u.queue = s.queue /\ u.mm = s.mm /\ u.error = s.error
  BY SetStatusKeeps
<1>2. /\ IsState(v) /\ v.mm = s.mm /\ v.error = s.error
      /\ v.queue = SendOutbound(u.queue, now, Cancel(id))
  BY <1>1 DEF IsState
<1>3. AddedAt(s.queue, v.queue, now + OutboundLatency)
  BY <1>1, <1>2 DEF AddedAt, SendOutbound, Sent
<1>4. CancelOrder(s, now, id) \in {s, v}
  BY DEF CancelOrder
<1> QED
  BY <1>2, <1>3, <1>4 DEF AddedAt

\* What two handlers add at one time, one after the other, is added at that time.
LEMMA AddedTwice ==
  ASSUME NEW a, NEW b, NEW c, NEW t, AddedAt(a, b, t), AddedAt(b, c, t)
  PROVE  AddedAt(a, c, t)
  BY DEF AddedAt

\* A new order goes out, if the risk manager lets it, at the outbound latency after now.
LEMMA CreateSends ==
  ASSUME NEW s, IsState(s), NEW now, NEW price, NEW qty, NEW side
  PROVE  /\ IsState(CreateOrder(s, now, price, qty, side))
         /\ CreateOrder(s, now, price, qty, side).mm = s.mm
         /\ AddedAt(s.queue, CreateOrder(s, now, price, qty, side).queue, now + OutboundLatency)
<1> DEFINE id    == Len(s.oms.orders) + 1
           order == [price |-> price, qty |-> qty, filled_qty |-> 0, side |-> side,
                     status |-> IF Approved(s.risk, side, qty) THEN "PENDING" ELSE "REJECTED"]
           table == Append(s.oms.orders, order)
           u == Throw(s, "OrderManagementSystem is full")
           v == [s EXCEPT !.oms.orders = table]
           w == [v EXCEPT !.queue = SendOutbound(@, now, Create(id, price, qty, side))]
<1>1. IsState(u) /\ u.mm = s.mm /\ u.queue = s.queue
  BY ThrowKeeps
<1>2. IsState(v) /\ v.mm = s.mm /\ v.queue = s.queue
  <2> HIDE DEF table
  <2>1. IsState(v)
    BY DEF IsState
  <2>2. v.mm = s.mm /\ v.queue = s.queue
    BY DEF IsState
  <2> QED
    BY <2>1, <2>2
<1>3. /\ IsState(w) /\ w.mm = v.mm
      /\ w.queue = SendOutbound(v.queue, now, Create(id, price, qty, side))
  <2> HIDE DEF v
  <2> QED
    BY <1>2 DEF IsState
<1>4. CreateOrder(s, now, price, qty, side) \in {u, v, w}
  BY DEF CreateOrder
<1> HIDE DEF u, v, w, id
<1>5. /\ AddedAt(s.queue, u.queue, now + OutboundLatency)
      /\ AddedAt(s.queue, v.queue, now + OutboundLatency)
      /\ AddedAt(s.queue, w.queue, now + OutboundLatency)
  BY <1>1, <1>2, <1>3 DEF AddedAt, SendOutbound, Sent
<1> QED
  BY <1>1, <1>2, <1>3, <1>4, <1>5

\* So does a quote, and what is withdrawn.
LEMMA DropSends ==
  ASSUME NEW s, IsState(s), NEW now, NEW side
  PROVE  /\ IsState(Drop(s, now, side))
         /\ AddedAt(s.queue, Drop(s, now, side).queue, now + OutboundLatency)
<1> DEFINE t == CancelOrder(s, now, s.mm.active[side])
           u == [t EXCEPT !.mm.active[side] = NoOrder]
<1>1. IsState(t) /\ AddedAt(s.queue, t.queue, now + OutboundLatency)
  BY CancelSends
<1>2. IsState(u) /\ u.queue = t.queue
  <2> HIDE DEF t
  <2> QED BY <1>1 DEF IsState
<1>3. Drop(s, now, side) = u
  BY DEF Drop
<1> HIDE DEF t, u
<1> QED
  BY <1>1, <1>2, <1>3

\* A quote that is sent leaves at the outbound latency after now.
LEMMA SendSends ==
  ASSUME NEW s, IsState(s), NEW now, NEW side, NEW target
  PROVE  /\ IsState(Send(s, now, side, target))
         /\ AddedAt(s.queue, Send(s, now, side, target).queue, now + OutboundLatency)
<1> DEFINE t == CreateOrder(s, now, target, OrderQty, side)
           u == [t EXCEPT !.mm = [active   |-> [@.active EXCEPT ![side] = Len(t.oms.orders)],
                                  quote    |-> [@.quote EXCEPT ![side] = target],
                                  position |-> @.position]]
<1>1. IsState(t) /\ AddedAt(s.queue, t.queue, now + OutboundLatency)
  BY CreateSends
<1>2. IsState(u) /\ u.queue = t.queue
  <2> HIDE DEF t
  <2> QED BY <1>1 DEF IsState
<1>3. Send(s, now, side, target) \in {t, u}
  BY DEF Send
<1> HIDE DEF t, u
<1> QED
  BY <1>1, <1>2, <1>3

\* One side's part of an update sends what it sends at that time.
LEMMA QuoteSends ==
  ASSUME NEW s, IsState(s), NEW now, NEW side, NEW target
  PROVE  /\ IsState(Quote(s, now, side, target))
         /\ AddedAt(s.queue, Quote(s, now, side, target).queue, now + OutboundLatency)
<1>1. Quote(s, now, side, target) \in {s, Drop(s, now, side), Send(s, now, side, target)}
  BY DEF Quote
<1>2. AddedAt(s.queue, s.queue, now + OutboundLatency)
  BY DEF AddedAt
<1> QED
  BY <1>1, <1>2, DropSends, SendSends

\* All that an update of the book sends leaves at the outbound latency after it.
LEMMA BookUpdateSends ==
  ASSUME NEW s, IsState(s), NEW now, NEW bid, NEW ask
  PROVE  /\ IsState(OnBookUpdate(s, now, bid, ask))
         /\ AddedAt(s.queue, OnBookUpdate(s, now, bid, ask).queue, now + OutboundLatency)
<1> DEFINE c == CancelActive(s, now, "Bid")
           q == Quote(s, now, "Bid", Target("Bid", s.mm.position, bid, ask))
<1>1. ASSUME NEW r, IsState(r), NEW side
      PROVE  /\ IsState(CancelActive(r, now, side))
             /\ AddedAt(r.queue, CancelActive(r, now, side).queue, now + OutboundLatency)
  BY <1>1, DropSends DEF CancelActive, AddedAt
<1>2. /\ IsState(CancelActive(c, now, "Ask"))
      /\ AddedAt(s.queue, CancelActive(c, now, "Ask").queue, now + OutboundLatency)
  <2>1. IsState(c) /\ AddedAt(s.queue, c.queue, now + OutboundLatency)
    BY <1>1
  <2>2. /\ IsState(CancelActive(c, now, "Ask"))
        /\ AddedAt(c.queue, CancelActive(c, now, "Ask").queue, now + OutboundLatency)
    BY <1>1, <2>1
  <2> QED
    BY <2>1, <2>2, AddedTwice
<1>3. ASSUME NEW target
      PROVE  /\ IsState(Quote(q, now, "Ask", target))
             /\ AddedAt(s.queue, Quote(q, now, "Ask", target).queue, now + OutboundLatency)
  <2>1. IsState(q) /\ AddedAt(s.queue, q.queue, now + OutboundLatency)
    BY QuoteSends
  <2>2. /\ IsState(Quote(q, now, "Ask", target))
        /\ AddedAt(q.queue, Quote(q, now, "Ask", target).queue, now + OutboundLatency)
    BY QuoteSends, <2>1
  <2> QED
    BY <2>1, <2>2, AddedTwice
<1> QED
  BY <1>2, <1>3 DEF OnBookUpdate

\* A fill is booked without a word to the network or to the strategy.
LEMMA BookFillKeeps ==
  ASSUME NEW s, IsState(s), NEW id, NEW filled, NEW price
  PROVE  /\ IsState(BookFill(s, id, filled, price))
         /\ BookFill(s, id, filled, price).queue = s.queue
         /\ BookFill(s, id, filled, price).mm = s.mm
         /\ BookFill(s, id, filled, price).error = s.error
<1> DEFINE order  == s.oms.orders[id]
           bought == IF order.side = "Bid" THEN filled ELSE -filled
           after  == [price |-> order.price, qty |-> order.qty,
                      filled_qty |-> order.filled_qty + filled, side |-> order.side,
                      status |-> IF order.filled_qty + filled = order.qty
                                 THEN "FILLED" ELSE "PARTIALLY_FILLED"]
           booked == [s EXCEPT !.oms = [orders   |-> [@.orders EXCEPT ![id] = after],
                                        holdings |-> @.holdings + bought,
                                        cash     |-> @.cash - bought * price]]
           t == [booked EXCEPT !.risk = IF order.side = "Ask" THEN @ - filled ELSE @ + filled]
<1>1. /\ IsState(booked) /\ booked.queue = s.queue /\ booked.mm = s.mm
      /\ booked.error = s.error
  <2> HIDE DEF after, bought
  <2>1. IsState(booked)
    BY DEF IsState
  <2>2. booked.queue = s.queue /\ booked.mm = s.mm /\ booked.error = s.error
    BY DEF IsState
  <2> QED
    BY <2>1, <2>2
<1>2. IsState(t) /\ t.queue = s.queue /\ t.mm = s.mm /\ t.error = s.error
  <2> HIDE DEF booked
  <2> QED
    BY <1>1 DEF IsState
<1>3. BookFill(s, id, filled, price) = t
  BY DEF BookFill
<1> QED
  BY <1>2, <1>3

\* Forgetting an order concerns the strategy only.
LEMMA UntrackKeeps ==
  ASSUME NEW s, IsState(s), NEW id
  PROVE  IsState(Untrack(s, id)) /\ Untrack(s, id).queue = s.queue /\ Untrack(s, id).oms = s.oms
  BY DEF IsState, Untrack

\* The acknowledgements' handlers send nothing.
LEMMA AckCreateKeeps ==
  ASSUME NEW s, IsState(s), NEW id
  PROVE  IsState(AckCreateOrder(s, id)) /\ AckCreateOrder(s, id).queue = s.queue
  BY SetStatusKeeps DEF AckCreateOrder

\* A cancellation is taken note of without sending anything.
LEMMA AckCancelKeeps ==
  ASSUME NEW s, IsState(s), NEW id
  PROVE  /\ IsState(OnOrderCanceled(AckCancelOrder(s, id), id))
         /\ OnOrderCanceled(AckCancelOrder(s, id), id).queue = s.queue
<1>1. IsState(AckCancelOrder(s, id)) /\ AckCancelOrder(s, id).queue = s.queue
  BY SetStatusKeeps DEF AckCancelOrder
<1> QED
  BY <1>1, UntrackKeeps DEF OnOrderCanceled

\* A fill is booked, or refused, without sending anything.
LEMMA AckFillKeeps ==
  ASSUME NEW s, IsState(s), NEW id, NEW filled, NEW price
  PROVE  /\ IsState(AckFillOrder(s, id, filled, price))
         /\ AckFillOrder(s, id, filled, price).queue = s.queue
<1>1. AckFillOrder(s, id, filled, price) \in
        {Throw(s, "Order is not live or partially filled"),
         Throw(s, "Fill quantity exceeds remaining order quantity"),
         BookFill(s, id, filled, price)}
  BY DEF AckFillOrder
<1>2. ASSUME NEW what
      PROVE  IsState(Throw(s, what)) /\ Throw(s, what).queue = s.queue
  BY ThrowKeeps
<1>3. IsState(BookFill(s, id, filled, price)) /\ BookFill(s, id, filled, price).queue = s.queue
  BY BookFillKeeps
<1> QED
  BY <1>1, <1>2, <1>3

\* The strategy sends nothing when it hears of a fill.
LEMMA FilledKeeps ==
  ASSUME NEW s, IsState(s), NEW id, NEW filled
  PROVE  /\ IsState(OnOrderFilled(s, id, filled))
         /\ OnOrderFilled(s, id, filled).queue = s.queue
<1> DEFINE t == [s EXCEPT !.mm.position =
                   IF s.oms.orders[id].side = "Bid" THEN @ + filled ELSE @ - filled]
<1>1. IsState(t) /\ t.queue = s.queue
  BY DEF IsState
<1>2. OnOrderFilled(s, id, filled) \in {t, Untrack(t, id)}
  BY DEF OnOrderFilled
<1> HIDE DEF t
<1> QED
  BY <1>1, <1>2, UntrackKeeps

\* The variables have the shape of the record that State(_) makes of them.
Shape == /\ oms = [orders |-> oms.orders, holdings |-> oms.holdings, cash |-> oms.cash]
         /\ mm = [active |-> mm.active, quote |-> mm.quote, position |-> mm.position]

\* The engine's variables make up a state the handlers can work on.
LEMMA StateIsState ==
  ASSUME Shape, NEW events
  PROVE  /\ IsState(State(events))
         /\ State(events).queue = events
  BY DEF Shape, IsState, State

\* Routing an event takes it off the queue and adds events after its time.
LEMMA RouteTime ==
  ASSUME TimeInv, NEW e \in queue, IsTop(e, queue), Due(e),
         engine_time' = e.timestamp, UNCHANGED <<reading_feed, msg>>,
         NEW t \in Int, t >= e.timestamp, AddedAt(queue \ {e}, queue', t)
  PROVE  TimeInv'
<1>1. \A f \in queue : f.timestamp \in Int /\ f.timestamp >= e.timestamp
  BY DEF TimeInv, IsTop, Before
<1>2. msg # NoMsg => msg.ts_recv \in Int /\ msg.ts_recv >= e.timestamp
  BY DEF TimeInv, Due
<1>3. \A f \in queue' : f.timestamp \in Int /\ f.timestamp >= e.timestamp
  BY <1>1 DEF AddedAt
<1>4. msg' = NoMsg => ~reading_feed'
  BY DEF Due
<1>5. engine_time' \in Int /\ (msg' # NoMsg => msg'.ts_recv \in Int /\ msg'.ts_recv >= engine_time')
  BY <1>1, <1>2
<1> QED
  BY <1>3, <1>4, <1>5 DEF TimeInv

\* What a handler makes of the state has the shape of the state.
LEMMA BecomesShape ==
  ASSUME NEW s, IsState(s), Becomes(s)
  PROVE  Shape' /\ queue' = s.queue
  BY DEF IsState, Becomes, Shape

TimedShape == Shape /\ TimeInv

\* No step leaves an event in the past, nor a polled message behind the clock.
LEMMA TimeInductive == TimedShape /\ [Next]_vars => TimedShape'
<1> SUFFICES ASSUME Shape, TimeInv, [Next]_vars
             PROVE  Shape' /\ TimeInv'
  BY DEF TimedShape
<1> USE LatencyAssumption
<1>1. CASE PollFeed
  <2>1. msg' # NoMsg
    <3>1. \E a, b, c, d, e, f : msg' = [action |-> a, order_id |-> b, side |-> c, price |-> d, size |-> e, ts_recv |-> f]
      BY <1>1 DEF PollFeed
    <3>2. "size" \in DOMAIN msg' /\ "size" \notin DOMAIN NoMsg
      BY <3>1 DEF NoMsg
    <3> QED
      BY <3>2
  <2> QED
    BY <1>1, <2>1, EngineAssumption DEF PollFeed, Shape, TimeInv, trading
<1>2. CASE EndOfFeed
  BY <1>2 DEF EndOfFeed, Shape, TimeInv, trading
<1>3. ASSUME NEW e \in queue, RouteCreate(e) PROVE Shape' /\ TimeInv'
  <2>1. /\ IsTop(e, queue) /\ Due(e) /\ engine_time' = e.timestamp
        /\ UNCHANGED <<reading_feed, msg>> /\ Shape'
    BY <1>3 DEF RouteCreate, Routes, trading, feed, Shape
  <2>2. e.timestamp \in Int
    BY DEF TimeInv
  <2>3. \/ queue' = queue \ {e}
        \/ queue' = SendInbound(queue \ {e}, e.timestamp, AckCreate(e.payload.order_id))
    BY <1>3, Zenon DEF RouteCreate
  <2>4. AddedAt(queue \ {e}, queue', e.timestamp + InboundLatency)
    BY <2>3 DEF AddedAt, SendInbound, Sent
  <2>5. e.timestamp + InboundLatency \in Int /\ e.timestamp + InboundLatency >= e.timestamp
    BY <2>2
  <2> QED
    BY <2>1, <2>4, <2>5, RouteTime
<1>4. ASSUME NEW e \in queue, RouteCancel(e) PROVE Shape' /\ TimeInv'
  <2>1. /\ IsTop(e, queue) /\ Due(e) /\ engine_time' = e.timestamp
        /\ UNCHANGED <<reading_feed, msg>> /\ Shape'
    BY <1>4 DEF RouteCancel, Routes, trading, feed, Shape
  <2>2. e.timestamp \in Int
    BY DEF TimeInv
  <2>3. AddedAt(queue \ {e}, queue', e.timestamp + InboundLatency)
    BY <1>4 DEF RouteCancel, AddedAt, SendInbound, Sent
  <2>4. e.timestamp + InboundLatency \in Int /\ e.timestamp + InboundLatency >= e.timestamp
    BY <2>2
  <2> QED
    BY <2>1, <2>3, <2>4, RouteTime
<1>5. ASSUME NEW e \in queue, RouteAckCreate(e) \/ RouteAckCancel(e) \/ RouteAckFill(e)
      PROVE  Shape' /\ TimeInv'
  <2> DEFINE s == State(queue \ {e})
             f == AckFillOrder(s, e.payload.order_id, e.payload.filled_qty, e.payload.price)
  <2>1. IsState(s) /\ s.queue = queue \ {e}
    BY StateIsState
  <2>2. Shape' /\ queue' = queue \ {e}
    <3> HIDE DEF s
    <3>1. CASE RouteAckCreate(e)
      BY <2>1, <3>1, AckCreateKeeps, BecomesShape DEF RouteAckCreate, s
    <3>2. CASE RouteAckCancel(e)
      BY <2>1, <3>2, AckCancelKeeps, BecomesShape DEF RouteAckCancel, s
    <3>3. CASE RouteAckFill(e)
      <4>1. IsState(f) /\ f.queue = queue \ {e}
        BY <2>1, AckFillKeeps
      <4>2. \/ Becomes(f)
            \/ Becomes(OnOrderFilled(f, e.payload.order_id, e.payload.filled_qty))
        BY <3>3 DEF RouteAckFill, s
      <4> HIDE DEF f
      <4> QED
        BY <4>1, <4>2, FilledKeeps, BecomesShape
    <3> QED
      BY <1>5, <3>1, <3>2, <3>3
  <2>3. /\ IsTop(e, queue) /\ Due(e) /\ engine_time' = e.timestamp
        /\ UNCHANGED <<reading_feed, msg>>
    BY <1>5 DEF RouteAckCreate, RouteAckCancel, RouteAckFill, Routes, feed
  <2>4. e.timestamp \in Int /\ AddedAt(queue \ {e}, queue', e.timestamp)
    BY <2>2 DEF TimeInv, AddedAt
  <2> HIDE DEF s, f
  <2> QED
    BY <2>2, <2>3, <2>4, RouteTime
<1>6. ASSUME NEW actions, Applies(actions), Shape', NEW t \in Int, t >= msg.ts_recv,
             Delayed => t > msg.ts_recv, AddedAt(queue, queue', t)
      PROVE  TimeInv'
  <2>1. /\ msg # NoMsg /\ msg.ts_recv \in Int /\ msg' = NoMsg /\ engine_time' = msg.ts_recv
        /\ \A e \in queue : ~ Due(e)
    BY <1>6 DEF Applies, TimeInv
  <2>2. \A e \in queue : e.timestamp \in Int /\ e.timestamp >= msg.ts_recv
    BY <2>1 DEF Due, TimeInv
  <2>3. \A e \in queue' : /\ e.timestamp \in Int /\ e.timestamp >= msg.ts_recv
                          /\ Delayed => e.timestamp > msg.ts_recv
    BY <1>6, <2>1, <2>2 DEF AddedAt, Due
  <2> QED
    BY <2>1, <2>3 DEF TimeInv, NoMsg
<1>7. CASE ApplyBookUpdate
  <2> DEFINE s == State(queue)
             u == OnBookUpdate(s, msg.ts_recv, Best(book', "Bid"), Best(book', "Ask"))
  <2>1. IsState(s) /\ s.queue = queue
    BY StateIsState
  <2>2. IsState(u) /\ AddedAt(queue, u.queue, msg.ts_recv + OutboundLatency)
    <3> HIDE DEF s
    <3> QED BY <2>1, BookUpdateSends
  <2>3. Becomes(u) /\ Applies({"Add", "Modify", "Cancel", "Clear"})
    BY <1>7 DEF ApplyBookUpdate
  <2>4. Shape' /\ queue' = u.queue
    <3> HIDE DEF u
    <3> QED BY <2>2, <2>3, BecomesShape
  <2>5. msg.ts_recv \in Int
    BY <2>3 DEF Applies, TimeInv
  <2>6. Delayed => msg.ts_recv + OutboundLatency > msg.ts_recv
    BY <2>5 DEF Delayed
  <2> QED
    BY <2>2, <2>3, <2>4, <2>5, <2>6, <1>6
<1>8. CASE ApplyFill
  <2>1. Applies({"Fill"}) /\ Shape'
    BY <1>8 DEF ApplyFill, trading, Shape
  <2>2. msg.ts_recv \in Int
    BY <2>1 DEF Applies, TimeInv
  <2>3. AddedAt(queue, queue', msg.ts_recv + InboundLatency)
    BY <1>8 DEF ApplyFill, VX!FillAcks, VX!Sent, AddedAt
  <2>4. Delayed => msg.ts_recv + InboundLatency > msg.ts_recv
    BY <2>2 DEF Delayed
  <2> QED
    BY <2>1, <2>2, <2>3, <2>4, <1>6
<1>9. CASE ApplyNothing
  <2>1. Applies({"Trade"}) /\ Shape' /\ AddedAt(queue, queue', msg.ts_recv + 1)
    BY <1>9 DEF ApplyNothing, trading, Shape, AddedAt
  <2>2. msg.ts_recv + 1 \in Int /\ msg.ts_recv + 1 >= msg.ts_recv /\ msg.ts_recv + 1 > msg.ts_recv
    BY <2>1 DEF Applies, TimeInv
  <2> QED
    BY <2>1, <2>2, <1>6
<1>10. CASE UNCHANGED vars
  BY <1>10 DEF vars, Shape, TimeInv
<1> QED
  BY <1>1, <1>2, <1>3, <1>4, <1>5, <1>7, <1>8, <1>9, <1>10
  DEF Next, Step, Route, Apply

(* The engine routes every event at its own time, before time goes on and before a
   message of the same timestamp: simulated time never passes an event that is still in
   the network, and no event of a message's time is left when it has been applied. *)
THEOREM TimeSafety == Spec => []NoEventInThePast
<1>1. Init => TimedShape
  BY DEF Init, TimedShape, Shape, TimeInv, InitOms, InitMarketMaker
<1>2. TimedShape => NoEventInThePast
  BY DEF TimedShape, TimeInv, NoEventInThePast
<1> QED
  BY <1>1, <1>2, TimeInductive, PTL DEF Spec

---------------------------------------------------------------------------
(* The orders the strategy tracks. *)

IsOrder(o) == o = [price |-> o.price, qty |-> o.qty, filled_qty |-> o.filled_qty,
                   side |-> o.side, status |-> o.status]

IsTable(t) == /\ \E S : t \in Seq(S)
              /\ \A i \in DOMAIN t : IsOrder(t[i])

\* u is the table t with another status of order id, if there is such an order.
Restated(t, u, id) ==
  /\ IsTable(u)
  /\ DOMAIN u = DOMAIN t
  /\ \A i \in DOMAIN t :
       /\ u[i].price = t[i].price
       /\ u[i].side = t[i].side
       /\ i # id => u[i].status = t[i].status

\* Changing one order of a table leaves a table and all other orders.
LEMMA TableExcept ==
  ASSUME NEW t, IsTable(t), NEW id, NEW o, id \in DOMAIN t => IsOrder(o)
  PROVE  /\ IsTable([t EXCEPT ![id] = o])
         /\ DOMAIN [t EXCEPT ![id] = o] = DOMAIN t
         /\ \A i \in DOMAIN t : [t EXCEPT ![id] = o][i] = IF i = id THEN o ELSE t[i]
<1> DEFINE u == [t EXCEPT ![id] = o]
<1>1. PICK S : t \in Seq(S)
  BY DEF IsTable
<1>2. DOMAIN u = DOMAIN t /\ \A i \in DOMAIN t : u[i] = IF i = id THEN o ELSE t[i]
  BY <1>1
<1>3. u \in Seq(S \cup {o})
  <2>1. Len(t) \in Nat /\ t \in [1..Len(t) -> S]
    BY <1>1, LenProperties
  <2>2. u \in [1..Len(t) -> S \cup {o}]
    BY <2>1
  <2> QED
    BY <2>1, <2>2, SeqDef
<1>4. \A i \in DOMAIN u : IsOrder(u[i])
  BY <1>2 DEF IsTable
<1> HIDE DEF u
<1>5. IsTable(u)
  BY <1>3, <1>4 DEF IsTable
<1> QED
  BY <1>2, <1>5 DEF u

\* An order added to a table gets the next place, and the others keep theirs.
LEMMA TableAppend ==
  ASSUME NEW t, IsTable(t), NEW o, IsOrder(o)
  PROVE  /\ Len(t) \in Nat /\ DOMAIN t = 1..Len(t)
         /\ IsTable(Append(t, o))
         /\ Len(Append(t, o)) = Len(t) + 1
         /\ DOMAIN Append(t, o) = 1..(Len(t) + 1)
         /\ \A i \in DOMAIN t : Append(t, o)[i] = t[i]
         /\ Append(t, o)[Len(t) + 1] = o
<1>1. PICK S : t \in Seq(S)
  BY DEF IsTable
<1>2. t \in Seq(S \cup {o})
  BY <1>1
<1>3. /\ Append(t, o) \in Seq(S \cup {o})
      /\ Len(t) \in Nat /\ DOMAIN t = 1..Len(t)
      /\ Len(Append(t, o)) = Len(t) + 1
      /\ DOMAIN Append(t, o) = 1..(Len(t) + 1)
      /\ \A i \in DOMAIN t : Append(t, o)[i] = t[i]
      /\ Append(t, o)[Len(t) + 1] = o
  BY <1>2
<1>4. \A i \in DOMAIN Append(t, o) : IsOrder(Append(t, o)[i])
  BY <1>3 DEF IsTable
<1> QED
  BY <1>3, <1>4 DEF IsTable

\* A change of status changes nothing else of the order, and no other order.
LEMMA SetStatusRestates ==
  ASSUME NEW s, IsState(s), IsTable(s.oms.orders), NEW id, NEW status
  PROVE  /\ Restated(s.oms.orders, SetStatus(s, id, status).oms.orders, id)
         /\ id \in DOMAIN s.oms.orders => SetStatus(s, id, status).oms.orders[id].status = status
<1> DEFINE t == s.oms.orders
           o == [t[id] EXCEPT !.status = status]
           u == [t EXCEPT ![id] = o]
<1>1. SetStatus(s, id, status).oms.orders = u
  BY DEF IsState, SetStatus
<1>2. ASSUME id \in DOMAIN t
      PROVE  IsOrder(o) /\ o.price = t[id].price /\ o.side = t[id].side /\ o.status = status
  <2> DEFINE r == t[id]
  <2>1. r = [price |-> r.price, qty |-> r.qty, filled_qty |-> r.filled_qty,
             side |-> r.side, status |-> r.status]
    BY <1>2 DEF IsTable, IsOrder
  <2> HIDE DEF r
  <2>2. [r EXCEPT !.status = status] = [price |-> r.price, qty |-> r.qty,
           filled_qty |-> r.filled_qty, side |-> r.side, status |-> status]
    BY <2>1
  <2> QED
    BY <2>2 DEF IsOrder, r
<1> HIDE DEF o
<1>3. IsTable(u) /\ DOMAIN u = DOMAIN t /\ \A i \in DOMAIN t : u[i] = IF i = id THEN o ELSE t[i]
  BY <1>2, TableExcept
<1> HIDE DEF u
<1> QED
  BY <1>1, <1>2, <1>3 DEF Restated

\* A fill changes an order's status and filled quantity, not its price or side.
LEMMA BookFillRestates ==
  ASSUME NEW s, IsState(s), IsTable(s.oms.orders), NEW id, NEW filled, NEW price
  PROVE  /\ Restated(s.oms.orders, BookFill(s, id, filled, price).oms.orders, id)
         /\ id \in DOMAIN s.oms.orders =>
              BookFill(s, id, filled, price).oms.orders[id].status \in {"FILLED", "PARTIALLY_FILLED"}
<1> DEFINE t      == s.oms.orders
           order  == t[id]
           bought == IF order.side = "Bid" THEN filled ELSE -filled
           after  == [price |-> order.price, qty |-> order.qty,
                      filled_qty |-> order.filled_qty + filled, side |-> order.side,
                      status |-> IF order.filled_qty + filled = order.qty
                                 THEN "FILLED" ELSE "PARTIALLY_FILLED"]
           u      == [t EXCEPT ![id] = after]
           booked == [s EXCEPT !.oms = [orders   |-> [@.orders EXCEPT ![id] = after],
                                        holdings |-> @.holdings + bought,
                                        cash     |-> @.cash - bought * price]]
           v == [booked EXCEPT !.risk = IF order.side = "Ask" THEN @ - filled ELSE @ + filled]
<1>1. BookFill(s, id, filled, price) = v
  BY DEF BookFill
<1>2. v.oms.orders = u
  <2>1. IsState(booked) /\ booked.oms.orders = u
    <3> HIDE DEF after, bought
    <3>1. IsState(booked)
      BY DEF IsState
    <3>2. booked.oms.orders = u
      BY DEF IsState
    <3> QED
      BY <3>1, <3>2
  <2> HIDE DEF booked, u
  <2> QED
    BY <2>1 DEF IsState
<1>3. /\ IsOrder(after) /\ after.price = order.price /\ after.side = order.side
      /\ after.status \in {"FILLED", "PARTIALLY_FILLED"}
  BY DEF IsOrder
<1> HIDE DEF after, v
<1>4. IsTable(u) /\ DOMAIN u = DOMAIN t /\ \A i \in DOMAIN t : u[i] = IF i = id THEN after ELSE t[i]
  BY <1>3, TableExcept
<1> HIDE DEF u
<1> QED
  BY <1>1, <1>2, <1>3, <1>4 DEF Restated

\* What TrackedOrdersAreOpen says of one side, on a handler's state.
TracksOpen(s, side) ==
  LET id == s.mm.active[side]
  IN  id # NoOrder => /\ id \in DOMAIN s.oms.orders
                      /\ s.oms.orders[id].side = side
                      /\ s.oms.orders[id].price = s.mm.quote[side]
                      /\ s.oms.orders[id].status \in Open

Sound(s) == /\ IsState(s) /\ IsTable(s.oms.orders)
            /\ DOMAIN s.mm.active = Sides /\ DOMAIN s.mm.quote = Sides
            /\ \A side \in Sides : TracksOpen(s, side)

\* A cancel that is sent, or ignored, concerns the one order's status only.
LEMMA CancelRestates ==
  ASSUME NEW s, IsState(s), IsTable(s.oms.orders), NEW now, NEW id
  PROVE  Restated(s.oms.orders, CancelOrder(s, now, id).oms.orders, id)
<1> DEFINE u == SetStatus(s, id, "PENDING_CANCEL")
           v == [u EXCEPT !.queue = SendOutbound(@, now, Cancel(id))]
<1>1. IsState(u) /\ Restated(s.oms.orders, u.oms.orders, id)
  BY SetStatusKeeps, SetStatusRestates
<1>2. v.oms = u.oms
  <2> HIDE DEF u
  <2> QED BY <1>1 DEF IsState
<1>3. CancelOrder(s, now, id) \in {s, v}
  BY DEF CancelOrder
<1>4. Restated(s.oms.orders, s.oms.orders, id)
  BY DEF Restated
<1> HIDE DEF u, v
<1> QED
  BY <1>1, <1>2, <1>3, <1>4

\* A side that withdraws its quote tracks nothing; the other's order is another order.
LEMMA DropSound ==
  ASSUME NEW s, Sound(s), NEW now, NEW side \in Sides, s.mm.active[side] # NoOrder
  PROVE  Sound(Drop(s, now, side))
<1> DEFINE id == s.mm.active[side]
           t  == CancelOrder(s, now, id)
           u  == [t EXCEPT !.mm.active[side] = NoOrder]
<1>1. IsState(t) /\ t.mm = s.mm /\ Restated(s.oms.orders, t.oms.orders, id)
  BY CancelSends, CancelRestates DEF Sound
<1>2. /\ IsState(u) /\ u.oms = t.oms
      /\ u.mm.active = [t.mm.active EXCEPT ![side] = NoOrder] /\ u.mm.quote = t.mm.quote
  <2> HIDE DEF t
  <2>1. IsState(u)
    BY <1>1 DEF IsState
  <2>2. u.oms = t.oms
    BY <1>1 DEF IsState
  <2>3. u.mm.active = [t.mm.active EXCEPT ![side] = NoOrder]
    BY <1>1 DEF IsState
  <2>4. u.mm.quote = t.mm.quote
    BY <1>1 DEF IsState
  <2> QED
    BY <2>1, <2>2, <2>3, <2>4
<1> HIDE DEF t, u
<1>3. /\ DOMAIN u.mm.active = Sides /\ DOMAIN u.mm.quote = Sides
      /\ u.mm.active[side] = NoOrder
      /\ \A x \in Sides : x # side => u.mm.active[x] = s.mm.active[x]
  BY <1>1, <1>2 DEF Sound
<1>4. ASSUME NEW x \in Sides, u.mm.active[x] # NoOrder PROVE TracksOpen(u, x)
  <2>1. x # side /\ u.mm.active[x] = s.mm.active[x]
    BY <1>3, <1>4
  <2>2. TracksOpen(s, x) /\ TracksOpen(s, side)
    BY DEF Sound
  <2>3. s.mm.active[x] # id
    BY <1>4, <2>1, <2>2, SMTT(30) DEF TracksOpen
  <2> DEFINE y == s.mm.active[x]
  <2>4. /\ y \in DOMAIN s.oms.orders /\ s.oms.orders[y].side = x
        /\ s.oms.orders[y].price = s.mm.quote[x] /\ s.oms.orders[y].status \in Open
    BY <1>4, <2>1, <2>2 DEF TracksOpen
  <2>5. u.oms.orders = t.oms.orders /\ u.mm.quote = s.mm.quote /\ y # id
    BY <1>1, <1>2, <2>3
  <2> HIDE DEF y, id
  <2>6. /\ y \in DOMAIN t.oms.orders /\ t.oms.orders[y].side = x
        /\ t.oms.orders[y].price = s.mm.quote[x] /\ t.oms.orders[y].status \in Open
    BY <1>1, <2>4, <2>5 DEF Restated
  <2> QED
    BY <2>1, <2>5, <2>6 DEF TracksOpen, y
<1>5. IsTable(u.oms.orders)
  BY <1>1, <1>2 DEF Restated
<1>6. \A x \in Sides : TracksOpen(u, x)
  BY <1>4 DEF TracksOpen
<1> QED
  BY <1>2, <1>3, <1>5, <1>6, Zenon DEF Drop, Sound, t, u

\* A new order gets a new id, so that no tracked order is touched.
LEMMA CreateSound ==
  ASSUME NEW s, Sound(s), NEW now, NEW price, NEW qty, NEW side
  PROVE  LET t == CreateOrder(s, now, price, qty, side)
         IN  /\ Sound(t)
             /\ t.error = "none" =>
                  /\ Len(t.oms.orders) \in DOMAIN t.oms.orders
                  /\ t.oms.orders[Len(t.oms.orders)].side = side
                  /\ t.oms.orders[Len(t.oms.orders)].price = price
<1> DEFINE t     == CreateOrder(s, now, price, qty, side)
           order == [price |-> price, qty |-> qty, filled_qty |-> 0, side |-> side,
                     status |-> IF Approved(s.risk, side, qty) THEN "PENDING" ELSE "REJECTED"]
           table == Append(s.oms.orders, order)
           u == Throw(s, "OrderManagementSystem is full")
           v == [s EXCEPT !.oms.orders = table]
           w == [v EXCEPT !.queue =
                   SendOutbound(@, now, Create(Len(s.oms.orders) + 1, price, qty, side))]
<1>1. IsState(t) /\ t.mm = s.mm
  BY CreateSends DEF Sound
<1>2. u.oms = s.oms /\ u.error = "OrderManagementSystem is full"
  BY ThrowKeeps DEF Sound, Throw, IsState
<1>3. IsState(v) /\ v.oms.orders = table
  <2> HIDE DEF table
  <2>1. IsState(s)
    BY DEF Sound
  <2>2. IsState(v)
    BY <2>1 DEF IsState
  <2>3. v.oms.orders = table
    BY <2>1 DEF IsState
  <2> QED
    BY <2>2, <2>3
<1>4. w.oms.orders = table
  <2> HIDE DEF v
  <2> QED
    BY <1>3 DEF IsState
<1>5. t \in {u, v, w}
  BY DEF CreateOrder
<1>6. IsOrder(order) /\ order.side = side /\ order.price = price
  BY DEF IsOrder
<1>7. /\ IsTable(table) /\ DOMAIN s.oms.orders \subseteq DOMAIN table
      /\ Len(table) \in DOMAIN table /\ table[Len(table)] = order
      /\ \A i \in DOMAIN s.oms.orders : table[i] = s.oms.orders[i]
  <2> HIDE DEF order
  <2> QED
    BY <1>6, TableAppend DEF Sound
<1> HIDE DEF t, u, v, w, table, order
<1>8. /\ IsTable(t.oms.orders) /\ DOMAIN s.oms.orders \subseteq DOMAIN t.oms.orders
      /\ \A i \in DOMAIN s.oms.orders : t.oms.orders[i] = s.oms.orders[i]
  BY <1>2, <1>3, <1>4, <1>5, <1>7 DEF Sound
<1>9. Sound(t)
  BY <1>1, <1>8 DEF Sound, TracksOpen
<1>10. t.error = "none" => t.oms.orders = table
  BY <1>2, <1>3, <1>4, <1>5
<1> QED
  BY <1>6, <1>7, <1>9, <1>10 DEF t

\* A quote is tracked with the price and side it was sent with, and only while pending.
LEMMA SendSound ==
  ASSUME NEW s, Sound(s), NEW now, NEW side \in Sides, NEW target
  PROVE  Sound(Send(s, now, side, target))
<1> DEFINE t  == CreateOrder(s, now, target, OrderQty, side)
           id == Len(t.oms.orders)
           u  == [t EXCEPT !.mm = [active   |-> [@.active EXCEPT ![side] = id],
                                   quote    |-> [@.quote EXCEPT ![side] = target],
                                   position |-> @.position]]
<1>1. /\ Sound(t)
      /\ t.error = "none" => /\ id \in DOMAIN t.oms.orders
                             /\ t.oms.orders[id].side = side
                             /\ t.oms.orders[id].price = target
  BY CreateSound
<1>2. \/ Send(s, now, side, target) = t
      \/ /\ t.error = "none" /\ t.oms.orders[id].status = "PENDING"
         /\ Send(s, now, side, target) = u
  BY DEF Send
<1>3. CASE t.error = "none" /\ t.oms.orders[id].status = "PENDING"
  <2> HIDE DEF t
  <2>1. IsState(t)
    BY <1>1 DEF Sound
  <2>2. IsState(u)
    BY <2>1 DEF IsState
  <2>3. u.oms = t.oms
    BY <2>1 DEF IsState
  <2>4. u.mm.active = [t.mm.active EXCEPT ![side] = id]
    BY <2>1 DEF IsState
  <2>5. u.mm.quote = [t.mm.quote EXCEPT ![side] = target]
    BY <2>1 DEF IsState
  <2> HIDE DEF u, id
  <2>6. ASSUME NEW x \in Sides PROVE TracksOpen(u, x)
    <3>1. CASE x = side
      <4>1. u.mm.active[x] = id /\ u.mm.quote[x] = target
        BY <1>1, <2>4, <2>5, <3>1 DEF Sound
      <4> QED
        BY <1>1, <1>3, <2>3, <3>1, <4>1 DEF TracksOpen, Open
    <3>2. CASE x # side
      <4>1. u.mm.active[x] = t.mm.active[x] /\ u.mm.quote[x] = t.mm.quote[x]
        BY <1>1, <2>4, <2>5, <3>2 DEF Sound
      <4>2. TracksOpen(t, x)
        BY <1>1 DEF Sound
      <4> QED
        BY <2>3, <4>1, <4>2 DEF TracksOpen
    <3> QED
      BY <3>1, <3>2
  <2>7. Sound(u)
    BY <1>1, <2>2, <2>3, <2>4, <2>5, <2>6 DEF Sound
  <2> QED
    BY <1>1, <1>2, <2>7 DEF t
<1> HIDE DEF t, u
<1> QED
  BY <1>1, <1>2, <1>3

\* Whatever one side does at an update, it tracks an open order or none.
LEMMA QuoteSound ==
  ASSUME NEW s, Sound(s), NEW now, NEW side \in Sides, NEW target
  PROVE  Sound(Quote(s, now, side, target))
<1>1. \/ Quote(s, now, side, target) = s
      \/ s.mm.active[side] # NoOrder /\ Quote(s, now, side, target) = Drop(s, now, side)
      \/ Quote(s, now, side, target) = Send(s, now, side, target)
  BY DEF Quote
<1> QED
  BY <1>1, DropSound, SendSound

\* The same for both sides, one after the other.
LEMMA BookUpdateSound ==
  ASSUME NEW s, Sound(s), NEW now, NEW bid, NEW ask
  PROVE  Sound(OnBookUpdate(s, now, bid, ask))
<1> DEFINE c == CancelActive(s, now, "Bid")
           q == Quote(s, now, "Bid", Target("Bid", s.mm.position, bid, ask))
<1>1. "Bid" \in Sides /\ "Ask" \in Sides
  BY DEF Sides
<1>2. ASSUME NEW r, Sound(r), NEW side \in Sides
      PROVE  Sound(CancelActive(r, now, side))
  BY <1>2, DropSound DEF CancelActive
<1>3. Sound(CancelActive(c, now, "Ask"))
  BY <1>1, <1>2
<1>4. Sound(q)
  BY <1>1, QuoteSound
<1>5. \A target : Sound(Quote(q, now, "Ask", target))
  <2> HIDE DEF q
  <2> QED BY <1>1, <1>4, QuoteSound
<1> HIDE DEF c, q
<1> QED
  BY <1>3, <1>5 DEF OnBookUpdate, c, q

\* Once no side tracks order id, its status is of no account.
LEMMA UntrackSound ==
  ASSUME NEW s, IsState(s), IsTable(s.oms.orders), NEW id,
         \A side \in Sides : s.mm.active[side] # id => TracksOpen(s, side)
  PROVE  Sound(Untrack(s, id))
<1> DEFINE u == Untrack(s, id)
<1>1. IsState(u) /\ u.oms = s.oms
  BY UntrackKeeps
<1>2. u.mm = [active   |-> [side \in Sides |-> IF s.mm.active[side] = id THEN NoOrder
                                              ELSE s.mm.active[side]],
              quote    |-> [side \in Sides |-> IF s.mm.active[side] = id THEN NoPrice
                                              ELSE s.mm.quote[side]],
              position |-> s.mm.position]
  BY DEF Untrack, IsState
<1> HIDE DEF u
<1>3. /\ DOMAIN u.mm.active = Sides /\ DOMAIN u.mm.quote = Sides
      /\ \A side \in Sides :
           /\ s.mm.active[side] = id => u.mm.active[side] = NoOrder
           /\ s.mm.active[side] # id => /\ u.mm.active[side] = s.mm.active[side]
                                        /\ u.mm.quote[side] = s.mm.quote[side]
  BY <1>2
<1>4. \A side \in Sides : TracksOpen(u, side)
  BY <1>1, <1>3 DEF TracksOpen
<1> QED
  BY <1>1, <1>3, <1>4 DEF Sound, u

\* An acknowledgement that leaves its order alive leaves the strategy right.
LEMMA RestatedSound ==
  ASSUME NEW s, Sound(s), NEW u, IsState(u), NEW id, u.mm = s.mm,
         Restated(s.oms.orders, u.oms.orders, id)
  PROVE  /\ \A side \in Sides : s.mm.active[side] # id => TracksOpen(u, side)
         /\ (id \in DOMAIN s.oms.orders => u.oms.orders[id].status \in Open) => Sound(u)
<1>1. ASSUME NEW side \in Sides,
             s.mm.active[side] # id
               \/ (id \in DOMAIN s.oms.orders => u.oms.orders[id].status \in Open)
      PROVE  TracksOpen(u, side)
  <2> DEFINE y == s.mm.active[side]
  <2>1. CASE y = NoOrder
    BY <2>1 DEF TracksOpen
  <2>2. CASE y # NoOrder
    <3>1. /\ y \in DOMAIN s.oms.orders /\ s.oms.orders[y].side = side
          /\ s.oms.orders[y].price = s.mm.quote[side] /\ s.oms.orders[y].status \in Open
      BY <2>2 DEF Sound, TracksOpen
    <3>2. y # id \/ u.oms.orders[id].status \in Open
      BY <1>1, <3>1
    <3> HIDE DEF y
    <3>3. /\ y \in DOMAIN u.oms.orders /\ u.oms.orders[y].side = side
          /\ u.oms.orders[y].price = s.mm.quote[side] /\ u.oms.orders[y].status \in Open
      BY <3>1, <3>2 DEF Restated
    <3> QED
      BY <3>3, SMTT(30) DEF TracksOpen, y
  <2> QED
    BY <2>1, <2>2
<1> QED
  BY <1>1 DEF Sound, Restated

\* An order that becomes live is open.
LEMMA AckCreateSound ==
  ASSUME NEW s, Sound(s), NEW id
  PROVE  Sound(AckCreateOrder(s, id))
<1> DEFINE u == SetStatus(s, id, "LIVE")
<1>1. IsState(s) /\ IsTable(s.oms.orders)
  BY DEF Sound
<1>2. IsState(u) /\ u.mm = s.mm
  BY <1>1, SetStatusKeeps
<1>3. /\ Restated(s.oms.orders, u.oms.orders, id)
      /\ id \in DOMAIN s.oms.orders => u.oms.orders[id].status \in Open
  BY <1>1, SetStatusRestates DEF Open
<1> HIDE DEF u
<1> QED
  BY <1>2, <1>3, RestatedSound DEF AckCreateOrder, u

\* A cancelled order is forgotten by the handler that hears of it.
LEMMA AckCancelSound ==
  ASSUME NEW s, Sound(s), NEW id
  PROVE  Sound(OnOrderCanceled(AckCancelOrder(s, id), id))
<1> DEFINE u == SetStatus(s, id, "CANCELLED")
<1>1. IsState(s) /\ IsTable(s.oms.orders)
  BY DEF Sound
<1>2. IsState(u) /\ u.mm = s.mm
  BY <1>1, SetStatusKeeps
<1>3. Restated(s.oms.orders, u.oms.orders, id)
  BY <1>1, SetStatusRestates
<1>4. Sound(Untrack(s, id))
  BY <1>1, UntrackSound DEF Sound
<1> HIDE DEF u
<1>5. \A side \in Sides : s.mm.active[side] # id => TracksOpen(u, side)
  BY <1>2, <1>3, RestatedSound
<1>6. Sound(Untrack(u, id))
  <2>1. IsTable(u.oms.orders)
    BY <1>3 DEF Restated
  <2>2. \A side \in Sides : u.mm.active[side] # id => TracksOpen(u, side)
    BY <1>2, <1>5, SMTT(30)
  <2> QED
    BY <1>2, <2>1, <2>2, UntrackSound
<1> QED
  BY <1>4, <1>6 DEF AckCancelOrder, OnOrderCanceled, u

\* An exception leaves what is tracked as it was.
LEMMA ThrowSound ==
  ASSUME NEW s, Sound(s), NEW what
  PROVE  Sound(Throw(s, what))
  BY ThrowKeeps DEF Sound, TracksOpen

\* An order that is filled is forgotten; one that is partly filled is still open.
LEMMA FilledSound ==
  ASSUME NEW s, Sound(s), NEW id, NEW filled, NEW price
  PROVE  Sound(OnOrderFilled(BookFill(s, id, filled, price), id, filled))
<1> DEFINE r == BookFill(s, id, filled, price)
           p == IF r.oms.orders[id].side = "Bid" THEN r.mm.position + filled
                ELSE r.mm.position - filled
           t == [r EXCEPT !.mm.position = p]
<1>1. /\ IsState(r) /\ r.mm = s.mm /\ Restated(s.oms.orders, r.oms.orders, id)
      /\ id \in DOMAIN s.oms.orders =>
           r.oms.orders[id].status \in {"FILLED", "PARTIALLY_FILLED"}
  BY BookFillKeeps, BookFillRestates DEF Sound
<1>2. IsState(t) /\ t.oms = r.oms /\ t.mm.active = r.mm.active /\ t.mm.quote = r.mm.quote
  <2> HIDE DEF r, p
  <2>1. IsState(t)
    BY <1>1 DEF IsState
  <2>2. t.oms = r.oms
    BY <1>1 DEF IsState
  <2>3. t.mm.active = r.mm.active
    BY <1>1 DEF IsState
  <2>4. t.mm.quote = r.mm.quote
    BY <1>1 DEF IsState
  <2> QED
    BY <2>1, <2>2, <2>3, <2>4
<1>3. OnOrderFilled(r, id, filled)
        = IF r.oms.orders[id].status = "FILLED" THEN Untrack(t, id) ELSE t
  BY DEF OnOrderFilled
<1> HIDE DEF r, t
<1>4. IsTable(r.oms.orders)
  BY <1>1 DEF Restated
<1>5. CASE r.oms.orders[id].status = "FILLED"
  <2>1. \A side \in Sides : s.mm.active[side] # id => TracksOpen(r, side)
    BY <1>1, RestatedSound, SMTT(30)
  <2>2. \A side \in Sides : t.mm.active[side] # id => TracksOpen(t, side)
    BY <1>1, <1>2, <2>1 DEF TracksOpen
  <2> QED
    BY <1>2, <1>3, <1>4, <1>5, <2>2, UntrackSound DEF r
<1>6. CASE r.oms.orders[id].status # "FILLED"
  <2>1. id \in DOMAIN s.oms.orders => r.oms.orders[id].status \in Open
    BY <1>1, <1>6 DEF Open
  <2>2. Sound(r)
    BY <1>1, <2>1, RestatedSound, SMTT(30)
  <2>3. Sound(t)
    BY <1>2, <2>2 DEF Sound, TracksOpen
  <2> QED
    BY <1>3, <1>6, <2>3 DEF r
<1> QED
  BY <1>5, <1>6

---------------------------------------------------------------------------

TrackInv == /\ Shape /\ IsTable(oms.orders)
            /\ DOMAIN mm.active = Sides /\ DOMAIN mm.quote = Sides
            /\ TrackedOrdersAreOpen

\* The engine's state under the invariant is one the handlers keep sound.
LEMMA TrackInvIsSound ==
  ASSUME TrackInv, NEW events
  PROVE  Sound(State(events)) /\ State(events).error = error
<1>1. /\ IsState(State(events))
      /\ State(events).oms = oms /\ State(events).mm = mm /\ State(events).error = error
  BY StateIsState DEF TrackInv, State
<1>2. ASSUME NEW side \in Sides PROVE TracksOpen(State(events), side)
  BY <1>1 DEF TracksOpen, TrackInv, TrackedOrdersAreOpen, Ids, Order
<1> QED
  BY <1>1, <1>2 DEF Sound, TrackInv

\* What a handler leaves sound satisfies the invariant.
LEMMA SoundIsTrackInv ==
  ASSUME NEW s, Sound(s), Becomes(s)
  PROVE  TrackInv'
<1>1. Shape' /\ oms' = s.oms /\ mm' = s.mm
  BY BecomesShape DEF Sound, Becomes
<1>2. ASSUME NEW side \in Sides PROVE TracksOpen(s, side)
  BY DEF Sound
<1>3. TrackedOrdersAreOpen'
  BY <1>1, <1>2 DEF TracksOpen, TrackedOrdersAreOpen, Ids, Order
<1> QED
  BY <1>1, <1>3 DEF TrackInv, Sound

\* No step of the engine leaves a dead order tracked.
LEMMA TrackInductive == TrackInv /\ [Next]_vars => TrackInv'
<1> SUFFICES ASSUME TrackInv, [Next]_vars
             PROVE  TrackInv'
  OBVIOUS
<1>1. CASE UNCHANGED trading
  BY <1>1 DEF trading, TrackInv, Shape, TrackedOrdersAreOpen, Ids, Order
<1>2. ASSUME NEW e, RouteAckCreate(e) PROVE TrackInv'
  <2>1. Becomes(AckCreateOrder(State(queue \ {e}), e.payload.order_id))
    BY <1>2 DEF RouteAckCreate
  <2> QED
    BY <2>1, TrackInvIsSound, AckCreateSound, SoundIsTrackInv
<1>3. ASSUME NEW e, RouteAckCancel(e) PROVE TrackInv'
  <2> DEFINE s == State(queue \ {e})
             id == e.payload.order_id
  <2>1. Becomes(OnOrderCanceled(AckCancelOrder(s, id), id))
    BY <1>3 DEF RouteAckCancel
  <2>2. Sound(s)
    BY TrackInvIsSound
  <2> HIDE DEF s, id
  <2> QED
    BY <2>1, <2>2, AckCancelSound, SoundIsTrackInv
<1>4. ASSUME NEW e, RouteAckFill(e) PROVE TrackInv'
  <2> DEFINE s == State(queue \ {e})
             id == e.payload.order_id
             filled == e.payload.filled_qty
             price == e.payload.price
             r == AckFillOrder(s, id, filled, price)
  <2>1. /\ error = "none"
        /\ Becomes(IF r.error # "none" THEN r ELSE OnOrderFilled(r, id, filled))
    BY <1>4 DEF RouteAckFill, Routes
  <2>2. Sound(s) /\ s.error = "none"
    BY <2>1, TrackInvIsSound
  <2> HIDE DEF s, id, filled, price
  <2>3. \/ r = Throw(s, "Order is not live or partially filled")
        \/ r = Throw(s, "Fill quantity exceeds remaining order quantity")
        \/ r = BookFill(s, id, filled, price)
    BY DEF AckFillOrder
  <2>4. ASSUME NEW what, r = Throw(s, what), what # "none"
        PROVE  TrackInv'
    <3>1. r.error = what
      BY <2>2, <2>4 DEF Throw, Sound, IsState
    <3>2. Sound(r)
      BY <2>2, <2>4, ThrowSound
    <3> HIDE DEF r
    <3>3. Becomes(r)
      BY <2>1, <2>4, <3>1
    <3> QED
      BY <3>2, <3>3, SoundIsTrackInv
  <2>5. CASE r = BookFill(s, id, filled, price)
    <3>1. r.error = "none"
      BY <2>2, <2>5, BookFillKeeps DEF Sound
    <3>2. Sound(OnOrderFilled(r, id, filled))
      BY <2>2, <2>5, FilledSound
    <3> HIDE DEF r
    <3>3. Becomes(OnOrderFilled(r, id, filled))
      BY <2>1, <3>1
    <3> QED
      BY <3>2, <3>3, SoundIsTrackInv
  <2> HIDE DEF r
  <2> QED
    BY <2>3, <2>4, <2>5
<1>5. CASE ApplyBookUpdate
  <2> DEFINE s == State(queue)
             u == OnBookUpdate(s, msg.ts_recv, Best(book', "Bid"), Best(book', "Ask"))
  <2>1. Becomes(u)
    BY <1>5 DEF ApplyBookUpdate
  <2>2. Sound(s)
    BY TrackInvIsSound
  <2> HIDE DEF s
  <2>3. Sound(u)
    BY <2>2, BookUpdateSound
  <2> HIDE DEF u
  <2> QED
    BY <2>1, <2>3, SoundIsTrackInv
<1>6. ASSUME NEW e, RouteCreate(e) \/ RouteCancel(e) PROVE UNCHANGED trading
  BY <1>6 DEF RouteCreate, RouteCancel
<1>7. CASE PollFeed \/ EndOfFeed \/ ApplyFill \/ ApplyNothing \/ UNCHANGED vars
  BY <1>1, <1>7 DEF PollFeed, EndOfFeed, ApplyFill, ApplyNothing, vars, trading
<1> QED
  BY <1>1, <1>2, <1>3, <1>4, <1>5, <1>6, <1>7 DEF Next, Step, Route, Apply

(* The strategy never tracks a dead order, nor one it quoted at another price or
   on another side: it cannot be left waiting for an order that is filled,
   cancelled or was never let through. *)
THEOREM TrackedSafety == Spec => []TrackedOrdersAreOpen
<1>1. Init => TrackInv
  <2> SUFFICES ASSUME Init PROVE TrackInv
    OBVIOUS
  <2>1. Shape
    BY DEF Init, Shape, InitOms, InitMarketMaker
  <2>2. oms.orders = <<>> /\ IsTable(oms.orders)
    BY EmptySeq DEF Init, InitOms, IsTable
  <2>3. /\ DOMAIN mm.active = Sides /\ DOMAIN mm.quote = Sides
        /\ \A side \in Sides : mm.active[side] = NoOrder
    BY DEF Init, InitMarketMaker
  <2> QED
    BY <2>1, <2>2, <2>3 DEF TrackInv, TrackedOrdersAreOpen
<1>2. TrackInv => TrackedOrdersAreOpen
  BY DEF TrackInv
<1> QED
  BY <1>1, <1>2, TrackInductive, PTL DEF Spec

---------------------------------------------------------------------------
(* What the virtual exchange does with a side that holds one order or none, which is
   all the engine ever asks of it (OneOrderPerSide): its walks over levels and orders,
   at the sizes that occur. *)

(* Folds over sequences of one element or none. *)

\* The sets of indices such a fold goes through.
LEMMA Indices ==
  /\ SUBSET {1} = {{}, {1}} /\ {1} # {} /\ {1} \ {1} = {}
  /\ \A x : DOMAIN <<x>> = {1} /\ <<x>>[1] = x /\ <<x>> # <<>> /\ Len(<<x>>) = 1
  /\ DOMAIN <<>> = {}
  /\ VX!Max({1}) = 1
<1>1. VX!Max({1}) = 1
  <2>1. \E x \in {1} : \A y \in {1} : x >= y
    OBVIOUS
  <2> QED
    BY <2>1 DEF VX!Max
<1>2. SUBSET {1} = {{}, {1}} /\ {1} # {} /\ {1} \ {1} = {}
  OBVIOUS
<1>3. \A x : DOMAIN <<x>> = {1} /\ <<x>>[1] = x /\ <<x>> # <<>> /\ Len(<<x>>) = 1
  OBVIOUS
<1>4. DOMAIN <<>> = {}
  OBVIOUS
<1> QED
  BY <1>1, <1>2, <1>3, <1>4

\* A level without orders is unlinked, one with orders is kept.
LEMMA OccupiedOne ==
  /\ VX!Occupied(<<>>) = <<>>
  /\ \A level : VX!Occupied(<<level>>) = IF VX!HasOrders(level) THEN <<level>> ELSE <<>>
<1>1. VX!Occupied(<<>>) = <<>>
  <2> DEFINE f == CHOOSE g : g = [T \in SUBSET (DOMAIN <<>>) |->
                    IF T = {} THEN <<>>
                    ELSE IF VX!HasOrders(<<>>[VX!Max(T)])
                         THEN Append(g[T \ {VX!Max(T)}], <<>>[VX!Max(T)])
                         ELSE g[T \ {VX!Max(T)}]]
             w == [T \in SUBSET {} |-> <<>>]
  <2>1. VX!Occupied(<<>>) = f[DOMAIN <<>>]
    BY DEF VX!Occupied, VX!FoldLeft, VX!MapThenFoldSet
  <2>2. w = [T \in SUBSET (DOMAIN <<>>) |->
               IF T = {} THEN <<>>
               ELSE IF VX!HasOrders(<<>>[VX!Max(T)])
                    THEN Append(w[T \ {VX!Max(T)}], <<>>[VX!Max(T)])
                    ELSE w[T \ {VX!Max(T)}]]
    BY Indices
  <2> HIDE DEF w
  <2>3. f = [T \in SUBSET (DOMAIN <<>>) |->
               IF T = {} THEN <<>>
               ELSE IF VX!HasOrders(<<>>[VX!Max(T)])
                    THEN Append(f[T \ {VX!Max(T)}], <<>>[VX!Max(T)])
                    ELSE f[T \ {VX!Max(T)}]]
    BY <2>2, Zenon
  <2> HIDE DEF f
  <2> QED
    BY <2>1, <2>3, Indices
<1>2. ASSUME NEW level
      PROVE  VX!Occupied(<<level>>) = IF VX!HasOrders(level) THEN <<level>> ELSE <<>>
  <2> DEFINE s == <<level>>
             step(kept, x) == IF VX!HasOrders(x) THEN Append(kept, x) ELSE kept
             f == CHOOSE g : g = [T \in SUBSET (DOMAIN s) |->
                    IF T = {} THEN <<>>
                    ELSE IF VX!HasOrders(s[VX!Max(T)])
                         THEN Append(g[T \ {VX!Max(T)}], s[VX!Max(T)])
                         ELSE g[T \ {VX!Max(T)}]]
             w == [T \in SUBSET {1} |-> IF T = {} THEN <<>> ELSE step(<<>>, level)]
  <2>1. VX!Occupied(s) = f[DOMAIN s]
    BY DEF VX!Occupied, VX!FoldLeft, VX!MapThenFoldSet
  <2>2. DOMAIN s = {1} /\ s[1] = level
    OBVIOUS
  <2> HIDE DEF s
  <2>3. w = [T \in SUBSET (DOMAIN s) |->
               IF T = {} THEN <<>>
               ELSE IF VX!HasOrders(s[VX!Max(T)])
                    THEN Append(w[T \ {VX!Max(T)}], s[VX!Max(T)])
                    ELSE w[T \ {VX!Max(T)}]]
    <3>1. w[{}] = <<>> /\ w[{1}] = step(<<>>, level)
      BY Indices
    <3>2. ASSUME NEW T \in SUBSET {1}
          PROVE  w[T] = IF T = {} THEN <<>> ELSE step(w[T \ {VX!Max(T)}], s[VX!Max(T)])
      <4> HIDE DEF w
      <4>1. T = {} \/ T = {1}
        BY Indices
      <4> QED
        BY <4>1, <3>1, <2>2, Indices
    <3> QED
      BY <2>2, <3>2
  <2> HIDE DEF w
  <2>4. f = [T \in SUBSET (DOMAIN s) |->
               IF T = {} THEN <<>>
               ELSE IF VX!HasOrders(s[VX!Max(T)])
                    THEN Append(f[T \ {VX!Max(T)}], s[VX!Max(T)])
                    ELSE f[T \ {VX!Max(T)}]]
    BY <2>3, Zenon
  <2> HIDE DEF f
  <2>5. f[{}] = <<>> /\ f[{1}] = step(f[{}], level)
    <3>1. {} \in SUBSET (DOMAIN s) /\ {1} \in SUBSET (DOMAIN s)
      BY <2>2
    <3>2. f[{}] = <<>>
      BY <2>4, <3>1
    <3>3. f[{1}] = IF VX!HasOrders(s[VX!Max({1})])
                   THEN Append(f[{1} \ {VX!Max({1})}], s[VX!Max({1})])
                   ELSE f[{1} \ {VX!Max({1})}]
      BY <2>4, <3>1
    <3> QED
      BY <3>2, <3>3, <2>2, Indices
  <2> QED
    BY <2>1, <2>2, <2>5 DEF s
<1> QED
  BY <1>1, <1>2

\* A level with one order is walked by meeting that order.
LEMMA MeetOne ==
  ASSUME NEW walk, NEW o
  PROVE  VX!FoldLeft(VX!Meet, walk, <<o>>) = VX!Meet(walk, o)
<1> DEFINE s == <<o>>
           f == CHOOSE g : g = [T \in SUBSET (DOMAIN s) |->
                  IF T = {} THEN walk ELSE VX!Meet(g[T \ {VX!Max(T)}], s[VX!Max(T)])]
           w == [T \in SUBSET {1} |-> IF T = {} THEN walk ELSE VX!Meet(walk, o)]
<1>1. VX!FoldLeft(VX!Meet, walk, s) = f[DOMAIN s]
  BY DEF VX!FoldLeft, VX!MapThenFoldSet
<1>2. DOMAIN s = {1} /\ s[1] = o
  OBVIOUS
<1> HIDE DEF s
<1>3. w = [T \in SUBSET (DOMAIN s) |->
             IF T = {} THEN walk ELSE VX!Meet(w[T \ {VX!Max(T)}], s[VX!Max(T)])]
  <2>1. w[{}] = walk /\ w[{1}] = VX!Meet(walk, o)
    BY Indices
  <2>2. ASSUME NEW T \in SUBSET {1}
        PROVE  w[T] = IF T = {} THEN walk ELSE VX!Meet(w[T \ {VX!Max(T)}], s[VX!Max(T)])
    <3> HIDE DEF w
    <3>1. T = {} \/ T = {1}
      BY Indices
    <3> QED
      BY <3>1, <2>1, <1>2, Indices
  <2> QED
    BY <1>2, <2>2
<1> HIDE DEF w
<1>4. f = [T \in SUBSET (DOMAIN s) |->
             IF T = {} THEN walk ELSE VX!Meet(f[T \ {VX!Max(T)}], s[VX!Max(T)])]
  BY <1>3
<1> HIDE DEF f
<1>5. {} \in SUBSET (DOMAIN s) /\ {1} \in SUBSET (DOMAIN s)
  BY <1>2
<1>6. f[{}] = walk
  BY <1>4, <1>5
<1>7. f[{1}] = VX!Meet(f[{1} \ {VX!Max({1})}], s[VX!Max({1})])
  BY <1>4, <1>5
<1> QED
  BY <1>1, <1>2, <1>6, <1>7, Indices DEF s

\* The walk of a fill as it begins.
Setout(size) == [left |-> size, levels |-> <<>>, fills |-> <<>>]

\* A fill finds nothing on an empty side, and enters the level of a side that has one.
LEMMA WalkOne ==
  ASSUME NEW x, NEW side, NEW price, NEW size
  PROVE  /\ x[side] = <<>> => VX!FillWalk(x, side, price, size) = Setout(size)
         /\ \A level : x[side] = <<level>> =>
              VX!FillWalk(x, side, price, size)
                = VX!Enter(Setout(size), side, price, size, level)
<1> DEFINE s == x[side]
           f == CHOOSE g : g = [T \in SUBSET (DOMAIN s) |->
                  IF T = {} THEN Setout(size)
                  ELSE VX!Enter(g[T \ {VX!Max(T)}], side, price, size, s[VX!Max(T)])]
<1>1. VX!FillWalk(x, side, price, size) = f[DOMAIN s]
  BY DEF VX!FillWalk, VX!FoldLeft, VX!MapThenFoldSet, Setout
<1> HIDE DEF s
<1>2. CASE s = <<>>
  <2> DEFINE w == [T \in SUBSET {} |-> Setout(size)]
  <2>1. w = [T \in SUBSET (DOMAIN s) |->
               IF T = {} THEN Setout(size)
               ELSE VX!Enter(w[T \ {VX!Max(T)}], side, price, size, s[VX!Max(T)])]
    BY <1>2, Indices
  <2> HIDE DEF w
  <2>2. f = [T \in SUBSET (DOMAIN s) |->
               IF T = {} THEN Setout(size)
               ELSE VX!Enter(f[T \ {VX!Max(T)}], side, price, size, s[VX!Max(T)])]
    BY <2>1
  <2> HIDE DEF f
  <2>3. f[DOMAIN s] = Setout(size)
    BY <2>2, <1>2, Indices
  <2> QED
    BY <1>1, <1>2, <2>3, Indices DEF s
<1>3. ASSUME NEW level, s = <<level>>
      PROVE  VX!FillWalk(x, side, price, size)
               = VX!Enter(Setout(size), side, price, size, level)
  <2> DEFINE w == [T \in SUBSET {1} |->
                     IF T = {} THEN Setout(size)
                     ELSE VX!Enter(Setout(size), side, price, size, level)]
  <2>1. DOMAIN s = {1} /\ s[1] = level
    BY <1>3, Indices
  <2>2. w = [T \in SUBSET (DOMAIN s) |->
               IF T = {} THEN Setout(size)
               ELSE VX!Enter(w[T \ {VX!Max(T)}], side, price, size, s[VX!Max(T)])]
    <3>1. w[{}] = Setout(size) /\ w[{1}] = VX!Enter(Setout(size), side, price, size, level)
      BY Indices
    <3>2. ASSUME NEW T \in SUBSET {1}
          PROVE  w[T] = IF T = {} THEN Setout(size)
                        ELSE VX!Enter(w[T \ {VX!Max(T)}], side, price, size, s[VX!Max(T)])
      <4> HIDE DEF w
      <4>1. T = {} \/ T = {1}
        BY Indices
      <4> QED
        BY <4>1, <3>1, <2>1, Indices
    <3> QED
      BY <2>1, <3>2
  <2> HIDE DEF w
  <2>3. f = [T \in SUBSET (DOMAIN s) |->
               IF T = {} THEN Setout(size)
               ELSE VX!Enter(f[T \ {VX!Max(T)}], side, price, size, s[VX!Max(T)])]
    BY <2>2
  <2> HIDE DEF f
  <2>4. {} \in SUBSET (DOMAIN s) /\ {1} \in SUBSET (DOMAIN s)
    BY <2>1
  <2>5. f[{}] = Setout(size)
    BY <2>3, <2>4
  <2>6. f[{1}] = VX!Enter(f[{1} \ {VX!Max({1})}], side, price, size, s[VX!Max({1})])
    BY <2>3, <2>4
  <2> QED
    BY <1>1, <2>1, <2>5, <2>6, Indices
<1> QED
  BY <1>2, <1>3, Indices DEF s

---------------------------------------------------------------------------
(* One order on a side. *)

\* A side's levels when order `id` rests there alone, with n units to go.
Sole(id, price, total, ahead, n) ==
  <<[price |-> price, total_qty_ahead |-> total,
     orders |-> <<[order_id |-> id, qty_ahead |-> ahead, remaining_qty |-> n]>>]>>

Words == 0..(Word - 1)

\* A fill finds nothing on an empty side.
LEMMA FillOfNone ==
  ASSUME NEW x, NEW side, NEW price, NEW size, x[side] = <<>>
  PROVE  LET walk == VX!FillWalk(x, side, price, size)
         IN  VX!Occupied(walk.levels) = <<>> /\ walk.fills = <<>>
<1> DEFINE start == [left |-> size, levels |-> <<>>, fills |-> <<>>]
           f == CHOOSE g : g = [T \in SUBSET (DOMAIN <<>>) |->
                  IF T = {} THEN start
                  ELSE VX!Enter(g[T \ {VX!Max(T)}], side, price, size, <<>>[VX!Max(T)])]
           w == [T \in SUBSET {} |-> start]
<1>1. VX!FillWalk(x, side, price, size) = f[DOMAIN <<>>]
  BY DEF VX!FillWalk, VX!FoldLeft, VX!MapThenFoldSet
<1>2. w = [T \in SUBSET (DOMAIN <<>>) |->
             IF T = {} THEN start
             ELSE VX!Enter(w[T \ {VX!Max(T)}], side, price, size, <<>>[VX!Max(T)])]
  BY Indices
<1> HIDE DEF w
<1>3. f = [T \in SUBSET (DOMAIN <<>>) |->
             IF T = {} THEN start
             ELSE VX!Enter(f[T \ {VX!Max(T)}], side, price, size, <<>>[VX!Max(T)])]
  BY <1>2
<1> HIDE DEF f
<1>4. VX!FillWalk(x, side, price, size) = start
  BY <1>1, <1>3, Indices
<1> QED
  BY <1>4, OccupiedOne

\* A fill of this size and price takes k units of the order, with n units to go.
Taken(x, side, price, size, id, limit, n, k) ==
  LET walk == VX!FillWalk(x, side, price, size)
  IN  /\ k > 0 => ~VX!Better(side, price, limit)
      /\ \/ k = n /\ VX!Occupied(walk.levels) = <<>>
         \/ k < n /\ \E t \in Words, a \in Words :
                       VX!Occupied(walk.levels) = Sole(id, limit, t, a, n - k)
      /\ walk.fills = IF k = 0 THEN <<>> ELSE <<[order_id |-> id, qty |-> k]>>

\* A fill takes some of the order, all of it, or nothing; it does so only at a price
\* that is the order's or better, and acknowledges what it takes.
LEMMA FillOfOne ==
  ASSUME NEW x, NEW side, NEW price \in Int, NEW size \in Nat,
         NEW id, NEW limit \in Int, NEW total \in Words, NEW ahead \in Words,
         NEW n \in Nat \ {0}, x[side] = Sole(id, limit, total, ahead, n)
  PROVE  \E k \in 0..n : Taken(x, side, price, size, id, limit, n, k)
<1> DEFINE o     == [order_id |-> id, qty_ahead |-> ahead, remaining_qty |-> n]
           level == [price |-> limit, total_qty_ahead |-> total, orders |-> <<o>>]
           walk  == VX!FillWalk(x, side, price, size)
           bare  == [price |-> limit, total_qty_ahead |-> total, orders |-> <<>>]
           entered == [left |-> size, levels |-> <<bare>>, fills |-> <<>>]
           passed == VX!MinOf(ahead, size)
           filled == VX!MinOf(n, size - passed)
           rest   == [order_id |-> id, qty_ahead |-> ahead - passed, remaining_qty |-> n - filled]
           t      == (total - passed) % Word
           left   == [price |-> limit, total_qty_ahead |-> t,
                      orders |-> IF n - filled > 0 THEN <<rest>> ELSE <<>>]
           fills  == IF filled > 0 THEN <<[order_id |-> id, qty |-> filled]>> ELSE <<>>
<1>0. Word \in Nat \ {0} /\ ahead \in Nat /\ total \in Nat
  BY EngineAssumption DEF Words
<1>1. x[side] = <<level>>
  BY DEF Sole
<1>2. walk = VX!Enter(Setout(size), side, price, size, level)
  BY <1>1, WalkOne
<1>3. passed \in 0..ahead /\ passed <= size /\ filled \in 0..n
  BY <1>0 DEF VX!MinOf
<1>4. t \in Words /\ ahead - passed \in Words
  BY <1>0, <1>3 DEF Words
<1>5. CASE ~VX!Reaches(side, price, level)
  <2>1. walk = [Setout(size) EXCEPT !.levels = Append(@, level)]
    BY <1>2, <1>5 DEF VX!Enter
  <2>2. walk.levels = <<level>> /\ walk.fills = <<>>
    BY <2>1 DEF Setout
  <2>3. VX!Occupied(<<level>>) = <<level>>
    BY OccupiedOne DEF VX!HasOrders
  <2>4. /\ 0 \in 0..n /\ 0 # n /\ n - 0 = n
        /\ VX!Occupied(walk.levels) = Sole(id, limit, total, ahead, n)
    BY <2>2, <2>3 DEF Sole
  <2>5. 0 < n
    OBVIOUS
  <2> HIDE DEF walk
  <2>6. Taken(x, side, price, size, id, limit, n, 0)
    BY <1>0, <2>2, <2>4, <2>5 DEF walk, Taken
  <2> QED
    BY <2>4, <2>6
<1>6. CASE VX!Reaches(side, price, level)
  <2>0. [level EXCEPT !.orders = <<>>] = bare /\ level.orders = <<o>>
    OBVIOUS
  <2>1. walk = VX!FoldLeft(VX!Meet, [Setout(size) EXCEPT !.levels = Append(@, bare)], <<o>>)
    <3> HIDE DEF level, bare, o, walk
    <3> QED
      BY <1>2, <1>6, <2>0 DEF VX!Enter
  <2>2. [Setout(size) EXCEPT !.levels = Append(@, bare)] = entered
    BY DEF Setout
  <2>3. walk = VX!Meet(entered, o)
    BY <2>1, <2>2, MeetOne
  <2>4. walk.levels = <<left>> /\ walk.fills = fills
    <3>1. /\ o.qty_ahead = ahead /\ o.remaining_qty = n /\ o.order_id = id
          /\ entered.left = size /\ Len(entered.levels) = 1 /\ entered.fills = <<>>
          /\ entered.levels[1] = bare /\ DOMAIN entered.levels = {1}
      OBVIOUS
    <3>2. [o EXCEPT !.qty_ahead = @ - passed, !.remaining_qty = @ - filled] = rest
      <4> DEFINE p == [o EXCEPT !.qty_ahead = ahead - passed]
      <4> HIDE DEF passed, filled, walk
      <4>1. p = [order_id |-> id, qty_ahead |-> ahead - passed, remaining_qty |-> n]
        OBVIOUS
      <4> HIDE DEF o, p
      <4>2. [p EXCEPT !.remaining_qty = n - filled] = rest
        BY <4>1
      <4> QED
        BY <3>1, <4>2 DEF p
    <3> DEFINE orders == IF n - filled > 0 THEN <<rest>> ELSE <<>>
               taken  == [entered EXCEPT
                            !.left = @ - passed - filled,
                            !.levels[1].orders = IF n - filled > 0 THEN Append(@, rest) ELSE @,
                            !.levels[1].total_qty_ahead = (@ - passed) % Word,
                            !.fills = IF filled > 0
                                      THEN Append(@, [order_id |-> id, qty |-> filled]) ELSE @]
    <3>3. VX!IsOpen(rest) <=> n - filled > 0
      BY DEF VX!IsOpen
    <3>4. walk = taken
      <4> HIDE DEF o, entered, passed, filled, rest, walk
      <4>1. VX!MinOf(o.qty_ahead, entered.left) = passed
        BY <3>1 DEF passed
      <4>2. VX!MinOf(o.remaining_qty, entered.left - passed) = filled
        BY <3>1 DEF filled
      <4> QED
        BY <2>3, <3>1, <3>2, <3>3, <4>1, <4>2, Zenon DEF VX!Meet
    <3>5. taken.levels = <<left>> /\ taken.fills = fills
      <4> DEFINE kept == [bare EXCEPT !.orders = IF n - filled > 0 THEN Append(@, rest) ELSE @]
                 one  == [kept EXCEPT !.total_qty_ahead = (@ - passed) % Word]
      <4>1. one = left
        <5> HIDE DEF passed, filled, rest, walk
        <5>1. kept = [price |-> limit, total_qty_ahead |-> total, orders |-> orders]
          OBVIOUS
        <5> HIDE DEF kept, orders
        <5>2. one = [price |-> limit, total_qty_ahead |-> (total - passed) % Word,
                     orders |-> orders]
          BY <5>1
        <5> QED
          BY <5>2 DEF orders
      <4> HIDE DEF passed, filled, rest, bare, walk, left
      <4>2. taken.levels = <<one>>
        OBVIOUS
      <4>3. taken.fills = fills
        OBVIOUS
      <4> QED
        BY <4>1, <4>2, <4>3
    <3> QED
      BY <3>4, <3>5
  <2>5. ~VX!Better(side, price, limit)
    BY <1>6 DEF VX!Reaches
  <2>6. VX!Occupied(<<left>>) = IF n - filled > 0 THEN <<left>> ELSE <<>>
    BY OccupiedOne DEF VX!HasOrders
  <2>7. n - filled > 0 => <<left>> = Sole(id, limit, t, ahead - passed, n - filled)
    BY DEF Sole
  <2>8. /\ n - filled > 0 <=> filled < n
        /\ filled < n \/ filled = n
        /\ filled > 0 <=> filled # 0
    BY <1>3
  <2> HIDE DEF walk, filled, t, passed, left
  <2>9. Taken(x, side, price, size, id, limit, n, filled)
    BY <1>3, <1>4, <2>4, <2>5, <2>6, <2>7, <2>8 DEF walk, Taken
  <2> QED
    BY <1>3, <2>9
<1> QED
  BY <1>5, <1>6

\* An order that comes to an empty side rests there alone, whole.
LEMMA CreateOnEmpty ==
  ASSUME NEW x, NEW e, x[e.side] = <<>>, NEW shown \in Int
  PROVE  \E t \in Words, a \in Words :
           VX!OnCreateOrder(x, e, shown)
             = [x EXCEPT ![e.side] = Sole(e.order_id, e.price, t, a, e.qty)]
<1> DEFINE level == [price |-> e.price, total_qty_ahead |-> 0, orders |-> <<>>]
           ahead == (shown - 0) % Word
           order == [order_id |-> e.order_id, qty_ahead |-> ahead, remaining_qty |-> e.qty]
<1>1. VX!WithLevel(<<>>, e.side, e.price) = <<level>>
  <2>1. /\ VX!Cardinality({}) = 0
        /\ {i \in DOMAIN <<>> : VX!Better(e.side, <<>>[i].price, e.price)} = {}
    BY FS_EmptySet DEF VX!Cardinality, Cardinality
  <2>2. SubSeq(<<>>, 1, 0) = <<>> /\ SubSeq(<<>>, 1, Len(<<>>)) = <<>> /\ 1 + 0 = 1 /\ 1 - 1 = 0
    OBVIOUS
  <2>3. VX!InsertAt(<<>>, 1 + 0, level) = <<>> \o <<level>> \o <<>>
    BY <2>2 DEF VX!InsertAt
  <2>4. <<>> \o <<level>> \o <<>> = <<level>>
    OBVIOUS
  <2>5. ~ \E i \in DOMAIN <<>> : <<>>[i].price = e.price
    OBVIOUS
  <2> DEFINE c == VX!Cardinality({i \in DOMAIN <<>> : VX!Better(e.side, <<>>[i].price, e.price)})
  <2>6. VX!WithLevel(<<>>, e.side, e.price) = VX!InsertAt(<<>>, 1 + c, level)
    BY <2>5 DEF VX!WithLevel
  <2>7. c = 0
    BY <2>1
  <2> HIDE DEF c, level
  <2> QED
    BY <2>3, <2>4, <2>6, <2>7
<1>2. VX!LevelOf(<<level>>, e.price) = 1
  <2> DEFINE s == <<level>>
  <2>1. DOMAIN s = {1} /\ s[1].price = e.price
    OBVIOUS
  <2> HIDE DEF s
  <2> QED
    BY <2>1 DEF VX!LevelOf, s
<1>3. ahead \in Words /\ (0 + ahead) % Word \in Words
  BY EngineAssumption DEF Words
<1> DEFINE s   == <<level>>
           one == [level EXCEPT !.orders = Append(@, order)]
           two == [one EXCEPT !.total_qty_ahead = (@ + ahead) % Word]
<1>4. two = [price |-> e.price, total_qty_ahead |-> (0 + ahead) % Word, orders |-> <<order>>]
  <2> HIDE DEF ahead, order
  <2>1. one = [price |-> e.price, total_qty_ahead |-> 0, orders |-> <<order>>]
    OBVIOUS
  <2> HIDE DEF one
  <2> QED
    BY <2>1
<1>5. s[1].total_qty_ahead = 0 /\ s[1] = level /\ DOMAIN s = {1} /\ s \in Seq({level})
  OBVIOUS
<1>6. [s EXCEPT ![1].orders = Append(@, order), ![1].total_qty_ahead = (@ + ahead) % Word]
        = <<two>>
  <2> HIDE DEF level, order, ahead
  <2> QED
    BY SMTT(30)
<1>7. VX!OnCreateOrder(x, e, shown)
        = [x EXCEPT ![e.side] =
             [s EXCEPT ![1].orders = Append(@, order), ![1].total_qty_ahead = (@ + ahead) % Word]]
  <2> HIDE DEF level
  <2> QED
    BY <1>1, <1>2, <1>5 DEF VX!OnCreateOrder
<1> HIDE DEF s, two
<1>8. VX!OnCreateOrder(x, e, shown)
        = [x EXCEPT ![e.side] = Sole(e.order_id, e.price, (0 + ahead) % Word, ahead, e.qty)]
  BY <1>4, <1>6, <1>7 DEF Sole
<1> QED
  BY <1>3, <1>8

\* A cancel takes the order it names off its side, and leaves any other where it is.
LEMMA CancelOfOne ==
  ASSUME NEW x, NEW id, NEW side \in {"Bid", "Ask"}
  PROVE  LET after == VX!OnCancelOrder(x, id)
         IN  /\ DOMAIN after = {"Bid", "Ask"}
             /\ x[side] = <<>> => after[side] = <<>>
             /\ \A k, limit, total, ahead, n : x[side] = Sole(k, limit, total, ahead, n) =>
                  after[side] = IF k = id THEN <<>> ELSE x[side]
<1> DEFINE levels == x[side]
           at(i)  == {j \in DOMAIN levels[i].orders : levels[i].orders[j].order_id = id}
           kept(i) == IF at(i) = {} THEN levels[i]
                      ELSE VX!Without(levels[i], CHOOSE j \in at(i) : TRUE)
           after == VX!OnCancelOrder(x, id)
<1>1. DOMAIN after = {"Bid", "Ask"} /\ after[side] = VX!Occupied([i \in DOMAIN levels |-> kept(i)])
  BY DEF VX!OnCancelOrder
<1>2. ASSUME levels = <<>> PROVE after[side] = <<>>
  <2>1. [i \in DOMAIN levels |-> kept(i)] = <<>>
    BY <1>2
  <2> QED
    BY <1>1, <2>1, OccupiedOne
<1>3. ASSUME NEW k, NEW limit, NEW total, NEW ahead, NEW n,
             levels = Sole(k, limit, total, ahead, n)
      PROVE  after[side] = IF k = id THEN <<>> ELSE levels
  <2> DEFINE o     == [order_id |-> k, qty_ahead |-> ahead, remaining_qty |-> n]
             level == [price |-> limit, total_qty_ahead |-> total, orders |-> <<o>>]
  <2>1. levels = <<level>> /\ level.orders = <<o>> /\ o.order_id = k
    BY <1>3 DEF Sole
  <2>2. DOMAIN levels = {1} /\ levels[1] = level
    BY <2>1, Indices
  <2> HIDE DEF levels
  <2>3. [i \in DOMAIN levels |-> kept(i)] = <<kept(1)>>
    <3> HIDE DEF kept
    <3> QED
      BY <2>2
  <2>4. after[side] = IF VX!HasOrders(kept(1)) THEN <<kept(1)>> ELSE <<>>
    BY <1>1, <2>3, OccupiedOne
  <2>5. CASE k # id
    <3>1. at(1) = {}
      BY <2>1, <2>2, <2>5, Indices
    <3>2. kept(1) = level
      BY <2>2, <3>1
    <3>3. VX!HasOrders(level)
      BY <2>1, Indices DEF VX!HasOrders
    <3> HIDE DEF kept, level, after
    <3> QED
      BY <2>1, <2>4, <2>5, <3>2, <3>3
  <2>6. CASE k = id
    <3>1. at(1) = {1}
      BY <2>1, <2>2, <2>6, Indices
    <3>2. kept(1) = VX!Without(level, 1)
      <4>1. (CHOOSE j \in {1} : TRUE) = 1
        OBVIOUS
      <4> HIDE DEF level
      <4> QED
        BY <2>2, <3>1, <4>1
    <3>3. VX!Without(level, 1).orders = VX!RemoveAt(<<o>>, 1)
      <4> DEFINE u == [level EXCEPT !.orders = VX!RemoveAt(@, 1)]
                 v == [u EXCEPT !.total_qty_ahead = (@ - level.orders[1].qty_ahead) % Word]
      <4>1. u.orders = VX!RemoveAt(<<o>>, 1)
        OBVIOUS
      <4>2. v.orders = u.orders
        OBVIOUS
      <4>3. VX!Without(level, 1) = v
        <5>1. ~(1 < Len(level.orders))
          BY <2>1, Indices
        <5> HIDE DEF level
        <5> QED
          BY <5>1 DEF VX!Without
      <4> HIDE DEF u, v
      <4> QED
        BY <4>1, <4>2, <4>3
    <3>4. VX!RemoveAt(<<o>>, 1) = <<>>
      <4> HIDE DEF o
      <4> QED
        BY DEF VX!RemoveAt
    <3> HIDE DEF kept, level, after
    <3> QED
      BY <2>4, <2>6, <3>2, <3>3, <3>4 DEF VX!HasOrders
  <2> QED
    BY <2>5, <2>6 DEF levels
<1> QED
  BY <1>1, <1>2, <1>3 DEF levels

\* The orders that rest on such a side.
LEMMA RestingOne ==
  ASSUME NEW x, NEW side
  PROVE  /\ x[side] = <<>> => VX!Resting(x, side) = {}
         /\ \A k, limit, total, ahead, n : x[side] = Sole(k, limit, total, ahead, n) =>
              VX!Resting(x, side) = {[order_id |-> k, qty_ahead |-> ahead, remaining_qty |-> n]}
<1>1. ASSUME x[side] = <<>> PROVE VX!Resting(x, side) = {}
  BY <1>1 DEF VX!Resting
<1>2. ASSUME NEW k, NEW limit, NEW total, NEW ahead, NEW n,
             x[side] = Sole(k, limit, total, ahead, n)
      PROVE  VX!Resting(x, side) = {[order_id |-> k, qty_ahead |-> ahead, remaining_qty |-> n]}
  <2> DEFINE o     == [order_id |-> k, qty_ahead |-> ahead, remaining_qty |-> n]
             level == [price |-> limit, total_qty_ahead |-> total, orders |-> <<o>>]
  <2>1. x[side] = <<level>> /\ level.orders = <<o>>
    BY <1>2 DEF Sole
  <2> HIDE DEF o, level
  <2>2. VX!ToSet(<<o>>) = {o}
    BY Indices DEF VX!ToSet
  <2>3. VX!Resting(x, side) = {o}
    BY <2>1, <2>2, Indices DEF VX!Resting
  <2> QED
    BY <2>3 DEF o
<1> QED
  BY <1>1, <1>2

\* A fill's acknowledgement is sent when the fill happens, at its price.
LEMMA AcksOfOne ==
  ASSUME NEW x, NEW q, NEW now, NEW side, NEW price, NEW size
  PROVE  LET fills == VX!FillWalk(x, side, price, size).fills
             acks  == VX!FillAcks(x, q, now, side, price, size)
         IN  /\ fills = <<>> => acks = {}
             /\ \A id, k : fills = <<[order_id |-> id, qty |-> k]>> =>
                  acks = {Sent(q, now, InboundLatency, 0, AckFill(id, k, price))}
<1> DEFINE fills == VX!FillWalk(x, side, price, size).fills
           acks  == VX!FillAcks(x, q, now, side, price, size)
           ack(i) == VX!Sent(q, now, InboundLatency, i - 1,
                             VX!AckFill(fills[i].order_id, fills[i].qty, price))
<1>1. acks = {ack(i) : i \in DOMAIN fills}
  BY DEF VX!FillAcks
<1> HIDE DEF fills, acks
<1>2. fills = <<>> => acks = {}
  BY <1>1
<1>3. ASSUME NEW id, NEW k, fills = <<[order_id |-> id, qty |-> k]>>
      PROVE  acks = {Sent(q, now, InboundLatency, 0, AckFill(id, k, price))}
  <2>1. DOMAIN fills = {1} /\ fills[1].order_id = id /\ fills[1].qty = k /\ 1 - 1 = 0
    BY <1>3
  <2>2. ack(1) = VX!Sent(q, now, InboundLatency, 0, VX!AckFill(id, k, price))
    BY <2>1
  <2>3. ack(1) = Sent(q, now, InboundLatency, 0, AckFill(id, k, price))
    BY <2>2, Zenon DEF VX!Sent, VX!NextSeq, VX!AckFill, Sent, NextSeq, AckFill
  <2> HIDE DEF ack
  <2> QED
    BY <1>1, <2>1, <2>3
<1> QED
  BY <1>2, <1>3 DEF fills, acks

---------------------------------------------------------------------------
(* The network. *)

\* e is a record of the kind that Sent(_) builds.
IsEvent(e) ==
  /\ e = [timestamp |-> e.timestamp, sequence_number |-> e.sequence_number,
          payload |-> e.payload]
  /\ e.timestamp \in Nat /\ e.sequence_number \in Nat

\* Orders and cancels go out, acknowledgements come in.
Outbound == {"Create", "Cancel"}
Latency(kind) == IF kind \in Outbound THEN OutboundLatency ELSE InboundLatency

\* For one order, events of the two kinds are handed out in this order.
Follows(kind, next) == \/ kind = "Create" /\ next = "Cancel"
                       \/ kind = "AckCreate" /\ next \in {"AckFill", "AckCancel"}
                       \/ kind = "AckFill" /\ next = "AckCancel"

\* What the network holds was made by now, and no two events have one place in its order.
Timely(q, now) ==
  /\ IsFiniteSet(q)
  /\ \A e \in q : IsEvent(e) /\ e.timestamp <= now + Latency(e.payload.kind)
  /\ \A e, f \in q :
       e.timestamp = f.timestamp /\ e.sequence_number = f.sequence_number => e = f

\* Two events of one order come in the order they have, and at most once.
Matched(e, f) ==
  e.payload.order_id = f.payload.order_id =>
     /\ e.payload.kind = f.payload.kind /\ e.payload.kind # "AckFill" => e = f
     /\ Follows(e.payload.kind, f.payload.kind) => Before(e, f)

Lined(q) == \A e, f \in q : Matched(e, f)

\* The event, or the payload, is of this kind and about this order.
Is(e, kind, id)   == e.payload.kind = kind /\ e.payload.order_id = id
Says(p, kind, id) == p.kind = kind /\ p.order_id = id

\* The network after an event is handed out, or sent.
Takes(q, e, r) == e \in q /\ r = q \ {e}
Sends(q, now, kind, p, d) == d = Sent(q, now, Latency(kind), 0, p)
Joined(q, d, r) == r = q \cup {d}

\* A new event's number is above those it can be compared with.
LEMMA NextSeqAbove ==
  ASSUME NEW q, IsFiniteSet(q), \A e \in q : IsEvent(e), NEW ts \in Nat
  PROVE  /\ NextSeq(q, ts) \in Nat
         /\ \A e \in q : e.timestamp = ts => e.sequence_number < NextSeq(q, ts)
<1> DEFINE at    == {f \in q : f.timestamp = ts}
           taken == {e.sequence_number : e \in at}
           top   == CHOOSE n \in taken : \A m \in taken : m <= n
<1>1. taken \in SUBSET Nat /\ IsFiniteSet(taken)
  <2>1. IsFiniteSet(at)
    BY FS_Subset
  <2> DEFINE number == [e \in at |-> e.sequence_number]
  <2>2. number \in Surjection(at, taken)
    BY DEF Surjection
  <2>3. IsFiniteSet(taken)
    <3> HIDE DEF at, taken, number
    <3> QED
      BY <2>1, <2>2, FS_Surjection
  <2> QED
    BY <2>3 DEF IsEvent
<1>2. NextSeq(q, ts) = IF taken = {} THEN 0 ELSE 1 + top
  BY DEF NextSeq
<1>3. \A e \in q : e.timestamp = ts => e.sequence_number \in taken
  OBVIOUS
<1>4. taken # {} => top \in taken /\ \A m \in taken : m <= top
  <2> HIDE DEF taken
  <2> SUFFICES ASSUME taken # {} PROVE \E n \in taken : \A m \in taken : m <= n
    OBVIOUS
  <2>1. Max(taken) \in taken /\ \A m \in taken : Max(taken) >= m
    BY <1>1, GreatestElement
  <2> QED
    BY <1>1, <2>1
<1> HIDE DEF taken, top
<1>5. NextSeq(q, ts) \in Nat
  <2>1. CASE taken = {}
    BY <1>2, <2>1
  <2>2. CASE taken # {}
    <3>1. top \in Nat
      BY <1>1, <1>4, <2>2
    <3> QED
      BY <1>2, <2>2, <3>1
  <2> QED
    BY <2>1, <2>2
<1>6. ASSUME NEW e \in q, e.timestamp = ts
      PROVE  e.sequence_number < NextSeq(q, ts)
  <2>1. e.sequence_number \in taken
    BY <1>3, <1>6
  <2>2. e.sequence_number <= top /\ NextSeq(q, ts) = 1 + top
    BY <1>2, <1>4, <2>1
  <2>3. e.sequence_number \in Nat /\ top \in Nat
    BY <1>1, <1>4, <2>1
  <2> QED
    BY <2>2, <2>3
<1> QED
  BY <1>5, <1>6

\* An event that is sent is new, and comes after all there are of its direction.
LEMMA SentLast ==
  ASSUME NEW q, NEW now \in Nat, Timely(q, now), NEW kind, NEW id, NEW p, Says(p, kind, id),
         NEW d, Sends(q, now, kind, p, d), NEW r, Joined(q, d, r)
  PROVE  /\ d.payload = p /\ d \notin q /\ Is(d, kind, id) /\ Timely(r, now)
         /\ \A e \in q : Latency(e.payload.kind) = Latency(kind) => Before(e, d)
<1> DEFINE latency == Latency(kind)
           ts == now + latency
<1>1. latency \in Nat /\ ts \in Nat
  BY LatencyAssumption DEF Latency
<1>2. d = [timestamp |-> ts, sequence_number |-> NextSeq(q, ts) + 0, payload |-> p]
  BY DEF Sent, Sends
<1> HIDE DEF ts, latency
<1>3. /\ NextSeq(q, ts) \in Nat
      /\ \A e \in q : e.timestamp = ts => e.sequence_number < NextSeq(q, ts)
  BY <1>1, NextSeqAbove DEF Timely
<1>4. /\ d.timestamp = ts /\ d.sequence_number = NextSeq(q, ts) /\ d.payload = p
      /\ IsEvent(d)
  BY <1>1, <1>2, <1>3 DEF IsEvent
<1>5. ASSUME NEW e \in q PROVE d # e /\ ~(e.timestamp = d.timestamp
                                         /\ e.sequence_number = d.sequence_number)
  <2>1. e.sequence_number \in Nat
    BY DEF Timely, IsEvent
  <2> QED
    BY <1>3, <1>4, <2>1
<1>6. ASSUME NEW e \in q, Latency(e.payload.kind) = latency PROVE Before(e, d)
  <2>1. /\ e.timestamp \in Nat /\ e.sequence_number \in Nat
        /\ e.timestamp <= ts
    BY <1>6 DEF Timely, IsEvent, ts
  <2> QED
    BY <1>1, <1>3, <1>4, <2>1 DEF Before
<1>7. Is(d, kind, id)
  BY <1>4 DEF Is, Says
<1>8. Timely(r, now)
  <2>1. IsFiniteSet(r) /\ r = q \cup {d}
    BY FS_AddElement DEF Timely, Joined
  <2>2. IsEvent(d) /\ d.timestamp <= now + Latency(d.payload.kind)
    BY <1>1, <1>4, <1>7 DEF ts, latency, Is
  <2>3. \A e \in r : IsEvent(e) /\ e.timestamp <= now + Latency(e.payload.kind)
    BY <2>1, <2>2 DEF Timely
  <2>4. \A e, f \in r :
          e.timestamp = f.timestamp /\ e.sequence_number = f.sequence_number => e = f
    BY <1>5, <2>1 DEF Timely
  <2> QED
    BY <2>1, <2>3, <2>4 DEF Timely
<1> QED
  BY <1>4, <1>5, <1>6, <1>7, <1>8 DEF latency

\* The network stays in order when an event joins it that no event of its order
\* is to follow, and that is the only one of its kind.
LEMMA LinedAdds ==
  ASSUME NEW q, Lined(q), NEW d, NEW kind, NEW id, Is(d, kind, id),
         \A e \in q : Latency(e.payload.kind) = Latency(kind) => Before(e, d),
         \A e \in q : e.payload.order_id = id =>
           /\ e.payload.kind = kind => kind = "AckFill"
           /\ ~Follows(kind, e.payload.kind),
         NEW r, Joined(q, d, r)
  PROVE  Lined(r)
<1>1. d.payload.kind = kind /\ d.payload.order_id = id
  BY DEF Is
<1>2. ASSUME NEW e \in q PROVE Matched(e, d) /\ Matched(d, e)
  <2>1. Follows(e.payload.kind, kind) => Latency(e.payload.kind) = Latency(kind)
    BY DEF Follows, Latency, Outbound
  <2> QED
    BY <1>1, <2>1 DEF Matched
<1>3. Matched(d, d)
  BY <1>1 DEF Matched, Follows
<1> QED
  BY <1>2, <1>3 DEF Lined, Joined

\* Handing out an event, or the passing of time, disturbs nothing.
LEMMA QueueTakes ==
  ASSUME NEW q, NEW now \in Int, Timely(q, now), NEW later \in Int, later >= now, NEW r \in SUBSET q
  PROVE  Timely(r, later) /\ (Lined(q) => Lined(r))
<1>1. IsFiniteSet(r)
  BY FS_Subset DEF Timely
<1>2. ASSUME NEW e \in r PROVE IsEvent(e) /\ e.timestamp <= later + Latency(e.payload.kind)
  <2>1. IsEvent(e) /\ e.timestamp \in Nat /\ e.timestamp <= now + Latency(e.payload.kind)
    BY DEF Timely, IsEvent
  <2>2. Latency(e.payload.kind) \in Nat
    BY LatencyAssumption DEF Latency
  <2> QED
    BY <2>1, <2>2
<1> QED
  BY <1>1, <1>2 DEF Timely, Lined

---------------------------------------------------------------------------
(* One order, as the components see it together. *)

Kinds == {"Create", "Cancel", "AckCreate", "AckCancel"}

\* The events of `kind` in the network that are about order id.
Of(q, kind, id) == {e \in q : e.payload.kind = kind /\ e.payload.order_id = id}

\* The quantity of the order whose fills are acknowledged and in the network.
Filling(q, id) ==
  LET acks == Of(q, "AckFill", id)
  IN  SumOver([e \in acks |-> e.payload.filled_qty], acks)

\* The quantity of the order that rests at the exchange.
Remaining(x, side, id) ==
  IF x[side] # <<>> /\ x[side][1].orders[1].order_id = id
  THEN x[side][1].orders[1].remaining_qty ELSE 0

\* The kinds of event about the order, other than fills, that the network holds.
Underway(q, id) == {kind \in Kinds : Of(q, kind, id) # {}}

\* The sides on which the strategy tracks the order.
Trackers(active, id) == {side \in Sides : active[side] = id}

\* The order in the table, what the network holds of it, what the exchange holds,
\* and the sides on which the strategy tracks it.
View(orders, active, q, x, id) ==
  [order    |-> orders[id],
   flying   |-> Underway(q, id),
   filling  |-> Filling(q, id),
   resting  |-> Remaining(x, orders[id].side, id),
   trackers |-> Trackers(active, id)]

Unresolved == Open \cup {"PENDING_CANCEL"}

(* What can be true together of an order's status, its quantities and its events:
   where each quantity is, which events can be on their way in each status, and
   who will hear of the order again. *)
LifeOK(v) ==
  LET status == v.order.status
      filled == v.order.filled_qty
      total  == filled + v.filling + v.resting
  IN  /\ v.order \in OrderType /\ v.filling \in Nat /\ v.resting \in Nat
      /\ total <= v.order.qty
      /\ status \notin {"REJECTED", "CANCELLED"} /\ "Create" \notin v.flying
           /\ "AckCancel" \notin v.flying => total = v.order.qty
      /\ status = "REJECTED" => v.flying = {} /\ total = 0 /\ v.trackers = {}
      /\ status = "CANCELLED" => v.flying = {} /\ total = filled /\ filled < v.order.qty
      /\ status = "FILLED" => /\ filled = v.order.qty
                              /\ "Create" \notin v.flying /\ "AckCreate" \notin v.flying
      /\ status \in Unresolved => filled < v.order.qty
      /\ status = "PENDING" => "Create" \in v.flying \/ "AckCreate" \in v.flying
      /\ "Create" \in v.flying => /\ status \in {"PENDING", "PENDING_CANCEL"} /\ total = 0
                                  /\ "AckCreate" \notin v.flying /\ "AckCancel" \notin v.flying
      /\ "AckCreate" \in v.flying => status \in {"PENDING", "PENDING_CANCEL"} /\ filled = 0
      /\ "AckCancel" \in v.flying => v.resting = 0 /\ "Cancel" \notin v.flying
      /\ v.trackers # {} => /\ status \in Open
                            /\ "Cancel" \notin v.flying /\ "AckCancel" \notin v.flying
      /\ v.trackers = {} /\ status \in Unresolved
           => "Cancel" \in v.flying \/ "AckCancel" \in v.flying

\* An order starts its life in the network, tracked, or rejected and nowhere.
LEMMA LifeStarts ==
  ASSUME NEW v, v.order \in OrderType, v.order.filled_qty = 0, v.filling = 0, v.resting = 0
  PROVE  /\ (/\ v.order.status = "PENDING" /\ v.order.qty > 0
             /\ v.flying = {"Create"} /\ v.trackers # {}) => LifeOK(v)
         /\ v.order.status = "REJECTED" /\ v.flying = {} /\ v.trackers = {} => LifeOK(v)
<1>1. v.order.qty \in Nat /\ 0 + 0 + 0 = 0
  BY DEF OrderType
<1>2. ASSUME v.order.status = "PENDING", v.order.qty > 0, v.flying = {"Create"}, v.trackers # {}
      PROVE  LifeOK(v)
  BY <1>1, <1>2 DEF LifeOK, Unresolved, Open
<1>3. ASSUME v.order.status = "REJECTED", v.flying = {}, v.trackers = {}
      PROVE  LifeOK(v)
  BY <1>1, <1>3 DEF LifeOK, Unresolved, Open
<1> QED
  BY <1>2, <1>3

\* The order o with another status and filled quantity.
Restate(o, status, filled) ==
  [price |-> o.price, qty |-> o.qty, filled_qty |-> filled, side |-> o.side, status |-> status]

\* w has the order of v, restated.
Changes(v, w, status, filled) == w.order = Restate(v.order, status, filled)

\* The order after such a change.
LEMMA Changed ==
  ASSUME NEW v, LifeOK(v), NEW w, NEW status \in Status, NEW filled \in Nat,
         Changes(v, w, status, filled)
  PROVE  /\ w.order \in OrderType /\ w.order.status = status /\ w.order.filled_qty = filled
         /\ w.order.qty = v.order.qty
         /\ v.order.qty \in Nat /\ v.order.filled_qty \in Nat /\ v.filling \in Nat
         /\ v.resting \in Nat /\ v.order.status \in Status
<1>1. v.order \in OrderType /\ v.filling \in Nat /\ v.resting \in Nat
  BY DEF LifeOK
<1> QED
  BY <1>1 DEF OrderType, Changes, Restate

\* The strategy withdraws an order it tracks: the cancel is on its way.
LEMMA LifeWithdrawn ==
  ASSUME NEW v, LifeOK(v), NEW w, v.trackers # {},
         Changes(v, w, "PENDING_CANCEL", v.order.filled_qty),
         w.flying = v.flying \cup {"Cancel"},
         w.filling = v.filling, w.resting = v.resting, w.trackers = {}
  PROVE  LifeOK(w)
<1>1. /\ w.order \in OrderType /\ w.order.status = "PENDING_CANCEL"
      /\ w.order.filled_qty = v.order.filled_qty /\ w.order.qty = v.order.qty
  <2>1. v.order.filled_qty \in Nat /\ "PENDING_CANCEL" \in Status
    BY DEF LifeOK, OrderType, Status
  <2> QED
    BY <2>1, Changed
<1> QED
  BY <1>1 DEF LifeOK, Unresolved, Open

\* The exchange accepts the order, whole.
LEMMA LifeArrives ==
  ASSUME NEW v, LifeOK(v), NEW w, "Create" \in v.flying, w.order = v.order,
         w.flying = (v.flying \ {"Create"}) \cup {"AckCreate"},
         w.filling = v.filling, w.resting = v.order.qty, w.trackers = v.trackers
  PROVE  LifeOK(w)
<1>1. /\ "Create" \notin w.flying /\ "AckCreate" \in w.flying /\ "AckCancel" \notin w.flying
      /\ "Cancel" \in w.flying <=> "Cancel" \in v.flying
  BY DEF LifeOK
<1>2. v.order.status \in {"PENDING", "PENDING_CANCEL"}
  BY DEF LifeOK
<1>3. /\ w.order \in OrderType /\ w.filling = 0 /\ w.order.filled_qty = 0
      /\ w.order.qty \in Nat /\ w.resting = w.order.qty
  BY DEF LifeOK, OrderType
<1>4. /\ 0 < w.order.qty
      /\ w.trackers # {} => w.order.status \in Open /\ "Cancel" \notin w.flying
      /\ w.trackers = {} => "Cancel" \in w.flying
  BY <1>1, <1>2, <1>3 DEF LifeOK, Unresolved, Open
<1> QED
  BY <1>1, <1>2, <1>3, <1>4 DEF LifeOK

\* The exchange cancels the order, or finds it gone.
LEMMA LifeLeaves ==
  ASSUME NEW v, LifeOK(v), NEW w, "Cancel" \in v.flying, "Create" \notin v.flying,
         w.order = v.order, w.flying = (v.flying \ {"Cancel"}) \cup {"AckCancel"},
         w.filling = v.filling, w.resting = 0, w.trackers = v.trackers
  PROVE  LifeOK(w)
<1>1. /\ "Create" \notin w.flying /\ "Cancel" \notin w.flying /\ "AckCancel" \in w.flying
      /\ "AckCreate" \in w.flying <=> "AckCreate" \in v.flying
  OBVIOUS
<1>2. v.trackers = {} /\ v.order.status \notin {"REJECTED", "CANCELLED"}
  BY DEF LifeOK
<1>3. /\ w.order \in OrderType /\ w.filling \in Nat /\ w.resting \in Nat
      /\ w.order.filled_qty + w.filling + w.resting <= w.order.qty
  BY DEF LifeOK, OrderType
<1>4. /\ w.order.status = "FILLED" => w.order.filled_qty = w.order.qty /\ "AckCreate" \notin w.flying
      /\ w.order.status \in Unresolved => w.order.filled_qty < w.order.qty
      /\ w.order.status = "PENDING" => "AckCreate" \in w.flying
      /\ "AckCreate" \in w.flying => /\ w.order.status \in {"PENDING", "PENDING_CANCEL"}
                                     /\ w.order.filled_qty = 0
  BY <1>1 DEF LifeOK
<1> QED
  BY <1>1, <1>2, <1>3, <1>4 DEF LifeOK

\* The order is acknowledged: it is live, also when its cancel is on the way.
LEMMA LifeLive ==
  ASSUME NEW v, LifeOK(v), NEW w, "AckCreate" \in v.flying,
         Changes(v, w, "LIVE", v.order.filled_qty),
         w.flying = v.flying \ {"AckCreate"},
         w.filling = v.filling, w.resting = v.resting, w.trackers = v.trackers
  PROVE  LifeOK(w)
<1>1. /\ w.order \in OrderType /\ w.order.status = "LIVE"
      /\ w.order.filled_qty = v.order.filled_qty /\ w.order.qty = v.order.qty
  <2>1. v.order.filled_qty \in Nat /\ "LIVE" \in Status
    BY DEF LifeOK, OrderType, Status, Open
  <2> QED
    BY <2>1, Changed
<1> QED
  BY <1>1 DEF LifeOK, Unresolved, Open

\* The cancellation is acknowledged after every fill: the order is cancelled, if it
\* was not filled before.
LEMMA LifeCancelled ==
  ASSUME NEW v, LifeOK(v), NEW w, "AckCancel" \in v.flying, "AckCreate" \notin v.flying,
         v.filling = 0,
         IF v.order.status = "FILLED" THEN w.order = v.order
         ELSE Changes(v, w, "CANCELLED", v.order.filled_qty),
         w.flying = v.flying \ {"AckCancel"}, v.flying \subseteq Kinds,
         w.filling = v.filling, w.resting = v.resting, w.trackers = {}
  PROVE  LifeOK(w)
<1>1. CASE v.order.status = "FILLED"
  BY <1>1 DEF LifeOK, OrderType, Unresolved, Open
<1>2. CASE v.order.status # "FILLED"
  <2>1. /\ w.order \in OrderType /\ w.order.status = "CANCELLED"
        /\ w.order.filled_qty = v.order.filled_qty /\ w.order.qty = v.order.qty
    <3>1. v.order.filled_qty \in Nat /\ "CANCELLED" \in Status
      BY DEF LifeOK, OrderType, Status, Terminal
    <3> QED
      BY <1>2, <3>1, Changed
  <2>2. v.order.status \in Unresolved
    BY <1>2 DEF LifeOK, OrderType, Status, Unresolved, Terminal
  <2>3. w.flying = {}
    BY <2>2 DEF LifeOK, Kinds, Unresolved, Open
  <2>4. /\ w.filling = 0 /\ w.resting = 0
        /\ w.order.filled_qty \in Nat /\ w.order.filled_qty < w.order.qty
    BY <2>1, <2>2 DEF LifeOK, OrderType
  <2> QED
    BY <2>1, <2>3, <2>4 DEF LifeOK, Unresolved, Open, OrderType
<1> QED
  BY <1>1, <1>2

\* A fill is booked: what was in the network is now on the order.
LEMMA LifeFilled ==
  ASSUME NEW v, LifeOK(v), NEW w, "AckCreate" \notin v.flying,
         NEW k \in Nat \ {0}, k <= v.filling, NEW status,
         status = IF v.order.filled_qty + k = v.order.qty THEN "FILLED" ELSE "PARTIALLY_FILLED",
         Changes(v, w, status, v.order.filled_qty + k),
         w.flying = v.flying, w.filling = v.filling - k, w.resting = v.resting,
         w.trackers = IF status = "FILLED" THEN {} ELSE v.trackers
  PROVE  /\ v.order.status \in {"LIVE", "PARTIALLY_FILLED", "PENDING_CANCEL"}
         /\ k <= v.order.qty - v.order.filled_qty
         /\ LifeOK(w)
<1>1. /\ v.order.qty \in Nat /\ v.order.filled_qty \in Nat /\ v.filling \in Nat
      /\ v.resting \in Nat /\ v.order.status \in Status
  BY DEF LifeOK, OrderType
<1>2. /\ v.order.status \in {"LIVE", "PARTIALLY_FILLED", "PENDING_CANCEL"}
      /\ k <= v.order.qty - v.order.filled_qty
  BY <1>1 DEF LifeOK, Status, Open, Terminal
<1>3. /\ w.order \in OrderType /\ w.order.status = status
      /\ w.order.filled_qty = v.order.filled_qty + k /\ w.order.qty = v.order.qty
  <2> DEFINE filled == v.order.filled_qty + k
  <2>1. filled \in Nat /\ status \in Status /\ Changes(v, w, status, filled)
    BY <1>1 DEF Status, Open, Terminal
  <2> HIDE DEF filled
  <2>2. /\ w.order \in OrderType /\ w.order.status = status
        /\ w.order.filled_qty = filled /\ w.order.qty = v.order.qty
    BY <2>1, Changed
  <2> QED
    BY <2>2 DEF filled
<1> QED
  BY <1>1, <1>2, <1>3 DEF LifeOK, Unresolved, Open

\* The exchange fills some of the order.
LEMMA LifeTraded ==
  ASSUME NEW v, LifeOK(v), NEW w, NEW k \in 1..v.resting, w.order = v.order,
         w.flying = v.flying, w.filling = v.filling + k, w.resting = v.resting - k,
         w.trackers = v.trackers
  PROVE  LifeOK(w) /\ "AckCancel" \notin v.flying
  BY DEF LifeOK, OrderType, Unresolved, Open

---------------------------------------------------------------------------
(* How a view changes with the network and the exchange. *)

\* The fills in the network add up to a quantity; without fills, to none.
LEMMA FillingType ==
  ASSUME NEW q, IsFiniteSet(q), NEW id,
         \A e \in Of(q, "AckFill", id) : e.payload.filled_qty \in Nat
  PROVE  Filling(q, id) \in Nat /\ (Of(q, "AckFill", id) = {} => Filling(q, id) = 0)
<1> DEFINE acks == Of(q, "AckFill", id)
           w    == [e \in acks |-> e.payload.filled_qty]
<1>1. IsFiniteSet(acks) /\ \A e \in acks : w[e] \in Nat
  BY FS_Subset DEF Of
<1>2. Filling(q, id) = SumOver(w, acks)
  BY DEF Filling
<1> HIDE DEF acks, w
<1> QED
  BY <1>1, <1>2, SumOfNaturals, SumOfNone DEF acks

\* A fill that is handed out, or sent, is one more or less in the sum.
LEMMA FillingTakes ==
  ASSUME NEW q, IsFiniteSet(q), NEW id, NEW e \in Of(q, "AckFill", id),
         \A f \in Of(q, "AckFill", id) : f.payload.filled_qty \in Nat
  PROVE  /\ Filling(q \ {e}, id) \in Nat
         /\ Filling(q, id) = e.payload.filled_qty + Filling(q \ {e}, id)
<1> DEFINE acks == Of(q, "AckFill", id)
           less == Of(q \ {e}, "AckFill", id)
           w    == [f \in acks |-> f.payload.filled_qty]
           v    == [f \in less |-> f.payload.filled_qty]
<1>1. IsFiniteSet(acks) /\ IsFiniteSet(less) /\ less = acks \ {e} /\ e \in acks
  BY FS_Subset DEF Of
<1>2. Filling(q, id) = SumOver(w, acks) /\ Filling(q \ {e}, id) = SumOver(v, less)
  BY DEF Filling
<1>3. /\ \A f \in acks : w[f] = f.payload.filled_qty /\ w[f] \in Nat
      /\ \A f \in less : v[f] = w[f] /\ v[f] \in Nat
  BY <1>1
<1>4. w[e] = e.payload.filled_qty
  BY <1>1
<1> HIDE DEF acks, less, w, v
<1>5. Weighs(w, acks) /\ Weighs(v, less)
  BY <1>3 DEF Weighs
<1>6. SumOver(w, acks) = w[e] + SumOver(w, less)
  BY <1>1, <1>5, SumWithout
<1>7. SumOver(v, less) = SumOver(w, less)
  BY <1>1, <1>3, <1>5, SumSame
<1>8. SumOver(v, less) \in Nat
  BY <1>1, <1>3, SumOfNaturals
<1> QED
  BY <1>2, <1>4, <1>6, <1>7, <1>8

\* A view depends on the order's own events, on its own place in the table and on the
\* sides that track it.
LEMMA ViewStays ==
  ASSUME NEW orders, NEW after, NEW active, NEW active2, NEW q, NEW r, NEW x, NEW y, NEW id,
         after[id] = orders[id],
         \A e : e.payload.order_id = id => (e \in q <=> e \in r),
         Remaining(y, after[id].side, id) = Remaining(x, orders[id].side, id),
         \A side \in Sides : active2[side] = id <=> active[side] = id
  PROVE  View(after, active2, r, y, id) = View(orders, active, q, x, id)
<1>1. \A kind : Of(r, kind, id) = Of(q, kind, id)
  BY DEF Of
<1>2. Filling(r, id) = Filling(q, id)
  BY <1>1 DEF Filling
<1>3. Underway(r, id) = Underway(q, id)
  BY <1>1 DEF Underway
<1>4. Trackers(active2, id) = Trackers(active, id)
  BY DEF Trackers
<1> QED
  BY <1>2, <1>3, <1>4 DEF View

\* No event of the kind or that is to follow it is in the network.
MayJoin(q, kind, id) ==
  /\ Of(q, kind, id) = {}
  /\ \A next : Follows(kind, next) => Of(q, next, id) = {}

\* What flies of the order is the same but for a kind that is gone, or new.
Loses(q, r, kind, id) ==
  Underway(r, id) = Underway(q, id) \ {kind} /\ Of(r, "AckFill", id) = Of(q, "AckFill", id)
Gains(q, r, kind, id) ==
  Underway(r, id) = Underway(q, id) \cup {kind} /\ Of(r, "AckFill", id) = Of(q, "AckFill", id)

\* What flies of an order when an event of it is sent.
LEMMA FlyingAdds ==
  ASSUME NEW q, NEW d, NEW kind, NEW id, Is(d, kind, id), NEW r, Joined(q, d, r)
  PROVE  /\ kind \in Kinds => Gains(q, r, kind, id)
         /\ kind = "AckFill" => /\ Underway(r, id) = Underway(q, id)
                                /\ Of(r, "Create", id) = Of(q, "Create", id)
                                /\ Of(r, "Cancel", id) = Of(q, "Cancel", id)
<1>1. \A other : other # kind => Of(r, other, id) = Of(q, other, id)
  BY DEF Of, Is, Joined
<1>2. Of(r, kind, id) # {}
  BY DEF Of, Is, Joined
<1>3. "AckFill" \notin Kinds
  BY DEF Kinds
<1> QED
  BY <1>1, <1>2, <1>3 DEF Underway, Gains

\* And when an event of it is handed out, the only one of its kind.
LEMMA FlyingTakes ==
  ASSUME NEW q, Lined(q), NEW e, NEW kind, NEW id, Is(e, kind, id), NEW r, Takes(q, e, r)
  PROVE  /\ kind \in Kinds => Loses(q, r, kind, id)
         /\ kind = "AckFill" => Underway(r, id) = Underway(q, id)
<1>1. \A other : other # kind => Of(r, other, id) = Of(q, other, id)
  BY DEF Of, Is, Takes
<1>2. kind # "AckFill" => Of(r, kind, id) = {}
  BY DEF Of, Lined, Matched, Is, Takes
<1>3. "AckFill" \notin Kinds
  BY DEF Kinds
<1> QED
  BY <1>1, <1>2, <1>3 DEF Underway, Loses

\* An event other than a fill is handed out, and time may pass.
LEMMA Departs ==
  ASSUME NEW q, NEW now \in Int, Timely(q, now), Lined(q), NEW later \in Int, later >= now,
         NEW kind \in Kinds, NEW id, NEW e, Is(e, kind, id), NEW r, Takes(q, e, r)
  PROVE  Timely(r, later) /\ Lined(r) /\ Loses(q, r, kind, id)
<1>1. r \in SUBSET q
  BY DEF Takes
<1>2. Timely(r, later) /\ Lined(r)
  BY <1>1, QueueTakes
<1> QED
  BY <1>2, FlyingTakes

\* An event other than a fill is sent.
LEMMA Joins ==
  ASSUME NEW q, NEW now \in Nat, Timely(q, now), Lined(q), NEW kind \in Kinds, NEW id,
         NEW p, Says(p, kind, id), MayJoin(q, kind, id),
         NEW d, Sends(q, now, kind, p, d), NEW r, Joined(q, d, r)
  PROVE  /\ Timely(r, now) /\ Lined(r) /\ d.payload = p /\ Is(d, kind, id)
         /\ d \notin q /\ Gains(q, r, kind, id)
<1>1. /\ d.payload = p /\ d \notin q /\ Is(d, kind, id) /\ Timely(r, now)
      /\ \A e \in q : Latency(e.payload.kind) = Latency(kind) => Before(e, d)
  BY SentLast
<1>2. \A e \in q : e.payload.order_id = id =>
        /\ e.payload.kind = kind => kind = "AckFill"
        /\ ~Follows(kind, e.payload.kind)
  BY DEF MayJoin, Of
<1>3. Lined(r)
  BY <1>1, <1>2, LinedAdds
<1> QED
  BY <1>1, <1>3, FlyingAdds

---------------------------------------------------------------------------
(* All orders together. *)

SameTerms(o, p) == o.price = p.price /\ o.qty = p.qty /\ o.side = p.side

\* A payload is about an order of the table, and says of it what the table says;
\* a fill is of something, at a price no worse than the order's limit.
IsPayload(p, orders) ==
  LET id == p.order_id
      o  == orders[id]
  IN  /\ id \in DOMAIN orders
      /\ \/ p = Create(id, o.price, o.qty, o.side)
         \/ p \in {Cancel(id), AckCreate(id), AckCancel(id)}
         \/ /\ p = AckFill(id, p.filled_qty, p.price)
            /\ p.filled_qty \in Nat \ {0} /\ p.price \in Int
            /\ ~VX!Better(o.side, p.price, o.price)

\* On a side of the exchange there is nothing, or one order of the table, on its side
\* and at its price.
Stands(levels, side, orders) ==
  \/ levels = <<>>
  \/ \E id \in DOMAIN orders, total \in Words, ahead \in Words, n \in Nat \ {0} :
       /\ orders[id].side = side
       /\ levels = Sole(id, orders[id].price, total, ahead, n)

Tabled(orders) == orders \in Seq(OrderType) /\ Len(orders) <= MaxOrders

\* The order a side tracks is one of that side.
TracksOwn(active, orders) ==
  /\ active = [side \in Sides |-> active[side]]
  /\ \A side \in Sides : active[side] # NoOrder =>
       active[side] \in DOMAIN orders /\ orders[active[side]].side = side

(* Of two orders of one side the older, i, is out of the market before the younger, j,
   comes: as long as i may rest when j arrives, its cancel is in the network and will
   be handed out before j. *)
Succeeds(orders, q, x, i, j) ==
  i < j /\ orders[i].side = orders[j].side =>
    /\ Remaining(x, orders[i].side, i) > 0 \/ Of(q, "Create", i) # {} =>
         \A d \in Of(q, "Create", j) : \E e \in Of(q, "Cancel", i) : Before(e, d)
    /\ Of(q, "Create", i) # {} => Remaining(x, orders[j].side, j) = 0

\* The engine's state between two handlers: the orders, the orders tracked, the
\* network, the exchange and the time.
Whole(orders, active, q, x, now) ==
  /\ Tabled(orders) /\ TracksOwn(active, orders)
  /\ now \in Nat /\ Timely(q, now) /\ Lined(q)
  /\ \A e \in q : IsPayload(e.payload, orders)
  /\ x = [side \in Sides |-> x[side]]
  /\ \A side \in Sides : Stands(x[side], side, orders)
  /\ \A id \in DOMAIN orders : LifeOK(View(orders, active, q, x, id))
  /\ \A i, j \in DOMAIN orders : Succeeds(orders, q, x, i, j)

\* What a table says of an order is still said when it grows, or an order is restated.
LEMMA TermsStay ==
  ASSUME NEW orders, NEW after, DOMAIN orders \subseteq DOMAIN after,
         \A i \in DOMAIN orders : SameTerms(after[i], orders[i])
  PROVE  /\ \A p : IsPayload(p, orders) => IsPayload(p, after)
         /\ \A levels, side : Stands(levels, side, orders) => Stands(levels, side, after)
<1>1. ASSUME NEW p, IsPayload(p, orders) PROVE IsPayload(p, after)
  <2>1. p.order_id \in DOMAIN orders /\ p.order_id \in DOMAIN after
        /\ SameTerms(after[p.order_id], orders[p.order_id])
    BY <1>1 DEF IsPayload
  <2> QED
    BY <1>1, <2>1 DEF IsPayload, SameTerms
<1>2. ASSUME NEW levels, NEW side, Stands(levels, side, orders)
      PROVE  Stands(levels, side, after)
  BY <1>2 DEF Stands, SameTerms
<1> QED
  BY <1>1, <1>2

\* What one order has to do for all to be well: its own life is in order, and it
\* does not step in front of another of its side.
LEMMA OneMoves ==
  ASSUME NEW orders, NEW active, NEW q, NEW x, NEW now, Whole(orders, active, q, x, now),
         NEW id \in DOMAIN orders, NEW after, NEW active2, NEW r, NEW y, NEW later \in Nat,
         Tabled(after), DOMAIN after = DOMAIN orders,
         \A i \in DOMAIN orders : i # id => after[i] = orders[i],
         SameTerms(after[id], orders[id]),
         active2 = [side \in Sides |-> active2[side]],
         \A side \in Sides : \/ active2[side] = active[side]
                             \/ active[side] = id /\ active2[side] = NoOrder,
         Timely(r, later), Lined(r),
         \A e \in r : e \in q \/ (e.payload.order_id = id /\ IsPayload(e.payload, orders)),
         \A e \in q : e \in r \/ e.payload.order_id = id,
         Of(r, "Create", id) \subseteq Of(q, "Create", id),
         \/ Of(q, "Cancel", id) \subseteq Of(r, "Cancel", id)
         \/ Remaining(y, orders[id].side, id) = 0 /\ Of(r, "Create", id) = {},
         y = [side \in Sides |-> y[side]],
         \A side \in Sides : Stands(y[side], side, orders),
         \A i \in DOMAIN orders : i # id =>
           Remaining(y, orders[i].side, i) = Remaining(x, orders[i].side, i),
         Remaining(y, orders[id].side, id) > 0 =>
           Remaining(x, orders[id].side, id) > 0 \/ Of(q, "Create", id) # {},
         \A i \in DOMAIN orders :
           i < id /\ orders[i].side = orders[id].side /\ Of(q, "Create", i) # {} =>
             Remaining(y, orders[id].side, id) = 0,
         LifeOK(View(after, active2, r, y, id))
  PROVE  Whole(after, active2, r, y, later)
<1>1. \A i \in DOMAIN orders : SameTerms(after[i], orders[i]) /\ after[i].side = orders[i].side
  BY DEF SameTerms
<1>2. DOMAIN orders = 1..Len(orders) /\ NoOrder \notin DOMAIN orders
  BY DEF Whole, Tabled, NoOrder
<1>3. \A e \in r : IsPayload(e.payload, after)
  BY <1>1, TermsStay DEF Whole
<1>4. \A side \in Sides : Stands(y[side], side, after)
  BY <1>1, TermsStay
<1>5. TracksOwn(active2, after)
  BY <1>1 DEF TracksOwn, Whole
<1>6. ASSUME NEW i \in DOMAIN orders PROVE LifeOK(View(after, active2, r, y, i))
  <2>1. CASE i = id
    BY <2>1
  <2>2. CASE i # id
    <3>1. \A e : e.payload.order_id = i => (e \in q <=> e \in r)
      BY <2>2
    <3>2. after[i] = orders[i]
      BY <2>2
    <3>3. Remaining(y, after[i].side, i) = Remaining(x, orders[i].side, i)
      BY <2>2, <3>2
    <3>4. \A side \in Sides : active2[side] = i <=> active[side] = i
      BY <1>2, <2>2
    <3>5. View(after, active2, r, y, i) = View(orders, active, q, x, i)
      BY <3>1, <3>2, <3>3, <3>4, ViewStays
    <3> QED
      BY <3>5 DEF Whole
  <2> QED
    BY <2>1, <2>2
<1>7. \A i, kind : i # id => Of(r, kind, i) = Of(q, kind, i)
  BY DEF Of
<1>8. ASSUME NEW i \in DOMAIN orders, NEW j \in DOMAIN orders
      PROVE  Succeeds(after, r, y, i, j)
  <2> SUFFICES ASSUME i < j, orders[i].side = orders[j].side
               PROVE  Succeeds(after, r, y, i, j)
    BY <1>1 DEF Succeeds
  <2>1. i # j /\ Succeeds(orders, q, x, i, j)
    BY <1>2 DEF Whole
  <2>2. Of(r, "Create", i) \subseteq Of(q, "Create", i) /\ Of(r, "Create", j) \subseteq Of(q, "Create", j)
    BY <1>7
  <2>3. ASSUME Remaining(y, orders[i].side, i) > 0 \/ Of(r, "Create", i) # {},
               NEW d \in Of(r, "Create", j)
        PROVE  \E e \in Of(r, "Cancel", i) : Before(e, d)
    <3>1. Remaining(x, orders[i].side, i) > 0 \/ Of(q, "Create", i) # {}
      BY <2>2, <2>3
    <3>2. PICK e \in Of(q, "Cancel", i) : Before(e, d)
      BY <2>1, <2>2, <3>1 DEF Succeeds
    <3>3. e \in Of(r, "Cancel", i)
      BY <1>7, <2>3
    <3> QED
      BY <3>2, <3>3
  <2>4. ASSUME Of(r, "Create", i) # {} PROVE Remaining(y, orders[j].side, j) = 0
    <3>1. Of(q, "Create", i) # {}
      BY <2>2, <2>4
    <3>2. CASE j = id
      BY <3>1, <3>2
    <3>3. CASE j # id
      BY <2>1, <3>1, <3>3 DEF Succeeds
    <3> QED
      BY <3>2, <3>3
  <2> QED
    BY <1>1, <2>3, <2>4 DEF Succeeds
<1> QED
  BY <1>3, <1>4, <1>5, <1>6, <1>8 DEF Whole

\* A table with one order restated.
LEMMA TableRestated ==
  ASSUME NEW orders, Tabled(orders), NEW id \in DOMAIN orders, NEW status \in Status,
         NEW filled \in Nat
  PROVE  LET after == [orders EXCEPT ![id] = Restate(orders[id], status, filled)]
         IN  /\ Tabled(after) /\ DOMAIN after = DOMAIN orders
             /\ \A i \in DOMAIN orders : i # id => after[i] = orders[i]
             /\ after[id] = Restate(orders[id], status, filled)
             /\ SameTerms(after[id], orders[id])
<1> DEFINE o     == Restate(orders[id], status, filled)
           after == [orders EXCEPT ![id] = o]
<1>1. orders \in Seq(OrderType) /\ Len(orders) <= MaxOrders /\ orders[id] \in OrderType
  BY DEF Tabled
<1>2. o \in OrderType /\ SameTerms(o, orders[id])
  BY <1>1 DEF Restate, OrderType, SameTerms
<1> HIDE DEF o
<1>3. /\ DOMAIN after = DOMAIN orders /\ after[id] = o
      /\ \A i \in DOMAIN orders : i # id => after[i] = orders[i]
      /\ after \in Seq(OrderType) /\ Len(after) = Len(orders)
  BY <1>1, <1>2
<1> HIDE DEF after
<1> QED
  BY <1>1, <1>2, <1>3 DEF Tabled, after, o

\* Reading a view.
LEMMA ViewIs ==
  ASSUME NEW orders, NEW active, NEW q, NEW x, NEW id
  PROVE  LET v == View(orders, active, q, x, id)
         IN  /\ v.order = orders[id] /\ v.filling = Filling(q, id)
             /\ v.resting = Remaining(x, orders[id].side, id)
             /\ v.flying = Underway(q, id)
             /\ v.trackers = Trackers(active, id)
             /\ \A kind \in Kinds : kind \in v.flying <=> Of(q, kind, id) # {}
  BY DEF View, Underway

\* A quote is withdrawn: its order is open, the cancel leaves, and the side is free.
LEMMA Withdraws ==
  ASSUME NEW orders, NEW active, NEW q, NEW x, NEW now, Whole(orders, active, q, x, now),
         NEW side \in Sides, NEW id, id = active[side], id # NoOrder
  PROVE  /\ orders[id].status \in Open
         /\ Whole([orders EXCEPT ![id] = Restate(@, "PENDING_CANCEL", @.filled_qty)],
                  [active EXCEPT ![side] = NoOrder],
                  SendOutbound(q, now, Cancel(id)), x, now)
<1> DEFINE after   == [orders EXCEPT ![id] = Restate(orders[id], "PENDING_CANCEL",
                                                     orders[id].filled_qty)]
           active2 == [active EXCEPT ![side] = NoOrder]
           d == Sent(q, now, OutboundLatency, 0, Cancel(id))
           r == q \cup {d}
           v == View(orders, active, q, x, id)
           w == View(after, active2, r, x, id)
<1>1. id \in DOMAIN orders /\ orders[id].side = side
  BY DEF Whole, TracksOwn
<1>2. LifeOK(v) /\ v.trackers # {} /\ v.order = orders[id]
  BY <1>1, ViewIs DEF Whole, Trackers
<1>3. /\ orders[id].status \in Open /\ orders[id].filled_qty \in Nat
      /\ Of(q, "Cancel", id) = {} /\ Of(q, "AckCancel", id) = {}
  <2>1. "Cancel" \notin v.flying /\ "AckCancel" \notin v.flying
    BY <1>2 DEF LifeOK
  <2>2. Of(q, "Cancel", id) = {} /\ Of(q, "AckCancel", id) = {}
    BY <2>1, ViewIs DEF Kinds
  <2> HIDE DEF v
  <2> QED
    BY <1>2, <2>2 DEF LifeOK, OrderType
<1>4. /\ Tabled(after) /\ DOMAIN after = DOMAIN orders
      /\ \A i \in DOMAIN orders : i # id => after[i] = orders[i]
      /\ after[id] = Restate(orders[id], "PENDING_CANCEL", orders[id].filled_qty)
      /\ SameTerms(after[id], orders[id])
  BY <1>1, <1>3, TableRestated DEF Whole, Status
<1>5. MayJoin(q, "Cancel", id)
  BY <1>3 DEF MayJoin, Follows
<1>6. /\ Timely(q, now) /\ Lined(q) /\ now \in Nat /\ Says(Cancel(id), "Cancel", id)
      /\ Sends(q, now, "Cancel", Cancel(id), d) /\ Joined(q, d, r) /\ "Cancel" \in Kinds
  BY DEF Whole, Says, Cancel, Sends, Joined, Kinds, Latency, Outbound
<1> HIDE DEF d, r
<1>7. /\ Timely(r, now) /\ Lined(r) /\ d.payload = Cancel(id) /\ Is(d, "Cancel", id)
      /\ Gains(q, r, "Cancel", id)
  BY <1>5, <1>6, Joins
<1>8. IsPayload(d.payload, orders)
  BY <1>1, <1>7 DEF IsPayload, Cancel
<1>9. /\ active2 = [s \in Sides |-> active2[s]] /\ active2[side] = NoOrder
      /\ \A s \in Sides : s # side => active2[s] = active[s] /\ active[s] # id
  BY <1>1 DEF Whole, TracksOwn
<1>10. /\ Of(r, "AckFill", id) = Of(q, "AckFill", id)
       /\ Underway(r, id) = Underway(q, id) \cup {"Cancel"}
  BY <1>7 DEF Gains
<1> HIDE DEF after, active2
<1>11. LifeOK(w)
  <2>0. w.order = after[id] /\ v.order = orders[id]
    BY ViewIs
  <2>1. Changes(v, w, "PENDING_CANCEL", v.order.filled_qty)
    <3> HIDE DEF v, w
    <3> QED
      BY <1>4, <2>0 DEF Changes
  <2>2. w.flying = v.flying \cup {"Cancel"}
    BY <1>10, ViewIs
  <2>3. w.filling = v.filling /\ w.resting = v.resting
    <3>1. Filling(r, id) = Filling(q, id)
      BY <1>10 DEF Filling
    <3>2. after[id].side = orders[id].side
      BY <1>4 DEF SameTerms
    <3>3. /\ w.filling = Filling(r, id) /\ w.resting = Remaining(x, after[id].side, id)
          /\ v.filling = Filling(q, id) /\ v.resting = Remaining(x, orders[id].side, id)
      BY ViewIs
    <3> QED
      BY <3>1, <3>2, <3>3
  <2>4. w.trackers = {}
    BY <1>9, ViewIs DEF Trackers
  <2> HIDE DEF v, w
  <2> QED
    BY <1>2, <2>1, <2>2, <2>3, <2>4, LifeWithdrawn
<1>12. /\ Of(r, "Create", id) \subseteq Of(q, "Create", id)
       /\ Of(q, "Cancel", id) \subseteq Of(r, "Cancel", id)
  BY <1>6, <1>7 DEF Of, Joined, Is
<1>13. \A i \in DOMAIN orders :
         i < id /\ orders[i].side = orders[id].side /\ Of(q, "Create", i) # {} =>
           Remaining(x, orders[id].side, id) = 0
  BY <1>1 DEF Whole, Succeeds
<1> HIDE DEF w
<1>14. Whole(after, active2, r, x, now)
  <2>1. \A e \in r : e \in q \/ (e.payload.order_id = id /\ IsPayload(e.payload, orders))
    BY <1>6, <1>7, <1>8 DEF Joined, Is
  <2>2. \A e \in q : e \in r \/ e.payload.order_id = id
    BY <1>6 DEF Joined
  <2>3. \A s \in Sides : active2[s] = active[s] \/ (active[s] = id /\ active2[s] = NoOrder)
    BY <1>9
  <2>4. /\ now \in Nat /\ x = [s \in Sides |-> x[s]]
        /\ \A s \in Sides : Stands(x[s], s, orders)
    BY DEF Whole
  <2> QED
    BY <1>1, <1>4, <1>7, <1>9, <1>11, <1>12, <1>13, <2>1, <2>2, <2>3, <2>4, OneMoves DEF w
<1> QED
  BY <1>3, <1>14 DEF after, active2, r, d, SendOutbound

\* The event handed out is not to follow another of its order.
LEMMA TopFirst ==
  ASSUME NEW q, NEW now, Timely(q, now), Lined(q), NEW e, IsTop(e, q),
         NEW f \in q, f.payload.order_id = e.payload.order_id
  PROVE  ~Follows(f.payload.kind, e.payload.kind)
<1> SUFFICES ASSUME Follows(f.payload.kind, e.payload.kind) PROVE FALSE
  OBVIOUS
<1>1. f # e
  BY DEF Follows
<1>2. Before(e, f) /\ Before(f, e)
  BY <1>1 DEF IsTop, Lined, Matched
<1>3. /\ e.timestamp \in Nat /\ f.timestamp \in Nat
      /\ e.sequence_number \in Nat /\ f.sequence_number \in Nat
  BY DEF Timely, IsEvent, IsTop
<1> QED
  BY <1>2, <1>3 DEF Before

\* An acknowledgement concerns its own order, which has to live on well.
LEMMA Hears ==
  ASSUME NEW orders, NEW active, NEW q, NEW x, NEW now, Whole(orders, active, q, x, now),
         NEW e \in q, NEW id, id = e.payload.order_id,
         e.payload.kind \notin {"Create", "Cancel"},
         NEW later \in Nat, later >= now, NEW after, NEW active2,
         Tabled(after), DOMAIN after = DOMAIN orders,
         \A i \in DOMAIN orders : i # id => after[i] = orders[i],
         SameTerms(after[id], orders[id]),
         active2 = [side \in Sides |-> active2[side]],
         \A side \in Sides : \/ active2[side] = active[side]
                             \/ active[side] = id /\ active2[side] = NoOrder,
         LifeOK(View(after, active2, q \ {e}, x, id))
  PROVE  Whole(after, active2, q \ {e}, x, later)
<1> DEFINE r == q \ {e}
<1>1. id \in DOMAIN orders
  BY DEF Whole, IsPayload
<1>2. Timely(r, later) /\ Lined(r)
  BY QueueTakes DEF Whole
<1>3. /\ Of(r, "Create", id) \subseteq Of(q, "Create", id)
      /\ Of(q, "Cancel", id) \subseteq Of(r, "Cancel", id)
  BY DEF Of
<1>4. /\ \A f \in r : f \in q \/ (f.payload.order_id = id /\ IsPayload(f.payload, orders))
      /\ \A f \in q : f \in r \/ f.payload.order_id = id
  OBVIOUS
<1>5. \A i \in DOMAIN orders :
        i < id /\ orders[i].side = orders[id].side /\ Of(q, "Create", i) # {} =>
          Remaining(x, orders[id].side, id) = 0
  BY <1>1 DEF Whole, Succeeds
<1>6. /\ x = [side \in Sides |-> x[side]]
      /\ \A side \in Sides : Stands(x[side], side, orders)
  BY DEF Whole
<1> HIDE DEF r
<1>7. LifeOK(View(after, active2, r, x, id))
  BY DEF r
<1>8. Whole(after, active2, r, x, later)
  BY <1>1, <1>2, <1>3, <1>4, <1>5, <1>6, <1>7, OneMoves
<1> QED
  BY <1>8 DEF r

\* The view of an order that was restated, and of its events.
LEMMA ViewRestated ==
  ASSUME NEW orders, NEW after, NEW id, NEW active, NEW active2, NEW q, NEW r, NEW x, NEW y,
         NEW status, NEW filled, after[id] = Restate(orders[id], status, filled),
         NEW v, v = View(orders, active, q, x, id),
         NEW w, w = View(after, active2, r, y, id)
  PROVE  /\ Changes(v, w, status, filled) /\ v.order = orders[id]
         /\ v.flying = Underway(q, id) /\ w.flying = Underway(r, id)
         /\ v.filling = Filling(q, id) /\ w.filling = Filling(r, id)
         /\ v.resting = Remaining(x, orders[id].side, id)
         /\ w.resting = Remaining(y, orders[id].side, id)
         /\ v.trackers = Trackers(active, id)
         /\ w.trackers = Trackers(active2, id)
<1>1. after[id].side = orders[id].side
  BY DEF Restate
<1>2. /\ v.order = orders[id] /\ w.order = after[id]
      /\ v.flying = Underway(q, id) /\ w.flying = Underway(r, id)
      /\ v.filling = Filling(q, id) /\ w.filling = Filling(r, id)
      /\ v.resting = Remaining(x, orders[id].side, id)
      /\ w.resting = Remaining(y, after[id].side, id)
      /\ v.trackers = Trackers(active, id)
      /\ w.trackers = Trackers(active2, id)
  BY DEF View
<1>3. Changes(v, w, status, filled)
  BY <1>2 DEF Changes
<1> QED
  BY <1>1, <1>2, <1>3

\* The acknowledgement of an order makes it live.
LEMMA HearsCreate ==
  ASSUME NEW orders, NEW active, NEW q, NEW x, NEW now, Whole(orders, active, q, x, now),
         NEW e, IsTop(e, q), e.payload.kind = "AckCreate", NEW id, id = e.payload.order_id,
         NEW later \in Nat, later >= now
  PROVE  /\ id \in DOMAIN orders /\ orders[id].status \notin Terminal
         /\ Whole([orders EXCEPT ![id] = Restate(orders[id], "LIVE", orders[id].filled_qty)],
                  active, q \ {e}, x, later)
<1> DEFINE r == q \ {e}
           filled == orders[id].filled_qty
           after == [orders EXCEPT ![id] = Restate(orders[id], "LIVE", filled)]
           v == View(orders, active, q, x, id)
           w == View(after, active, r, x, id)
<1>1. e \in q /\ id \in DOMAIN orders /\ Tabled(orders) /\ Lined(q) /\ LifeOK(v)
  BY DEF IsTop, Whole, IsPayload
<1>2. filled \in Nat /\ "LIVE" \in Status
  <2>1. orders[id] \in OrderType
    BY <1>1 DEF Tabled
  <2> QED
    BY <2>1 DEF OrderType, Status, Open
<1> HIDE DEF filled
<1>3. /\ Tabled(after) /\ DOMAIN after = DOMAIN orders
      /\ \A i \in DOMAIN orders : i # id => after[i] = orders[i]
      /\ after[id] = Restate(orders[id], "LIVE", filled)
      /\ SameTerms(after[id], orders[id])
  BY <1>1, <1>2, TableRestated
<1>4. v = View(orders, active, q, x, id) /\ w = View(after, active, r, x, id)
  OBVIOUS
<1> HIDE DEF after, v, w, r
<1>5. /\ Changes(v, w, "LIVE", filled) /\ v.order = orders[id]
      /\ v.flying = Underway(q, id) /\ w.flying = Underway(r, id)
      /\ v.filling = Filling(q, id) /\ w.filling = Filling(r, id)
      /\ v.resting = Remaining(x, orders[id].side, id)
      /\ w.resting = Remaining(x, orders[id].side, id)
      /\ v.trackers = Trackers(active, id)
      /\ w.trackers = Trackers(active, id)
  BY <1>3, <1>4, ViewRestated
<1>6. Changes(v, w, "LIVE", v.order.filled_qty)
  BY <1>5 DEF filled
<1>7. "AckCreate" \in Underway(q, id) /\ "AckCreate" \in Kinds
  BY <1>1 DEF Underway, Of, Kinds
<1>8. Underway(r, id) = Underway(q, id) \ {"AckCreate"} /\ Filling(r, id) = Filling(q, id)
  <2>1. Takes(q, e, r) /\ Is(e, "AckCreate", id)
    BY <1>1 DEF Takes, Is, r
  <2>2. Loses(q, r, "AckCreate", id)
    BY <1>1, <1>7, <2>1, FlyingTakes
  <2> QED
    BY <2>2 DEF Filling, Loses
<1>9. LifeOK(w)
  <2>1. /\ LifeOK(v) /\ "AckCreate" \in v.flying
        /\ w.flying = v.flying \ {"AckCreate"}
        /\ w.filling = v.filling /\ w.resting = v.resting /\ w.trackers = v.trackers
    BY <1>1, <1>5, <1>7, <1>8
  <2> QED
    BY <1>6, <2>1, LifeLive
<1>10. v.order.status \notin Terminal
  BY <1>1, <1>5, <1>7 DEF LifeOK, Terminal
<1>11. active = [side \in Sides |-> active[side]]
  BY DEF Whole, TracksOwn
<1>12. LifeOK(View(after, active, q \ {e}, x, id))
  BY <1>4, <1>9 DEF r
<1>13. Whole(after, active, q \ {e}, x, later)
  BY <1>1, <1>3, <1>11, <1>12, Hears
<1> QED
  BY <1>1, <1>5, <1>10, <1>13 DEF after, filled

\* The sides without an order.
Untracked(active, id) == [side \in Sides |-> IF active[side] = id THEN NoOrder ELSE active[side]]

\* They track what they tracked, the order apart.
LEMMA UntrackedIs ==
  ASSUME NEW active, NEW id, id # NoOrder
  PROVE  LET active2 == Untracked(active, id)
         IN  /\ active2 = [side \in Sides |-> active2[side]]
             /\ \A side \in Sides : \/ active2[side] = active[side]
                                    \/ active[side] = id /\ active2[side] = NoOrder
             /\ Trackers(active2, id) = {}
  BY DEF Untracked, Trackers

\* What the whole says of an event's order.
LEMMA EventOrder ==
  ASSUME NEW orders, NEW active, NEW q, NEW x, NEW now, Whole(orders, active, q, x, now),
         NEW e \in q, NEW id, id = e.payload.order_id
  PROVE  /\ id \in DOMAIN orders /\ id # NoOrder /\ orders[id] \in OrderType
         /\ LifeOK(View(orders, active, q, x, id))
         /\ \A f \in Of(q, "AckFill", id) : f.payload.filled_qty \in Nat \ {0}
<1>1. id \in DOMAIN orders
  BY DEF Whole, IsPayload
<1>2. orders \in Seq(OrderType)
  BY DEF Whole, Tabled
<1>3. id # NoOrder /\ orders[id] \in OrderType
  BY <1>1, <1>2 DEF NoOrder
<1>4. ASSUME NEW f \in Of(q, "AckFill", id) PROVE f.payload.filled_qty \in Nat \ {0}
  <2>1. f \in q /\ f.payload.kind = "AckFill" /\ IsPayload(f.payload, orders)
    BY DEF Of, Whole
  <2> DEFINE p == f.payload
  <2> HIDE DEF p
  <2>2. IsPayload(p, orders) /\ p.kind = "AckFill"
    BY <2>1 DEF p
  <2>3. p.filled_qty \in Nat \ {0}
    BY <2>2 DEF IsPayload, Create, Cancel, AckCreate, AckCancel
  <2> QED
    BY <2>3 DEF p
<1> QED
  BY <1>1, <1>3, <1>4 DEF Whole

\* The status of an order whose cancel is acknowledged.
Ends(o, status) == status = IF o.status = "FILLED" THEN "FILLED" ELSE "CANCELLED"

\* An order that is about to be cancelled has not come to another end.
AtMostFilled(o) == o.status \in Terminal => o.status = "FILLED"

\* What is filled of an order after a fill of k, and its status.
Books(o, k, filled, status) ==
  /\ filled = o.filled_qty + k
  /\ status = IF filled = o.qty THEN "FILLED" ELSE "PARTIALLY_FILLED"

\* The orders tracked when order id has that status.
Forgets(active, id, status, active2) ==
  active2 = IF status = "FILLED" THEN Untracked(active, id) ELSE active

\* The acknowledgement of a cancel is the last of its order, which is cancelled,
\* or stays filled, and is tracked no more.
LEMMA HearsCancel ==
  ASSUME NEW orders, NEW active, NEW q, NEW x, NEW now, Whole(orders, active, q, x, now),
         NEW e, IsTop(e, q), e.payload.kind = "AckCancel", NEW id, id = e.payload.order_id,
         NEW later \in Nat, later >= now, NEW status, Ends(orders[id], status)
  PROVE  /\ id \in DOMAIN orders /\ AtMostFilled(orders[id])
         /\ Whole([orders EXCEPT ![id] = Restate(orders[id], status, orders[id].filled_qty)],
                  Untracked(active, id), q \ {e}, x, later)
<1> DEFINE r == q \ {e}
           filled == orders[id].filled_qty
           after == [orders EXCEPT ![id] = Restate(orders[id], status, filled)]
           active2 == Untracked(active, id)
           v == View(orders, active, q, x, id)
           w == View(after, active2, r, x, id)
<1>1. e \in q /\ Tabled(orders) /\ Lined(q) /\ Timely(q, now)
  BY DEF IsTop, Whole
<1>2. id \in DOMAIN orders /\ id # NoOrder /\ orders[id] \in OrderType /\ LifeOK(v)
  BY <1>1, EventOrder
<1>3. filled \in Nat /\ status \in Status
  BY <1>2 DEF OrderType, Status, Terminal, Ends
<1> HIDE DEF filled
<1>4. /\ Tabled(after) /\ DOMAIN after = DOMAIN orders
      /\ \A i \in DOMAIN orders : i # id => after[i] = orders[i]
      /\ after[id] = Restate(orders[id], status, filled)
      /\ SameTerms(after[id], orders[id])
  BY <1>1, <1>2, <1>3, TableRestated
<1>5. /\ active2 = [side \in Sides |-> active2[side]]
      /\ \A side \in Sides : \/ active2[side] = active[side]
                             \/ active[side] = id /\ active2[side] = NoOrder
      /\ Trackers(active2, id) = {}
  BY <1>2, UntrackedIs
<1>6. v = View(orders, active, q, x, id) /\ w = View(after, active2, r, x, id)
  OBVIOUS
<1> HIDE DEF after, v, w, r, active2
<1>7. /\ Changes(v, w, status, filled) /\ v.order = orders[id]
      /\ v.flying = Underway(q, id) /\ w.flying = Underway(r, id)
      /\ v.filling = Filling(q, id) /\ w.filling = Filling(r, id)
      /\ v.resting = Remaining(x, orders[id].side, id)
      /\ w.resting = Remaining(x, orders[id].side, id)
      /\ w.trackers = Trackers(active2, id)
  BY <1>4, <1>6, ViewRestated
<1>8. IF v.order.status = "FILLED" THEN w.order = v.order
      ELSE Changes(v, w, "CANCELLED", v.order.filled_qty)
  BY <1>2, <1>7 DEF Changes, Restate, filled, OrderType, Ends
<1>9. /\ "AckCancel" \in Underway(q, id) /\ "AckCancel" \in Kinds
      /\ Underway(q, id) \subseteq Kinds
  BY <1>1 DEF Underway, Of, Kinds
<1>10. Underway(r, id) = Underway(q, id) \ {"AckCancel"} /\ Filling(r, id) = Filling(q, id)
  <2>1. Takes(q, e, r) /\ Is(e, "AckCancel", id)
    BY <1>1 DEF Takes, Is, r
  <2>2. Loses(q, r, "AckCancel", id)
    BY <1>1, <1>9, <2>1, FlyingTakes
  <2> QED
    BY <2>2 DEF Filling, Loses
<1>11. Of(q, "AckCreate", id) = {} /\ Of(q, "AckFill", id) = {}
  <2>1. \A f \in q : f.payload.order_id = id => ~Follows(f.payload.kind, "AckCancel")
    BY <1>1, TopFirst
  <2> QED
    BY <2>1 DEF Of, Follows
<1>12. "AckCreate" \notin Underway(q, id) /\ Filling(q, id) = 0
  <2>1. IsFiniteSet(q)
    BY <1>1 DEF Timely
  <2>2. Filling(q, id) = 0
    BY <1>11, <2>1, FillingType
  <2> QED
    BY <1>11, <2>2 DEF Underway
<1>13. LifeOK(w)
  <2>1. /\ LifeOK(v) /\ "AckCancel" \in v.flying /\ "AckCreate" \notin v.flying
        /\ v.filling = 0 /\ w.flying = v.flying \ {"AckCancel"} /\ v.flying \subseteq Kinds
        /\ w.filling = v.filling /\ w.resting = v.resting /\ w.trackers = {}
    BY <1>2, <1>5, <1>7, <1>9, <1>10, <1>12
  <2> QED
    BY <1>8, <2>1, LifeCancelled
<1>14. AtMostFilled(v.order)
  BY <1>2, <1>7, <1>9 DEF LifeOK, Terminal, AtMostFilled
<1>15. LifeOK(View(after, active2, q \ {e}, x, id))
  BY <1>6, <1>13 DEF r
<1>16. Whole(after, active2, q \ {e}, x, later)
  BY <1>1, <1>4, <1>5, <1>15, Hears
<1> QED
  BY <1>2, <1>7, <1>14, <1>16 DEF after, filled, active2

\* A fill is booked on its order, which is alive and has room for it; an order that
\* is filled is tracked no more.
LEMMA HearsFill ==
  ASSUME NEW orders, NEW active, NEW q, NEW x, NEW now, Whole(orders, active, q, x, now),
         NEW e, IsTop(e, q), e.payload.kind = "AckFill", NEW id, id = e.payload.order_id,
         NEW later \in Nat, later >= now, NEW k, k = e.payload.filled_qty,
         NEW filled, NEW status, Books(orders[id], k, filled, status),
         NEW active2, Forgets(active, id, status, active2)
  PROVE  /\ id \in DOMAIN orders /\ k \in Nat \ {0}
         /\ orders[id].status \in {"LIVE", "PARTIALLY_FILLED", "PENDING_CANCEL"}
         /\ k <= orders[id].qty - orders[id].filled_qty
         /\ Whole([orders EXCEPT ![id] = Restate(orders[id], status, filled)],
                  active2, q \ {e}, x, later)
<1> DEFINE r == q \ {e}
           after == [orders EXCEPT ![id] = Restate(orders[id], status, filled)]
           v == View(orders, active, q, x, id)
           w == View(after, active2, r, x, id)
<1>1. e \in q /\ Tabled(orders) /\ Lined(q) /\ Timely(q, now) /\ e \in Of(q, "AckFill", id)
  BY DEF IsTop, Whole, Of
<1>2. /\ id \in DOMAIN orders /\ id # NoOrder /\ orders[id] \in OrderType /\ LifeOK(v)
      /\ k \in Nat \ {0} /\ \A f \in Of(q, "AckFill", id) : f.payload.filled_qty \in Nat
  BY <1>1, EventOrder
<1>3. filled \in Nat /\ status \in Status
  <2>1. orders[id].filled_qty \in Nat
    BY <1>2 DEF OrderType
  <2> QED
    BY <1>2, <2>1 DEF Status, Terminal, Open, Books
<1>4. /\ Tabled(after) /\ DOMAIN after = DOMAIN orders
      /\ \A i \in DOMAIN orders : i # id => after[i] = orders[i]
      /\ after[id] = Restate(orders[id], status, filled)
      /\ SameTerms(after[id], orders[id])
  BY <1>1, <1>2, <1>3, TableRestated
<1>5. /\ active2 = [side \in Sides |-> active2[side]]
      /\ \A side \in Sides : \/ active2[side] = active[side]
                             \/ active[side] = id /\ active2[side] = NoOrder
      /\ Trackers(active2, id) = IF status = "FILLED" THEN {} ELSE Trackers(active, id)
  <2>1. /\ active = [side \in Sides |-> active[side]]
        /\ LET a == Untracked(active, id)
           IN  /\ a = [side \in Sides |-> a[side]]
               /\ \A side \in Sides : \/ a[side] = active[side]
                                      \/ active[side] = id /\ a[side] = NoOrder
               /\ Trackers(a, id) = {}
    BY <1>2, UntrackedIs DEF Whole, TracksOwn
  <2>2. CASE status = "FILLED"
    BY <2>1, <2>2 DEF Forgets
  <2>3. CASE status # "FILLED"
    BY <2>1, <2>3 DEF Forgets
  <2> QED
    BY <2>2, <2>3
<1>6. v = View(orders, active, q, x, id) /\ w = View(after, active2, r, x, id)
  OBVIOUS
<1> HIDE DEF after, v, w, r
<1>7. /\ Changes(v, w, status, filled) /\ v.order = orders[id]
      /\ v.flying = Underway(q, id) /\ w.flying = Underway(r, id)
      /\ v.filling = Filling(q, id) /\ w.filling = Filling(r, id)
      /\ v.resting = Remaining(x, orders[id].side, id)
      /\ w.resting = Remaining(x, orders[id].side, id)
      /\ v.trackers = Trackers(active, id) /\ w.trackers = Trackers(active2, id)
  BY <1>4, <1>6, ViewRestated, SMTT(60)
<1>8. /\ Changes(v, w, status, v.order.filled_qty + k)
      /\ status = IF v.order.filled_qty + k = v.order.qty THEN "FILLED" ELSE "PARTIALLY_FILLED"
  BY <1>7 DEF Books
<1>9. Underway(r, id) = Underway(q, id)
  <2>1. Takes(q, e, r) /\ Is(e, "AckFill", id)
    BY <1>1 DEF Takes, Is, r
  <2> QED
    BY <1>1, <2>1, FlyingTakes
<1>10. /\ Filling(q, id) = k + Filling(r, id)
       /\ Filling(r, id) \in Nat /\ k <= Filling(q, id)
       /\ Filling(r, id) = Filling(q, id) - k
  <2>1. IsFiniteSet(q)
    BY <1>1 DEF Timely
  <2>2. Filling(q, id) = k + Filling(r, id) /\ Filling(r, id) \in Nat
    BY <1>1, <1>2, <2>1, FillingTakes DEF r
  <2> QED
    BY <1>2, <2>2
<1>11. "AckCreate" \notin Underway(q, id)
  <2>1. \A f \in q : f.payload.order_id = id => ~Follows(f.payload.kind, "AckFill")
    BY <1>1, TopFirst
  <2> QED
    BY <2>1 DEF Of, Follows, Underway
<1>12. /\ v.order.status \in {"LIVE", "PARTIALLY_FILLED", "PENDING_CANCEL"}
       /\ k <= v.order.qty - v.order.filled_qty
       /\ LifeOK(w)
  <2>1. /\ LifeOK(v) /\ "AckCreate" \notin v.flying /\ k \in Nat \ {0} /\ k <= v.filling
        /\ w.flying = v.flying /\ w.filling = v.filling - k
        /\ w.resting = v.resting
        /\ w.trackers = IF status = "FILLED" THEN {} ELSE v.trackers
    BY <1>2, <1>5, <1>7, <1>9, <1>10, <1>11
  <2> QED
    BY <1>8, <2>1, LifeFilled
<1>13. LifeOK(View(after, active2, q \ {e}, x, id))
  BY <1>6, <1>12 DEF r
<1>14. Whole(after, active2, q \ {e}, x, later)
  BY <1>1, <1>4, <1>5, <1>13, Hears
<1> QED
  BY <1>2, <1>7, <1>12, <1>14 DEF after

---------------------------------------------------------------------------
(* What the exchange does to one order. *)

\* The order's side and limit.
HasTerms(orders, id, side, price) == orders[id].side = side /\ orders[id].price = price

\* On this side there is nothing, or the order.
IsAbout(x, side, id, price) ==
  \/ x[side] = <<>>
  \/ \E total \in Words, ahead \in Words, n \in Nat \ {0} :
       x[side] = Sole(id, price, total, ahead, n)

\* The exchange has changed on this side, or nowhere.
SameElsewhere(x, y, side) ==
  /\ y = [s \in Sides |-> y[s]]
  /\ \A s \in Sides : s # side => y[s] = x[s]

\* The network has changed in the events of the order only.
Concerns(q, r, id, orders) ==
  /\ \A f \in r : f \in q \/ (f.payload.order_id = id /\ IsPayload(f.payload, orders))
  /\ \A f \in q : f \in r \/ f.payload.order_id = id

\* What remains of an order on a side that has nothing, or one order.
LEMMA RemainingOf ==
  ASSUME NEW x, NEW side, NEW id
  PROVE  /\ x[side] = <<>> => Remaining(x, side, id) = 0
         /\ \A k, price, total, ahead, n : x[side] = Sole(k, price, total, ahead, n) =>
              Remaining(x, side, id) = IF k = id THEN n ELSE 0
<1>1. ASSUME NEW k, NEW price, NEW total, NEW ahead, NEW n,
             x[side] = Sole(k, price, total, ahead, n)
      PROVE  Remaining(x, side, id) = IF k = id THEN n ELSE 0
  <2> DEFINE o == [order_id |-> k, qty_ahead |-> ahead, remaining_qty |-> n]
             level == [price |-> price, total_qty_ahead |-> total, orders |-> <<o>>]
  <2>1. x[side] = <<level>> /\ level.orders = <<o>> /\ o.order_id = k /\ o.remaining_qty = n
    BY <1>1 DEF Sole
  <2> HIDE DEF o, level
  <2>2. x[side] # <<>> /\ x[side][1] = level /\ level.orders[1] = o
    BY <2>1, Indices
  <2>3. x[side][1].orders[1].order_id = k /\ x[side][1].orders[1].remaining_qty = n
    BY <2>1, <2>2
  <2> QED
    BY <2>2, <2>3 DEF Remaining
<1> QED
  BY <1>1 DEF Remaining

\* On a side that has nothing but the order, nothing remains of the others.
LEMMA AboutOne ==
  ASSUME NEW x, NEW side, NEW id, NEW price, IsAbout(x, side, id, price),
         NEW i, i # id
  PROVE  Remaining(x, side, i) = 0
<1>1. CASE x[side] = <<>>
  BY <1>1, RemainingOf
<1>2. CASE x[side] # <<>>
  <2>1. PICK total \in Words, ahead \in Words, n \in Nat \ {0} :
               x[side] = Sole(id, price, total, ahead, n)
    BY <1>2 DEF IsAbout
  <2>2. Remaining(x, side, i) = IF id = i THEN n ELSE 0
    BY <2>1, RemainingOf
  <2> QED
    BY <2>2
<1> QED
  BY <1>1, <1>2

\* The exchange takes in, fills or lets go of an order, and tells the network.
LEMMA Trades ==
  ASSUME NEW orders, NEW active, NEW q, NEW x, NEW now, Whole(orders, active, q, x, now),
         NEW id \in DOMAIN orders, NEW side, NEW price, HasTerms(orders, id, side, price),
         NEW r, NEW y, NEW later \in Nat, Timely(r, later), Lined(r),
         Concerns(q, r, id, orders), Of(r, "Create", id) \subseteq Of(q, "Create", id),
         \/ Of(q, "Cancel", id) \subseteq Of(r, "Cancel", id)
         \/ Remaining(y, side, id) = 0 /\ Of(r, "Create", id) = {},
         SameElsewhere(x, y, side),
         y[side] = x[side] \/ (IsAbout(x, side, id, price) /\ IsAbout(y, side, id, price)),
         Remaining(y, side, id) > 0 => Remaining(x, side, id) > 0 \/ Of(q, "Create", id) # {},
         \A i \in DOMAIN orders :
           i < id /\ orders[i].side = side /\ Of(q, "Create", i) # {} =>
             Remaining(y, side, id) = 0,
         LifeOK(View(orders, active, r, y, id))
  PROVE  Whole(orders, active, r, y, later)
<1>1. Tabled(orders) /\ SameTerms(orders[id], orders[id]) /\ orders[id] \in OrderType
      /\ active = [s \in Sides |-> active[s]]
  BY DEF Whole, SameTerms, TracksOwn, Tabled
<1>2. orders[id].side = side /\ orders[id].price = price
  BY DEF HasTerms
<1>3. ASSUME NEW s \in Sides PROVE Stands(y[s], s, orders)
  <2>1. Stands(x[s], s, orders)
    BY DEF Whole
  <2>2. CASE y[s] = x[s]
    BY <2>1, <2>2
  <2>3. CASE y[s] # x[s]
    <3>1. s = side /\ IsAbout(y, side, id, price)
      BY <2>3 DEF SameElsewhere
    <3> QED
      BY <1>2, <3>1 DEF IsAbout, Stands
  <2> QED
    BY <2>2, <2>3
<1>4. ASSUME NEW i \in DOMAIN orders, i # id
      PROVE  Remaining(y, orders[i].side, i) = Remaining(x, orders[i].side, i)
  <2>1. orders[i].side \in Sides
    <3>1. orders[i] \in OrderType
      BY <1>1 DEF Tabled
    <3> QED
      BY <3>1 DEF OrderType
  <2>2. CASE y[orders[i].side] = x[orders[i].side]
    BY <2>2 DEF Remaining
  <2>3. CASE y[orders[i].side] # x[orders[i].side]
    <3>1. /\ orders[i].side = side
          /\ IsAbout(x, side, id, price) /\ IsAbout(y, side, id, price)
      BY <2>1, <2>3 DEF SameElsewhere
    <3>2. Remaining(x, side, i) = 0 /\ Remaining(y, side, i) = 0
      BY <1>4, <3>1, AboutOne
    <3> QED
      BY <3>1, <3>2
  <2> QED
    BY <2>2, <2>3
<1>5. /\ \A i \in DOMAIN orders : i # id => orders[i] = orders[i]
      /\ \A s \in Sides : active[s] = active[s] \/ (active[s] = id /\ active[s] = NoOrder)
  OBVIOUS
<1>6. y = [s \in Sides |-> y[s]]
  BY DEF SameElsewhere
<1>7. /\ \A f \in r : f \in q \/ (f.payload.order_id = id /\ IsPayload(f.payload, orders))
      /\ \A f \in q : f \in r \/ f.payload.order_id = id
  BY DEF Concerns
<1> QED
  BY <1>1, <1>2, <1>3, <1>4, <1>5, <1>6, <1>7, OneMoves

\* The exchange side of an order that arrives is empty: the order before it has been
\* filled, or its cancel has been here.
LEMMA SideIsFree ==
  ASSUME NEW orders, NEW active, NEW q, NEW x, NEW now, Whole(orders, active, q, x, now),
         NEW e, IsTop(e, q), e.payload.kind = "Create", NEW id, id = e.payload.order_id
  PROVE  /\ x[orders[id].side] = <<>> /\ ~VX!Knows(x, id)
         /\ \A i \in DOMAIN orders : i < id /\ orders[i].side = orders[id].side =>
              Of(q, "Create", i) = {}
<1> DEFINE side == orders[id].side
           v == View(orders, active, q, x, id)
<1>1. e \in q /\ e \in Of(q, "Create", id) /\ Timely(q, now)
  BY DEF IsTop, Of, Whole
<1>2. id \in DOMAIN orders /\ orders[id] \in OrderType /\ LifeOK(v)
  BY <1>1, EventOrder
<1>3. side \in Sides /\ DOMAIN orders \subseteq Int
  BY <1>2 DEF OrderType, Whole, Tabled
<1>4. Remaining(x, side, id) = 0
  <2>1. "Create" \in v.flying /\ v.resting = Remaining(x, side, id)
    BY <1>1, ViewIs DEF Kinds
  <2> HIDE DEF v, side
  <2> QED
    BY <1>2, <2>1 DEF LifeOK, OrderType
<1>6. ASSUME NEW i \in DOMAIN orders, NEW c \in Of(q, "Cancel", i), Before(c, e) PROVE FALSE
  <2>1. c \in q /\ c # e
    BY DEF Of
  <2>2. Before(e, c)
    BY <2>1 DEF IsTop
  <2>3. /\ e.timestamp \in Nat /\ c.timestamp \in Nat
        /\ e.sequence_number \in Nat /\ c.sequence_number \in Nat
    BY <1>1, <2>1 DEF Timely, IsEvent
  <2> QED
    BY <1>6, <2>2, <2>3 DEF Before
<1>7. ASSUME NEW i \in DOMAIN orders, i < id, orders[i].side = side
      PROVE  Of(q, "Create", i) = {} /\ ~(Remaining(x, side, i) > 0)
  <2>1. Succeeds(orders, q, x, i, id)
    BY <1>2 DEF Whole
  <2> QED
    BY <1>1, <1>6, <1>7, <2>1 DEF Succeeds
<1>8. ASSUME NEW i \in DOMAIN orders, id < i, orders[i].side = side
      PROVE  Remaining(x, side, i) = 0
  <2>1. Succeeds(orders, q, x, id, i)
    BY <1>2 DEF Whole
  <2> QED
    BY <1>1, <1>8, <2>1 DEF Succeeds
<1>9. x[side] = <<>>
  <2> SUFFICES ASSUME x[side] # <<>> PROVE FALSE
    OBVIOUS
  <2>1. Stands(x[side], side, orders)
    BY <1>3 DEF Whole
  <2>2. PICK i \in DOMAIN orders, total \in Words, ahead \in Words, n \in Nat \ {0} :
           /\ orders[i].side = side
           /\ x[side] = Sole(i, orders[i].price, total, ahead, n)
    BY <2>1 DEF Stands
  <2>3. Remaining(x, side, i) = n
    BY <2>2, RemainingOf
  <2>4. i \in Int /\ id \in Int /\ n > 0
    BY <1>2, <1>3
  <2> QED
    BY <1>4, <1>7, <1>8, <2>2, <2>3, <2>4
<1>10. ~VX!Knows(x, id)
  <2> SUFFICES ASSUME NEW s \in {"Bid", "Ask"}, NEW o \in VX!Resting(x, s), o.order_id = id
               PROVE  FALSE
    BY DEF VX!Knows
  <2>1. s # side
    BY <1>9, RestingOne
  <2>2. x[s] # <<>>
    BY RestingOne
  <2>3. Stands(x[s], s, orders)
    BY DEF Whole, Sides
  <2>4. PICK i \in DOMAIN orders, total \in Words, ahead \in Words, n \in Nat \ {0} :
           /\ orders[i].side = s
           /\ x[s] = Sole(i, orders[i].price, total, ahead, n)
    BY <2>2, <2>3 DEF Stands
  <2>5. o.order_id = i
    BY <2>4, RestingOne
  <2> QED
    BY <2>1, <2>4, <2>5
<1> QED
  BY <1>7, <1>9, <1>10

\* The network after an event is answered.
Answered(q, e, later, p, r) == r = SendInbound(q \ {e}, later, p)

\* The exchange takes an event of an order off the network, and acknowledges it.
LEMMA Answers ==
  ASSUME NEW q, NEW now \in Nat, Timely(q, now), Lined(q), NEW later \in Nat, later >= now,
         NEW taken \in Outbound, NEW id, NEW e, e \in q, Is(e, taken, id),
         NEW kind \in {"AckCreate", "AckCancel"}, NEW p, Says(p, kind, id), MayJoin(q, kind, id),
         NEW r, Answered(q, e, later, p, r)
  PROVE  /\ Timely(r, later) /\ Lined(r)
         /\ \A f \in r : f \in q \/ (Is(f, kind, id) /\ f.payload = p)
         /\ \A f \in q : f \in r \/ f = e
         /\ Of(r, "Create", id) = Of(q, "Create", id) \ {e}
         /\ Of(r, "Cancel", id) = Of(q, "Cancel", id) \ {e}
         /\ Underway(r, id) = (Underway(q, id) \ {taken}) \cup {kind}
         /\ Filling(r, id) = Filling(q, id)
<1> DEFINE less == q \ {e}
           d == Sent(less, later, InboundLatency, 0, p)
<1>1. kind \in Kinds /\ taken \in Kinds /\ InboundLatency = Latency(kind)
  BY DEF Kinds, Outbound, Latency
<1>2. Takes(q, e, less) /\ Joined(less, d, r)
  BY DEF Takes, SendInbound, Answered, Joined
<1>3. Sends(less, later, kind, p, d)
  BY <1>1 DEF Sends
<1>4. MayJoin(less, kind, id)
  BY DEF MayJoin, Of
<1> HIDE DEF less, d
<1>5. Timely(less, later) /\ Lined(less) /\ Loses(q, less, taken, id)
  BY <1>1, <1>2, Departs
<1>6. /\ Timely(r, later) /\ Lined(r) /\ d.payload = p /\ Is(d, kind, id)
      /\ d \notin less /\ Gains(less, r, kind, id)
  BY <1>1, <1>2, <1>3, <1>4, <1>5, Joins
<1>7. /\ \A f \in r : f \in q \/ (Is(f, kind, id) /\ f.payload = p)
      /\ \A f \in q : f \in r \/ f = e
  BY <1>2, <1>6 DEF Takes, Joined
<1>8. /\ Of(r, "Create", id) = Of(q, "Create", id) \ {e}
      /\ Of(r, "Cancel", id) = Of(q, "Cancel", id) \ {e}
  BY <1>2, <1>6 DEF Takes, Joined, Of, Is
<1>9. /\ Underway(r, id) = (Underway(q, id) \ {taken}) \cup {kind}
      /\ Of(r, "AckFill", id) = Of(q, "AckFill", id)
  BY <1>5, <1>6 DEF Loses, Gains
<1>10. Filling(r, id) = Filling(q, id)
  BY <1>9 DEF Filling
<1> QED
  BY <1>6, <1>7, <1>8, <1>9, <1>10

\* Where no quantity is in the network, no fill is.
LEMMA NoFills ==
  ASSUME NEW q, IsFiniteSet(q), NEW id, Filling(q, id) = 0,
         \A f \in Of(q, "AckFill", id) : f.payload.filled_qty \in Nat \ {0}
  PROVE  Of(q, "AckFill", id) = {}
<1> SUFFICES ASSUME NEW e \in Of(q, "AckFill", id) PROVE FALSE
  OBVIOUS
<1>1. e.payload.filled_qty \in Nat \ {0}
  OBVIOUS
<1>2. /\ Filling(q \ {e}, id) \in Nat
      /\ Filling(q, id) = e.payload.filled_qty + Filling(q \ {e}, id)
  BY FillingTakes
<1> QED
  BY <1>1, <1>2

\* An order that has not arrived has been touched by nothing.
LEMMA LifeUnborn ==
  ASSUME NEW v, LifeOK(v), "Create" \in v.flying
  PROVE  /\ v.filling = 0 /\ v.resting = 0 /\ v.order.filled_qty = 0 /\ v.order.qty \in Nat \ {0}
         /\ "AckCreate" \notin v.flying /\ "AckCancel" \notin v.flying
BY DEF LifeOK, OrderType, Unresolved, Open

\* On this side is the order, with n of it remaining, and nothing else.
Alone(y, side, id, price, n) ==
  \E total \in Words, ahead \in Words : y[side] = Sole(id, price, total, ahead, n)

\* What Alone says of the order.
LEMMA AloneIs ==
  ASSUME NEW y, NEW side, NEW id, NEW price, NEW n \in Nat \ {0}, Alone(y, side, id, price, n)
  PROVE  Remaining(y, side, id) = n /\ IsAbout(y, side, id, price)
<1>1. PICK total \in Words, ahead \in Words : y[side] = Sole(id, price, total, ahead, n)
  BY DEF Alone
<1>2. Remaining(y, side, id) = n
  BY <1>1, RemainingOf
<1> QED
  BY <1>1, <1>2 DEF IsAbout

\* An order that has arrived rests, whole.
LEMMA Arrived ==
  ASSUME NEW orders, NEW active, NEW q, NEW x, NEW now, Whole(orders, active, q, x, now),
         NEW e, IsTop(e, q), NEW id, Is(e, "Create", id), NEW later \in Nat, later >= now,
         NEW side, NEW price, HasTerms(orders, id, side, price),
         NEW y, SameElsewhere(x, y, side), Alone(y, side, id, price, orders[id].qty),
         NEW r, Answered(q, e, later, AckCreate(id), r)
  PROVE  Whole(orders, active, r, y, later)
<1> DEFINE v == View(orders, active, q, x, id)
           w == View(orders, active, r, y, id)
<1>1. e \in q /\ e \in Of(q, "Create", id) /\ Timely(q, now) /\ Lined(q) /\ now \in Nat
  BY DEF IsTop, Is, Of, Whole
<1>2. /\ id \in DOMAIN orders /\ orders[id] \in OrderType /\ LifeOK(v)
      /\ \A f \in Of(q, "AckFill", id) : f.payload.filled_qty \in Nat \ {0}
  BY <1>1, EventOrder DEF Is
<1>3. orders[id].side = side /\ orders[id].price = price
  BY DEF HasTerms
<1>4. /\ x[side] = <<>>
      /\ \A i \in DOMAIN orders : i < id /\ orders[i].side = side => Of(q, "Create", i) = {}
  BY <1>3, SideIsFree DEF Is
<1>5. /\ v.order = orders[id] /\ v.flying = Underway(q, id) /\ v.filling = Filling(q, id)
      /\ v.trackers = Trackers(active, id)
      /\ w.order = orders[id] /\ w.flying = Underway(r, id) /\ w.filling = Filling(r, id)
      /\ w.resting = Remaining(y, side, id) /\ w.trackers = Trackers(active, id)
  BY <1>3, ViewIs
<1> HIDE DEF v, w
<1>6. "Create" \in Underway(q, id)
  BY <1>1 DEF Underway, Kinds
<1>7. /\ Filling(q, id) = 0 /\ orders[id].qty \in Nat \ {0}
      /\ "AckCreate" \notin Underway(q, id) /\ "AckCancel" \notin Underway(q, id)
  <2>1. "Create" \in v.flying
    BY <1>5, <1>6
  <2>2. /\ v.filling = 0 /\ v.order.qty \in Nat \ {0}
        /\ "AckCreate" \notin v.flying /\ "AckCancel" \notin v.flying
    BY <1>2, <2>1, LifeUnborn
  <2> QED
    BY <1>5, <2>2
<1>8. MayJoin(q, "AckCreate", id)
  <2>1. IsFiniteSet(q)
    BY <1>1 DEF Timely
  <2>2. Of(q, "AckFill", id) = {}
    BY <1>2, <1>7, <2>1, NoFills
  <2>3. Of(q, "AckCreate", id) = {} /\ Of(q, "AckCancel", id) = {}
    BY <1>7 DEF Underway, Kinds
  <2> QED
    BY <2>2, <2>3 DEF Follows, MayJoin
<1>9. /\ Timely(r, later) /\ Lined(r)
      /\ \A f \in r : f \in q \/ (Is(f, "AckCreate", id) /\ f.payload = AckCreate(id))
      /\ \A f \in q : f \in r \/ f = e
      /\ Of(r, "Create", id) = Of(q, "Create", id) \ {e}
      /\ Of(r, "Cancel", id) = Of(q, "Cancel", id) \ {e}
      /\ Underway(r, id) = (Underway(q, id) \ {"Create"}) \cup {"AckCreate"}
      /\ Filling(r, id) = Filling(q, id)
  <2> DEFINE p == AckCreate(id)
  <2>1. Says(p, "AckCreate", id) /\ Answered(q, e, later, p, r) /\ "Create" \in Outbound
    BY DEF Says, AckCreate, Outbound
  <2> HIDE DEF p
  <2>2. /\ Timely(r, later) /\ Lined(r)
        /\ \A f \in r : f \in q \/ (Is(f, "AckCreate", id) /\ f.payload = p)
        /\ \A f \in q : f \in r \/ f = e
        /\ Of(r, "Create", id) = Of(q, "Create", id) \ {e}
        /\ Of(r, "Cancel", id) = Of(q, "Cancel", id) \ {e}
        /\ Underway(r, id) = (Underway(q, id) \ {"Create"}) \cup {"AckCreate"}
        /\ Filling(r, id) = Filling(q, id)
    BY <1>1, <1>8, <2>1, Answers
  <2> QED
    BY <2>2 DEF p
<1>10. Concerns(q, r, id, orders)
  <2>1. IsPayload(AckCreate(id), orders)
    BY <1>2 DEF IsPayload, AckCreate
  <2> QED
    BY <1>9, <2>1 DEF Concerns, Is
<1>11. Remaining(y, side, id) = orders[id].qty /\ IsAbout(y, side, id, price)
  BY <1>7, AloneIs
<1>12. IsAbout(x, side, id, price)
  BY <1>4 DEF IsAbout
<1>13. LifeOK(w)
  <2>1. /\ "Create" \in v.flying /\ w.order = v.order
        /\ w.flying = (v.flying \ {"Create"}) \cup {"AckCreate"}
        /\ w.filling = v.filling /\ w.resting = v.order.qty /\ w.trackers = v.trackers
    BY <1>5, <1>6, <1>9, <1>11
  <2> QED
    BY <1>2, <2>1, LifeArrives
<1>14. LifeOK(View(orders, active, r, y, id))
  BY <1>13 DEF w
<1>15. /\ Of(r, "Create", id) \subseteq Of(q, "Create", id)
       /\ Of(q, "Cancel", id) \subseteq Of(r, "Cancel", id)
  <2>1. e \notin Of(q, "Cancel", id)
    BY DEF Of, Is
  <2> QED
    BY <1>9, <2>1
<1>16. Of(q, "Create", id) # {}
  BY <1>1
<1> QED
  BY <1>2, <1>4, <1>9, <1>10, <1>11, <1>12, <1>14, <1>15, <1>16, Trades

\* An order arrives on a side that is free for it, and rests there, whole.
LEMMA Arrives ==
  ASSUME NEW orders, NEW active, NEW q, NEW x, NEW now, Whole(orders, active, q, x, now),
         NEW e, IsTop(e, q), NEW id, Is(e, "Create", id), NEW later \in Nat, later >= now,
         NEW shown \in Int, NEW r, Answered(q, e, later, AckCreate(id), r)
  PROVE  /\ ~VX!Knows(x, id)
         /\ Whole(orders, active, r, VX!OnCreateOrder(x, e.payload, shown), later)
<1> DEFINE side  == orders[id].side
           price == orders[id].price
           qty   == orders[id].qty
           y     == VX!OnCreateOrder(x, e.payload, shown)
<1>1. e \in q /\ e.payload.order_id = id /\ e.payload.kind = "Create"
  BY DEF IsTop, Is
<1>2. id \in DOMAIN orders /\ orders[id] \in OrderType
  BY <1>1, EventOrder
<1>3. x[side] = <<>> /\ ~VX!Knows(x, id)
  BY <1>1, SideIsFree
<1>4. /\ e.payload.side = side /\ e.payload.price = price /\ e.payload.qty = qty
  <2>1. IsPayload(e.payload, orders)
    BY <1>1 DEF Whole
  <2>2. e.payload = Create(id, price, qty, side)
    BY <1>1, <2>1 DEF IsPayload, Cancel, AckCreate, AckCancel, AckFill
  <2> QED
    BY <2>2 DEF Create
<1>5. side \in Sides /\ HasTerms(orders, id, side, price) /\ x = [s \in Sides |-> x[s]]
  BY <1>2 DEF OrderType, HasTerms, Whole
<1> DEFINE p == e.payload
<1> HIDE DEF side, price, qty, p
<1>6. p.side = side /\ p.order_id = id /\ p.price = price /\ p.qty = qty /\ x[p.side] = <<>>
  BY <1>1, <1>3, <1>4 DEF p
<1>7. PICK t \in Words, a \in Words :
        VX!OnCreateOrder(x, p, shown) = [x EXCEPT ![p.side] = Sole(p.order_id, p.price, t, a, p.qty)]
  BY <1>6, CreateOnEmpty, ZenonT(40)
<1>8. y = [x EXCEPT ![side] = Sole(id, price, t, a, qty)]
  BY <1>6, <1>7 DEF p
<1> DEFINE here == Sole(id, price, t, a, qty)
<1> HIDE DEF here, y
<1>9. y[side] = here /\ SameElsewhere(x, y, side)
  <2>1. y = [x EXCEPT ![side] = here]
    BY <1>8 DEF here
  <2> QED
    BY <1>5, <2>1 DEF SameElsewhere
<1>10. Alone(y, side, id, price, qty)
  BY <1>9 DEF here, Alone
<1>11. Alone(y, side, id, price, orders[id].qty)
  BY <1>10 DEF qty
<1>12. Whole(orders, active, r, y, later)
  BY <1>5, <1>9, <1>11, Arrived
<1> QED
  BY <1>3, <1>12 DEF y

\* The exchange lets go of an order, or has none to let go of.
LEMMA Leaves ==
  ASSUME NEW orders, NEW active, NEW q, NEW x, NEW now, Whole(orders, active, q, x, now),
         NEW e, IsTop(e, q), NEW id, Is(e, "Cancel", id), NEW later \in Nat, later >= now,
         NEW r, Answered(q, e, later, AckCancel(id), r)
  PROVE  Whole(orders, active, r, VX!OnCancelOrder(x, id), later)
<1> DEFINE side  == orders[id].side
           price == orders[id].price
           y == VX!OnCancelOrder(x, id)
           v == View(orders, active, q, x, id)
           w == View(orders, active, r, y, id)
<1>1. e \in q /\ e \in Of(q, "Cancel", id) /\ Timely(q, now) /\ Lined(q) /\ now \in Nat
  BY DEF IsTop, Is, Of, Whole
<1>2. /\ id \in DOMAIN orders /\ orders[id] \in OrderType /\ LifeOK(v)
  BY <1>1, EventOrder DEF Is
<1>3. side \in Sides /\ HasTerms(orders, id, side, price)
  BY <1>2 DEF OrderType, HasTerms
<1>4. Of(q, "Create", id) = {}
  <2>1. e.payload.order_id = id /\ e.payload.kind = "Cancel"
    BY DEF Is
  <2>2. \A f \in q : f.payload.order_id = id => ~Follows(f.payload.kind, "Cancel")
    BY <1>1, <2>1, TopFirst
  <2> QED
    BY <2>2 DEF Of, Follows
<1>5. /\ v.order = orders[id] /\ v.flying = Underway(q, id) /\ v.filling = Filling(q, id)
      /\ v.trackers = Trackers(active, id)
      /\ w.order = orders[id] /\ w.flying = Underway(r, id) /\ w.filling = Filling(r, id)
      /\ w.resting = Remaining(y, side, id) /\ w.trackers = Trackers(active, id)
  BY ViewIs
<1> HIDE DEF v, w
<1>6. "Cancel" \in Underway(q, id) /\ "Create" \notin Underway(q, id)
  BY <1>1, <1>4 DEF Underway, Kinds
<1>7. MayJoin(q, "AckCancel", id)
  <2>1. "Cancel" \in v.flying
    BY <1>5, <1>6
  <2>2. "AckCancel" \notin v.flying
    BY <1>2, <2>1 DEF LifeOK
  <2>3. Of(q, "AckCancel", id) = {}
    BY <1>5, <2>2 DEF Underway, Kinds
  <2> QED
    BY <2>3 DEF Follows, MayJoin
<1>8. /\ Timely(r, later) /\ Lined(r)
      /\ \A f \in r : f \in q \/ (Is(f, "AckCancel", id) /\ f.payload = AckCancel(id))
      /\ \A f \in q : f \in r \/ f = e
      /\ Of(r, "Create", id) = Of(q, "Create", id) \ {e}
      /\ Underway(r, id) = (Underway(q, id) \ {"Cancel"}) \cup {"AckCancel"}
      /\ Filling(r, id) = Filling(q, id)
  <2> DEFINE p == AckCancel(id)
  <2>1. Says(p, "AckCancel", id) /\ Answered(q, e, later, p, r) /\ "Cancel" \in Outbound
    BY DEF Says, AckCancel, Outbound
  <2> HIDE DEF p
  <2>2. /\ Timely(r, later) /\ Lined(r)
        /\ \A f \in r : f \in q \/ (Is(f, "AckCancel", id) /\ f.payload = p)
        /\ \A f \in q : f \in r \/ f = e
        /\ Of(r, "Create", id) = Of(q, "Create", id) \ {e}
        /\ Underway(r, id) = (Underway(q, id) \ {"Cancel"}) \cup {"AckCancel"}
        /\ Filling(r, id) = Filling(q, id)
    BY <1>1, <1>7, <2>1, Answers
  <2> QED
    BY <2>2 DEF p
<1>9. Concerns(q, r, id, orders)
  <2>1. IsPayload(AckCancel(id), orders)
    BY <1>2 DEF IsPayload, AckCancel
  <2> QED
    BY <1>8, <2>1 DEF Concerns, Is
<1> HIDE DEF side, price
<1>10. /\ Remaining(y, side, id) = 0
       /\ SameElsewhere(x, y, side)
       /\ y[side] # x[side] => IsAbout(x, side, id, price) /\ IsAbout(y, side, id, price)
  <2>1. ASSUME NEW s \in Sides
        PROVE  \/ x[s] = <<>> /\ y[s] = x[s]
               \/ \E k \in DOMAIN orders, total \in Words, ahead \in Words, n \in Nat \ {0} :
                    /\ orders[k].side = s /\ x[s] = Sole(k, orders[k].price, total, ahead, n)
                    /\ y[s] = IF k = id THEN <<>> ELSE x[s]
    <3>1. Stands(x[s], s, orders)
      BY DEF Whole
    <3>2. CASE x[s] = <<>>
      BY <3>2, CancelOfOne DEF Sides
    <3>3. CASE x[s] # <<>>
      <4>1. PICK k \in DOMAIN orders, total \in Words, ahead \in Words, n \in Nat \ {0} :
              orders[k].side = s /\ x[s] = Sole(k, orders[k].price, total, ahead, n)
        BY <3>1, <3>3 DEF Stands
      <4> DEFINE limit == orders[k].price
      <4> HIDE DEF limit
      <4>2. x[s] = Sole(k, limit, total, ahead, n)
        BY <4>1 DEF limit
      <4>3. y[s] = IF k = id THEN <<>> ELSE x[s]
        BY <4>2, CancelOfOne DEF Sides
      <4> QED
        BY <4>1, <4>3
    <3> QED
      BY <3>2, <3>3
  <2>2. y = [s \in Sides |-> y[s]]
    BY DEF VX!OnCancelOrder, Sides
  <2> HIDE DEF y
  <2>3. ASSUME NEW s \in Sides, s # side PROVE y[s] = x[s]
    BY <2>1, <2>3 DEF side
  <2>4. CASE x[side] = <<>> /\ y[side] = x[side]
    BY <2>2, <2>3, <2>4, RemainingOf DEF SameElsewhere
  <2>5. CASE ~(x[side] = <<>> /\ y[side] = x[side])
    <3>1. PICK k \in DOMAIN orders, total \in Words, ahead \in Words, n \in Nat \ {0} :
            /\ orders[k].side = side /\ x[side] = Sole(k, orders[k].price, total, ahead, n)
            /\ y[side] = IF k = id THEN <<>> ELSE x[side]
      BY <1>3, <2>1, <2>5
    <3>2. CASE k = id
      <4>1. x[side] = Sole(id, price, total, ahead, n) /\ y[side] = <<>>
        BY <3>1, <3>2 DEF price
      <4>2. IsAbout(x, side, id, price) /\ IsAbout(y, side, id, price)
        BY <4>1 DEF IsAbout
      <4> QED
        BY <2>2, <2>3, <4>1, <4>2, RemainingOf DEF SameElsewhere
    <3>3. CASE k # id
      <4>1. y[side] = x[side]
        BY <3>1, <3>3
      <4> DEFINE limit == orders[k].price
      <4> HIDE DEF limit
      <4>2. y[side] = Sole(k, limit, total, ahead, n)
        BY <3>1, <4>1 DEF limit
      <4>3. Remaining(y, side, id) = 0
        BY <3>3, <4>2, RemainingOf
      <4> QED
        BY <2>2, <2>3, <4>1, <4>3 DEF SameElsewhere
    <3> QED
      BY <3>2, <3>3
  <2> QED
    BY <2>4, <2>5
<1> HIDE DEF y
<1>11. LifeOK(w)
  <2>1. /\ "Cancel" \in v.flying /\ "Create" \notin v.flying /\ w.order = v.order
        /\ w.flying = (v.flying \ {"Cancel"}) \cup {"AckCancel"}
        /\ w.filling = v.filling /\ w.resting = 0 /\ w.trackers = v.trackers
    BY <1>5, <1>6, <1>8, <1>10
  <2> QED
    BY <1>2, <2>1, LifeLeaves
<1>12. LifeOK(View(orders, active, r, y, id))
  BY <1>11 DEF w
<1>13. Of(r, "Create", id) = {} /\ Of(r, "Create", id) \subseteq Of(q, "Create", id)
  BY <1>4, <1>8
<1>14. Whole(orders, active, r, y, later)
  BY <1>2, <1>3, <1>8, <1>9, <1>10, <1>12, <1>13, Trades
<1> QED
  BY <1>14 DEF y

\* Nothing happens but that time passes.
LEMMA Passes ==
  ASSUME NEW orders, NEW active, NEW q, NEW x, NEW now, Whole(orders, active, q, x, now),
         NEW later \in Nat, later >= now
  PROVE  Whole(orders, active, q, x, later)
<1>1. now \in Nat /\ Timely(q, now)
  BY DEF Whole
<1>2. Timely(q, later)
  BY <1>1, QueueTakes
<1> QED
  BY <1>2 DEF Whole

\* Some of an order that rests is filled, which is acknowledged.
LEMMA Filled ==
  ASSUME NEW orders, NEW active, NEW q, NEW x, NEW now, Whole(orders, active, q, x, now),
         NEW id \in DOMAIN orders, NEW side, NEW price, HasTerms(orders, id, side, price),
         NEW n \in Nat \ {0}, Alone(x, side, id, price, n), NEW k \in 1..n,
         NEW y, SameElsewhere(x, y, side),
         IF k = n THEN y[side] = <<>> ELSE Alone(y, side, id, price, n - k),
         NEW paid \in Int, ~VX!Better(side, paid, price),
         NEW d, Sends(q, now, "AckFill", AckFill(id, k, paid), d), NEW r, Joined(q, d, r)
  PROVE  Whole(orders, active, r, y, now)
<1> DEFINE v == View(orders, active, q, x, id)
           w == View(orders, active, r, y, id)
           p == AckFill(id, k, paid)
<1>1. Timely(q, now) /\ Lined(q) /\ now \in Nat /\ LifeOK(v)
  BY DEF Whole
<1>2. orders[id].side = side /\ orders[id].price = price
  BY DEF HasTerms
<1>3. p.kind = "AckFill" /\ p.order_id = id /\ p.filled_qty = k /\ IsPayload(p, orders)
  BY <1>2 DEF AckFill, IsPayload
<1> HIDE DEF p
<1>4. /\ d.payload = p /\ d \notin q /\ Timely(r, now)
      /\ \A f \in q : Latency(f.payload.kind) = Latency("AckFill") => Before(f, d)
      /\ Is(d, "AckFill", id)
  <2>1. Says(p, "AckFill", id) /\ Sends(q, now, "AckFill", p, d)
    BY <1>3 DEF Says, p
  <2> QED
    BY <1>1, <2>1, SentLast
<1>5. /\ d.payload.kind = "AckFill" /\ d.payload.order_id = id /\ d.payload.filled_qty = k
      /\ r = q \cup {d}
  BY <1>3, <1>4 DEF Joined
<1>6. /\ v.order = orders[id] /\ v.flying = Underway(q, id) /\ v.filling = Filling(q, id)
      /\ v.resting = Remaining(x, side, id) /\ v.trackers = Trackers(active, id)
      /\ w.order = orders[id] /\ w.flying = Underway(r, id) /\ w.filling = Filling(r, id)
      /\ w.resting = Remaining(y, side, id) /\ w.trackers = Trackers(active, id)
  BY <1>2, ViewIs
<1> HIDE DEF v, w
<1>7. Remaining(x, side, id) = n /\ IsAbout(x, side, id, price)
  BY AloneIs
<1>8. Remaining(y, side, id) = n - k /\ IsAbout(y, side, id, price)
  <2>1. CASE k = n
    BY <2>1, RemainingOf DEF IsAbout
  <2>2. CASE k # n
    <3> DEFINE m == n - k
    <3>1. m \in Nat \ {0} /\ Alone(y, side, id, price, m)
      BY <2>2
    <3> HIDE DEF m
    <3>2. Remaining(y, side, id) = m /\ IsAbout(y, side, id, price)
      BY <3>1, AloneIs
    <3> QED
      BY <3>2 DEF m
  <2> QED
    BY <2>1, <2>2
<1>9. /\ Underway(r, id) = Underway(q, id)
      /\ Of(r, "Create", id) = Of(q, "Create", id)
      /\ Of(r, "Cancel", id) = Of(q, "Cancel", id)
  BY <1>4, FlyingAdds
<1>10. Filling(r, id) = Filling(q, id) + k /\ Filling(q, id) \in Nat
  <2>1. IsFiniteSet(r) /\ IsFiniteSet(q)
    BY <1>1, <1>4 DEF Timely
  <2>2. d \in Of(r, "AckFill", id)
    BY <1>5 DEF Of
  <2>3. ASSUME NEW f \in Of(r, "AckFill", id) PROVE f.payload.filled_qty \in Nat
    <3>1. CASE f = d
      BY <1>5, <3>1
    <3>2. CASE f # d
      <4>1. f \in q /\ f.payload.order_id = id /\ f \in Of(q, "AckFill", id)
        BY <1>5, <3>2 DEF Of
      <4> QED
        BY <4>1, EventOrder
    <3> QED
      BY <3>1, <3>2
  <2>4. r \ {d} = q
    BY <1>4, <1>5
  <2>5. /\ Filling(r \ {d}, id) \in Nat
        /\ Filling(r, id) = d.payload.filled_qty + Filling(r \ {d}, id)
    BY <2>1, <2>2, <2>3, FillingTakes
  <2>6. Filling(q, id) \in Nat /\ Filling(r, id) = d.payload.filled_qty + Filling(q, id)
    BY <2>4, <2>5
  <2> QED
    BY <1>5, <2>6
<1>11. LifeOK(w) /\ "AckCancel" \notin v.flying
  <2>1. /\ k \in 1..v.resting /\ w.order = v.order /\ w.flying = v.flying
        /\ w.filling = v.filling + k /\ w.resting = v.resting - k
        /\ w.trackers = v.trackers
    BY <1>6, <1>7, <1>8, <1>9, <1>10
  <2> QED
    BY <1>1, <2>1, LifeTraded
<1>12. Of(q, "AckCancel", id) = {}
  BY <1>6, <1>11 DEF Underway, Kinds
<1>13. Lined(r)
  <2>1. \A f \in q : f.payload.order_id = id => ~Follows("AckFill", f.payload.kind)
    BY <1>12 DEF Of, Follows
  <2> QED
    BY <1>1, <1>4, <2>1, LinedAdds
<1>14. Concerns(q, r, id, orders)
  BY <1>3, <1>4, <1>5 DEF Concerns
<1>15. /\ Of(r, "Create", id) \subseteq Of(q, "Create", id)
       /\ Of(q, "Cancel", id) \subseteq Of(r, "Cancel", id)
  BY <1>9
<1>16. LifeOK(View(orders, active, r, y, id))
  BY <1>11 DEF w
<1>17. \A i \in DOMAIN orders :
         i < id /\ orders[i].side = side /\ Of(q, "Create", i) # {} => Remaining(y, side, id) = 0
  <2>1. \A i \in DOMAIN orders :
          i < id /\ orders[i].side = side /\ Of(q, "Create", i) # {} => Remaining(x, side, id) = 0
    BY <1>2 DEF Whole, Succeeds
  <2> QED
    BY <1>7, <2>1
<1>18. Remaining(x, side, id) > 0
  BY <1>7
<1> QED
  BY <1>1, <1>4, <1>7, <1>8, <1>13, <1>14, <1>15, <1>16, <1>17, <1>18, Trades

\* A real fill uses up volume ahead of an order.
LEMMA Advances ==
  ASSUME NEW orders, NEW active, NEW q, NEW x, NEW now, Whole(orders, active, q, x, now),
         NEW id \in DOMAIN orders, NEW side, NEW price, HasTerms(orders, id, side, price),
         NEW n \in Nat \ {0}, Alone(x, side, id, price, n),
         NEW y, SameElsewhere(x, y, side), Alone(y, side, id, price, n)
  PROVE  Whole(orders, active, q, y, now)
<1>1. Timely(q, now) /\ Lined(q) /\ now \in Nat /\ LifeOK(View(orders, active, q, x, id))
  BY DEF Whole
<1>2. orders[id].side = side /\ orders[id].price = price
  BY DEF HasTerms
<1>3. /\ Remaining(x, side, id) = n /\ IsAbout(x, side, id, price)
      /\ Remaining(y, side, id) = n /\ IsAbout(y, side, id, price)
  BY AloneIs
<1>4. View(orders, active, q, y, id) = View(orders, active, q, x, id)
  BY <1>2, <1>3, ViewStays
<1>5. Concerns(q, q, id, orders)
  BY DEF Concerns
<1>6. \A i \in DOMAIN orders :
        i < id /\ orders[i].side = side /\ Of(q, "Create", i) # {} => Remaining(y, side, id) = 0
  BY <1>2, <1>3 DEF Whole, Succeeds
<1>7. LifeOK(View(orders, active, q, y, id))
  BY <1>1, <1>4
<1> QED
  BY <1>1, <1>3, <1>5, <1>6, <1>7, Trades

\* A real fill, at a price of the market, meets the order on its side, if there is one.
LEMMA Traded ==
  ASSUME NEW orders, NEW active, NEW q, NEW x, NEW now, Whole(orders, active, q, x, now),
         NEW side \in Sides, NEW paid \in Int, NEW size \in Nat
  PROVE  Whole(orders, active, q \cup VX!FillAcks(x, q, now, side, paid, size),
               VX!OnFill(x, side, paid, size), now)
<1> DEFINE acks == VX!FillAcks(x, q, now, side, paid, size)
           y == VX!OnFill(x, side, paid, size)
           here == VX!Occupied(VX!FillWalk(x, side, paid, size).levels)
           fills == VX!FillWalk(x, side, paid, size).fills
           r == q \cup acks
<1>1. y = [x EXCEPT ![side] = here]
  BY DEF VX!OnFill
<1>2. /\ fills = <<>> => acks = {}
      /\ \A id, k : fills = <<[order_id |-> id, qty |-> k]>> =>
           acks = {Sent(q, now, InboundLatency, 0, AckFill(id, k, paid))}
  BY AcksOfOne
<1>3. x = [s \in Sides |-> x[s]] /\ Stands(x[side], side, orders)
  BY DEF Whole
<1>4. CASE x[side] = <<>>
  <2>1. here = <<>> /\ fills = <<>>
    BY <1>4, FillOfNone
  <2> HIDE DEF acks, y, here, fills
  <2>2. acks = {} /\ y = x
    BY <1>1, <1>2, <1>3, <1>4, <2>1
  <2>3. q \cup acks = q
    BY <2>2
  <2> QED
    BY <2>2, <2>3 DEF acks, y
<1>5. CASE x[side] # <<>>
  <2>1. PICK id \in DOMAIN orders, total \in Words, ahead \in Words, n \in Nat \ {0} :
          /\ orders[id].side = side /\ x[side] = Sole(id, orders[id].price, total, ahead, n)
    BY <1>3, <1>5 DEF Stands
  <2> DEFINE price == orders[id].price
  <2>2. HasTerms(orders, id, side, price) /\ price \in Int
    <3>1. orders[id] \in OrderType
      BY DEF Whole, Tabled
    <3> QED
      BY <2>1, <3>1 DEF HasTerms, OrderType
  <2> HIDE DEF price
  <2>3. x[side] = Sole(id, price, total, ahead, n)
    BY <2>1 DEF price
  <2>4. PICK k \in 0..n : Taken(x, side, paid, size, id, price, n, k)
    BY <2>2, <2>3, FillOfOne
  <2> HIDE DEF acks, y, here, fills
  <2>5. Alone(x, side, id, price, n)
    BY <2>3 DEF Alone
  <2>6. SameElsewhere(x, y, side) /\ y[side] = here
    BY <1>1, <1>3 DEF SameElsewhere
  <2>7. /\ k > 0 => ~VX!Better(side, paid, price)
        /\ \/ k = n /\ here = <<>>
           \/ k < n /\ \E t \in Words, a \in Words : here = Sole(id, price, t, a, n - k)
        /\ fills = IF k = 0 THEN <<>> ELSE <<[order_id |-> id, qty |-> k]>>
    BY <2>4 DEF Taken, here, fills
  <2>8. CASE k = 0
    <3>1. acks = {} /\ 0 # n /\ n - 0 = n
      BY <1>2, <2>7, <2>8
    <3>2. Alone(y, side, id, price, n)
      BY <2>7, <2>6, <2>8, <3>1 DEF Alone
    <3>3. Whole(orders, active, q, y, now)
      BY <2>2, <2>5, <2>6, <3>2, Advances
    <3>4. q \cup acks = q
      BY <3>1
    <3> QED
      BY <3>3, <3>4 DEF acks, y
  <2>9. CASE k # 0
    <3> DEFINE d == Sent(q, now, InboundLatency, 0, AckFill(id, k, paid))
    <3>1. k \in 1..n /\ ~VX!Better(side, paid, price)
      BY <2>7, <2>9
    <3>2. acks = {d}
      BY <1>2, <2>7, <2>9
    <3>3. Sends(q, now, "AckFill", AckFill(id, k, paid), d)
      BY DEF Sends, Latency, Outbound
    <3> HIDE DEF d
    <3>4. Joined(q, d, r)
      BY <3>2 DEF Joined
    <3>5. IF k = n THEN y[side] = <<>> ELSE Alone(y, side, id, price, n - k)
      BY <2>7, <2>6 DEF Alone
    <3> HIDE DEF r
    <3>6. Whole(orders, active, r, y, now)
      BY <2>2, <2>5, <2>6, <3>1, <3>3, <3>4, <3>5, Filled
    <3> QED
      BY <3>6 DEF r, y, acks
  <2> QED
    BY <2>8, <2>9
<1> QED
  BY <1>4, <1>5

---------------------------------------------------------------------------
(* New orders. *)

\* The table with one order more, and its place.
Grown(orders, o, id, after) ==
  Len(orders) < MaxOrders /\ id = Len(orders) + 1 /\ after = Append(orders, o)

\* The orders there were keep their places, and nothing is known of order id.
Fresh(orders, active, q, x, id, o, after) ==
  /\ Tabled(after) /\ DOMAIN after = DOMAIN orders \cup {id} /\ DOMAIN after \subseteq Nat
  /\ id \notin DOMAIN orders /\ id # NoOrder /\ after[id] = o
  /\ \A i \in DOMAIN orders : after[i] = orders[i] /\ i < id
  /\ \A e \in q : e.payload.order_id # id
  /\ \A side \in Sides : active[side] # id /\ Remaining(x, side, id) = 0

\* So it is with an order that is new.
LEMMA Grows ==
  ASSUME NEW orders, NEW active, NEW q, NEW x, NEW now, Whole(orders, active, q, x, now),
         NEW o \in OrderType, NEW id, NEW after, Grown(orders, o, id, after)
  PROVE  Fresh(orders, active, q, x, id, o, after)
<1>1. orders \in Seq(OrderType) /\ Len(orders) \in Nat
  BY DEF Whole, Tabled
<1>2. /\ after \in Seq(OrderType) /\ Len(after) = Len(orders) + 1
      /\ DOMAIN orders = 1..Len(orders) /\ DOMAIN after = 1..(Len(orders) + 1)
      /\ \A i \in DOMAIN orders : after[i] = orders[i]
      /\ after[Len(orders) + 1] = o
  BY <1>1 DEF Grown
<1>3. id = Len(orders) + 1
  BY DEF Grown
<1>4. id \notin DOMAIN orders /\ id # NoOrder /\ \A i \in DOMAIN orders : i < id
  BY <1>1, <1>2, <1>3 DEF NoOrder
<1>5. DOMAIN after = DOMAIN orders \cup {id} /\ after[id] = o
  BY <1>1, <1>2, <1>3
<1>6. Len(after) <= MaxOrders
  BY <1>1, <1>2, OmsAssumption DEF Grown
<1>7. \A e \in q : e.payload.order_id # id
  BY <1>4 DEF Whole, IsPayload
<1>8. \A side \in Sides : active[side] # id
  BY <1>4 DEF Whole, TracksOwn
<1>9. ASSUME NEW side \in Sides PROVE Remaining(x, side, id) = 0
  <2>1. Stands(x[side], side, orders)
    BY DEF Whole
  <2>2. CASE x[side] = <<>>
    BY <2>2, RemainingOf
  <2>3. CASE x[side] # <<>>
    <3>1. PICK i \in DOMAIN orders, total \in Words, ahead \in Words, n \in Nat \ {0} :
            x[side] = Sole(i, orders[i].price, total, ahead, n)
      BY <2>1, <2>3 DEF Stands
    <3> DEFINE limit == orders[i].price
    <3> HIDE DEF limit
    <3>2. x[side] = Sole(i, limit, total, ahead, n)
      BY <3>1 DEF limit
    <3>3. Remaining(x, side, id) = IF i = id THEN n ELSE 0
      BY <3>2, RemainingOf
    <3> QED
      BY <1>4, <3>3
  <2> QED
    BY <2>2, <2>3
<1> QED
  BY <1>2, <1>4, <1>5, <1>6, <1>7, <1>8, <1>9 DEF Tabled, Fresh

\* The queue holds, besides what it held, at most the order's request.
Requests(q, r, id, o) ==
  /\ q \subseteq r
  /\ \A e \in r : e \in q \/ e.payload = Create(id, o.price, o.qty, o.side)

\* A function of the sides.
OnSides(f) == f = [side \in Sides |-> f[side]]

\* The order may be the one tracked on its side.
Assigns(active, active2, id, o) ==
  /\ OnSides(active2)
  /\ \A side \in Sides : \/ active2[side] = active[side]
                         \/ active[side] = NoOrder /\ active2[side] = id /\ o.side = side

\* What may still rest on the side will be cancelled before the order arrives there.
Gives(orders, q, x, r, id, o) ==
  \A i \in DOMAIN orders :
    /\ orders[i].side = o.side
    /\ Remaining(x, o.side, i) > 0 \/ Of(q, "Create", i) # {}
    => \A d \in Of(r, "Create", id) : \E e \in Of(q, "Cancel", i) : Before(e, d)

\* A new order is well if its own life starts well and those before it on its side
\* are out of its way.
LEMMA OneJoins ==
  ASSUME NEW orders, NEW active, NEW q, NEW x, NEW now, Whole(orders, active, q, x, now),
         NEW o \in OrderType, NEW id, NEW after,
         Grown(orders, o, id, after),
         NEW active2, Assigns(active, active2, id, o),
         NEW r, Timely(r, now), Lined(r), Requests(q, r, id, o), Gives(orders, q, x, r, id, o),
         LifeOK(View(after, active2, r, x, id))
  PROVE  Whole(after, active2, r, x, now)
<1>1. /\ Tabled(after) /\ DOMAIN after = DOMAIN orders \cup {id} /\ DOMAIN after \subseteq Nat
      /\ id \notin DOMAIN orders /\ id # NoOrder /\ after[id] = o
      /\ \A i \in DOMAIN orders : after[i] = orders[i] /\ i < id
      /\ \A e \in q : e.payload.order_id # id
      /\ \A side \in Sides : active[side] # id /\ Remaining(x, side, id) = 0
  <2>1. Fresh(orders, active, q, x, id, o, after)
    BY Grows
  <2> QED
    BY <2>1 DEF Fresh
<1>2. /\ \A p : IsPayload(p, orders) => IsPayload(p, after)
      /\ \A levels, side : Stands(levels, side, orders) => Stands(levels, side, after)
  BY <1>1, TermsStay DEF SameTerms
<1>3. ASSUME NEW e \in r PROVE IsPayload(e.payload, after)
  <2>1. CASE e \in q
    BY <1>2, <2>1 DEF Whole
  <2>2. CASE e \notin q
    <3> DEFINE p == e.payload
    <3>1. p = Create(id, o.price, o.qty, o.side)
      BY <2>2 DEF Requests
    <3> HIDE DEF p
    <3>2. p.order_id = id
      BY <3>1 DEF Create
    <3>3. IsPayload(p, after)
      BY <1>1, <3>1, <3>2 DEF IsPayload
    <3> QED
      BY <3>3 DEF p
  <2> QED
    BY <2>1, <2>2
<1>4. \A side \in Sides : Stands(x[side], side, after)
  BY <1>2 DEF Whole
<1>5. TracksOwn(active2, after)
  <2>1. ASSUME NEW side \in Sides, active2[side] # NoOrder
        PROVE  active2[side] \in DOMAIN after /\ after[active2[side]].side = side
    <3>1. CASE active2[side] = active[side]
      BY <1>1, <2>1, <3>1 DEF Whole, TracksOwn
    <3>2. CASE active2[side] # active[side]
      BY <1>1, <3>2 DEF Assigns
    <3> QED
      BY <3>1, <3>2
  <2> QED
    BY <2>1 DEF TracksOwn, Assigns, OnSides
<1>6. o.side \in Sides
  BY DEF OrderType
<1>7. \A i, kind : i \in DOMAIN orders => Of(r, kind, i) = Of(q, kind, i)
  <2>1. \A e \in r : e \in q \/ e.payload.order_id = id
    BY DEF Requests, Create
  <2> QED
    BY <1>1, <2>1 DEF Of, Requests
<1>8. ASSUME NEW i \in DOMAIN after PROVE LifeOK(View(after, active2, r, x, i))
  <2>1. CASE i = id
    BY <2>1
  <2>2. CASE i # id
    <3>1. i \in DOMAIN orders /\ after[i] = orders[i]
      BY <1>1, <2>2
    <3>2. \A side \in Sides : active2[side] = i <=> active[side] = i
      <4>1. i # NoOrder
        BY <3>1 DEF Whole, Tabled, NoOrder
      <4> QED
        BY <2>2, <4>1 DEF Assigns
    <3>3. \A e : e.payload.order_id = i => (e \in q <=> e \in r)
      BY <2>2 DEF Requests, Create
    <3>4. Remaining(x, after[i].side, i) = Remaining(x, orders[i].side, i)
      BY <3>1
    <3>5. View(after, active2, r, x, i) = View(orders, active, q, x, i)
      BY <3>1, <3>2, <3>3, <3>4, ViewStays
    <3> QED
      BY <3>1, <3>5 DEF Whole
  <2> QED
    BY <2>1, <2>2
<1>9. ASSUME NEW i \in DOMAIN after, NEW j \in DOMAIN after
      PROVE  Succeeds(after, r, x, i, j)
  <2> SUFFICES ASSUME i < j, after[i].side = after[j].side
               PROVE  Succeeds(after, r, x, i, j)
    BY DEF Succeeds
  <2>1. i \in DOMAIN orders /\ after[i] = orders[i]
    <3>1. i # id
      <4>1. id \in Nat /\ j \in Nat
        BY <1>1
      <4>2. j \in DOMAIN orders \/ j = id
        BY <1>1
      <4> QED
        BY <1>1, <4>1, <4>2
    <3> QED
      BY <1>1, <3>1
  <2>2. CASE j = id
    <3>1. after[j] = o /\ after[i].side = o.side /\ orders[i].side = o.side
      BY <1>1, <2>1, <2>2
    <3>2. Remaining(x, after[j].side, j) = 0
      BY <1>1, <1>6, <2>2, <3>1
    <3>3. /\ Of(r, "Create", i) = Of(q, "Create", i)
          /\ Of(r, "Cancel", i) = Of(q, "Cancel", i)
      BY <1>7, <2>1
    <3>4. ASSUME Remaining(x, after[i].side, i) > 0 \/ Of(r, "Create", i) # {}
          PROVE  \A d \in Of(r, "Create", j) : \E e \in Of(r, "Cancel", i) : Before(e, d)
      BY <2>1, <2>2, <3>1, <3>3, <3>4 DEF Gives
    <3> QED
      BY <3>2, <3>4 DEF Succeeds
  <2>3. CASE j # id
    <3>1. j \in DOMAIN orders /\ after[j] = orders[j]
      BY <1>1, <2>3
    <3>2. Succeeds(orders, q, x, i, j)
      BY <2>1, <3>1 DEF Whole
    <3>3. /\ Of(r, "Create", i) = Of(q, "Create", i) /\ Of(r, "Create", j) = Of(q, "Create", j)
          /\ Of(r, "Cancel", i) = Of(q, "Cancel", i)
      BY <1>7, <2>1, <3>1
    <3> QED
      BY <2>1, <3>1, <3>2, <3>3 DEF Succeeds
  <2> QED
    BY <2>2, <2>3
<1> QED
  BY <1>1, <1>3, <1>4, <1>5, <1>8, <1>9 DEF Whole

\* An order that may come to trade, and that is not tracked, has its cancel behind it.
LEMMA LifeForgotten ==
  ASSUME NEW v, LifeOK(v), v.trackers = {}, v.resting > 0 \/ "Create" \in v.flying
  PROVE  "Cancel" \in v.flying
<1>1. /\ v.order.qty \in Nat /\ v.order.filled_qty \in Nat /\ v.filling \in Nat
      /\ v.resting \in Nat /\ v.order.status \in Status
  BY DEF LifeOK, OrderType
<1>2. v.order.status \notin {"REJECTED", "CANCELLED"}
  <2>1. CASE v.resting > 0
    BY <1>1, <2>1 DEF LifeOK
  <2>2. CASE "Create" \in v.flying
    BY <2>2 DEF LifeOK
  <2> QED
    BY <2>1, <2>2
<1>3. v.order.status # "FILLED"
  <2>1. CASE v.resting > 0
    BY <1>1, <2>1 DEF LifeOK
  <2>2. CASE "Create" \in v.flying
    BY <2>2 DEF LifeOK
  <2> QED
    BY <2>1, <2>2
<1>4. v.order.status \in Unresolved
  BY <1>1, <1>2, <1>3 DEF Status, Terminal, Unresolved
<1> QED
  BY <1>1, <1>4 DEF LifeOK

\* The order's request, as a payload.
Asks(p, id, o) == p = Create(id, o.price, o.qty, o.side)

\* When a side's quote is gone, so will be every order of it before the next arrives.
LEMMA SideGives ==
  ASSUME NEW orders, NEW active, NEW q, NEW x, NEW now, Whole(orders, active, q, x, now),
         NEW o, o.side \in Sides, active[o.side] = NoOrder, NEW id, NEW r, NEW d, Joined(q, d, r),
         \A e \in q : e.payload.order_id # id,
         \A e \in q : Latency(e.payload.kind) = Latency("Create") => Before(e, d)
  PROVE  Gives(orders, q, x, r, id, o)
<1> SUFFICES ASSUME NEW i \in DOMAIN orders, orders[i].side = o.side,
                    Remaining(x, o.side, i) > 0 \/ Of(q, "Create", i) # {},
                    NEW c \in Of(r, "Create", id)
             PROVE  \E e \in Of(q, "Cancel", i) : Before(e, c)
  BY DEF Gives
<1> DEFINE v == View(orders, active, q, x, i)
<1>1. /\ LifeOK(v) /\ v.resting = Remaining(x, orders[i].side, i)
      /\ v.trackers = Trackers(active, i)
      /\ \A kind \in Kinds : kind \in v.flying <=> Of(q, kind, i) # {}
  BY ViewIs DEF Whole
<1> HIDE DEF v
<1>2. Trackers(active, i) = {}
  <2>1. i # NoOrder
    BY DEF Whole, Tabled, NoOrder
  <2> QED
    BY <2>1 DEF Trackers, Whole, TracksOwn
<1>3. "Cancel" \in v.flying
  <2>1. v.resting > 0 \/ "Create" \in v.flying
    BY <1>1 DEF Kinds
  <2> QED
    BY <1>1, <1>2, <2>1, LifeForgotten
<1>4. PICK e \in Of(q, "Cancel", i) : TRUE
  BY <1>1, <1>3 DEF Kinds
<1>5. c = d
  BY DEF Of, Joined
<1>6. Latency(e.payload.kind) = Latency("Create") /\ e \in q
  BY DEF Of, Latency, Outbound
<1> QED
  BY <1>5, <1>6

\* A quote is sent: its order is pending, and tracked on its side, which was free.
LEMMA Creates ==
  ASSUME NEW orders, NEW active, NEW q, NEW x, NEW now, Whole(orders, active, q, x, now),
         NEW o \in OrderType, o.status = "PENDING", o.filled_qty = 0, o.qty > 0,
         active[o.side] = NoOrder, NEW id, NEW after, Grown(orders, o, id, after),
         NEW active2, active2 = [active EXCEPT ![o.side] = id],
         NEW p, Asks(p, id, o), NEW d, Sends(q, now, "Create", p, d), NEW r, Joined(q, d, r)
  PROVE  Whole(after, active2, r, x, now)
<1> DEFINE w == View(after, active2, r, x, id)
<1>1. Timely(q, now) /\ Lined(q) /\ now \in Nat /\ OnSides(active)
  BY DEF Whole, TracksOwn, OnSides
<1>2. o.side \in Sides
  BY DEF OrderType
<1>3. /\ \A e \in q : e.payload.order_id # id
      /\ \A side \in Sides : active[side] # id /\ Remaining(x, side, id) = 0
      /\ after[id] = o
  <2>1. Fresh(orders, active, q, x, id, o, after)
    BY Grows
  <2> QED
    BY <2>1 DEF Fresh
<1>4. \A kind : Of(q, kind, id) = {}
  BY <1>3 DEF Of
<1>5. MayJoin(q, "Create", id) /\ Says(p, "Create", id) /\ "Create" \in Kinds
  BY <1>4 DEF MayJoin, Says, Asks, Create, Kinds
<1>6. /\ Timely(r, now) /\ Lined(r) /\ d.payload = p /\ Is(d, "Create", id)
      /\ Gains(q, r, "Create", id)
  BY <1>1, <1>5, Joins
<1>7. \A e \in q : Latency(e.payload.kind) = Latency("Create") => Before(e, d)
  BY <1>1, <1>5, SentLast
<1>8. Gives(orders, q, x, r, id, o)
  BY <1>2, <1>3, <1>7, SideGives
<1>9. Requests(q, r, id, o)
  BY <1>6 DEF Requests, Joined, Asks
<1>10. Assigns(active, active2, id, o) /\ active2[o.side] = id
  <2>1. OnSides(active2) /\ active2[o.side] = id
    BY <1>1, <1>2 DEF OnSides
  <2>2. \A s \in Sides : s # o.side => active2[s] = active[s]
    BY <1>1, <1>2 DEF OnSides
  <2>3. \A s \in Sides : s = o.side => active[s] = NoOrder /\ active2[s] = id
    BY <2>1
  <2> QED
    BY <2>1, <2>2, <2>3 DEF Assigns
<1>11. /\ Underway(q, id) = {} /\ Of(r, "AckFill", id) = {}
       /\ Underway(r, id) = {"Create"}
  BY <1>4, <1>6 DEF Underway, Gains
<1>12. Filling(r, id) = 0
  BY <1>6, <1>11, FillingType DEF Timely
<1>13. /\ w.order = o /\ w.filling = Filling(r, id) /\ w.resting = Remaining(x, o.side, id)
       /\ w.flying = Underway(r, id) /\ w.trackers = Trackers(active2, id)
  BY <1>3, ViewIs
<1> HIDE DEF w
<1>14. w.trackers # {}
  BY <1>2, <1>10, <1>13 DEF Trackers
<1>15. LifeOK(w)
  <2>1. /\ w.order \in OrderType /\ w.order.filled_qty = 0 /\ w.filling = 0 /\ w.resting = 0
        /\ w.order.status = "PENDING" /\ w.order.qty > 0 /\ w.flying = {"Create"}
    BY <1>2, <1>3, <1>11, <1>12, <1>13
  <2> QED
    BY <1>14, <2>1, LifeStarts
<1>16. LifeOK(View(after, active2, r, x, id))
  BY <1>15 DEF w
<1> QED
  BY <1>6, <1>8, <1>9, <1>10, <1>16, OneJoins

\* A quote is refused by the risk manager: it takes its place in the table, no more.
LEMMA Rejects ==
  ASSUME NEW orders, NEW active, NEW q, NEW x, NEW now, Whole(orders, active, q, x, now),
         NEW o \in OrderType, o.status = "REJECTED", o.filled_qty = 0,
         NEW id, NEW after, Grown(orders, o, id, after)
  PROVE  Whole(after, active, q, x, now)
<1> DEFINE w == View(after, active, q, x, id)
<1>1. Timely(q, now) /\ Lined(q) /\ now \in Nat /\ OnSides(active)
  BY DEF Whole, TracksOwn, OnSides
<1>2. o.side \in Sides
  BY DEF OrderType
<1>3. /\ \A e \in q : e.payload.order_id # id
      /\ \A side \in Sides : active[side] # id /\ Remaining(x, side, id) = 0
      /\ after[id] = o
  <2>1. Fresh(orders, active, q, x, id, o, after)
    BY Grows
  <2> QED
    BY <2>1 DEF Fresh
<1>4. \A kind : Of(q, kind, id) = {}
  BY <1>3 DEF Of
<1>5. Gives(orders, q, x, q, id, o) /\ Requests(q, q, id, o) /\ Assigns(active, active, id, o)
  <2>1. Gives(orders, q, x, q, id, o)
    BY <1>4 DEF Gives
  <2>2. Requests(q, q, id, o)
    BY DEF Requests
  <2>3. Assigns(active, active, id, o)
    BY <1>1 DEF Assigns
  <2> QED
    BY <2>1, <2>2, <2>3
<1>6. Underway(q, id) = {}
  BY <1>4 DEF Underway
<1>7. Filling(q, id) = 0
  BY <1>1, <1>4, FillingType DEF Timely
<1>8. /\ w.order = o /\ w.filling = Filling(q, id) /\ w.resting = Remaining(x, o.side, id)
      /\ w.flying = Underway(q, id) /\ w.trackers = Trackers(active, id)
  BY <1>3, ViewIs
<1>9. Trackers(active, id) = {}
  BY <1>3 DEF Trackers
<1> HIDE DEF w
<1>10. LifeOK(w)
  <2>1. /\ w.order \in OrderType /\ w.order.filled_qty = 0 /\ w.filling = 0 /\ w.resting = 0
        /\ w.order.status = "REJECTED" /\ w.flying = {} /\ w.trackers = {}
    BY <1>2, <1>3, <1>6, <1>7, <1>8, <1>9
  <2> QED
    BY <2>1, LifeStarts
<1>11. LifeOK(View(after, active, q, x, id))
  BY <1>10 DEF w
<1> QED
  BY <1>1, <1>5, <1>11, OneJoins

---------------------------------------------------------------------------
(* The accounts. *)

\* The orders of a side, what is booked on each order, and what that is worth at its limit.
OfSide(orders, side) == {i \in DOMAIN orders : orders[i].side = side}
Bookings(orders) == [i \in DOMAIN orders |-> orders[i].filled_qty]
Values(orders)   == [i \in DOMAIN orders |-> orders[i].filled_qty * orders[i].price]

Booked(orders, side) == SumOver(Bookings(orders), OfSide(orders, side))
Valued(orders, side) == SumOver(Values(orders), OfSide(orders, side))

\* What AccountsAgree says.
Balanced(orders, holdings, cash, counted, position) ==
  /\ holdings = counted /\ counted = position /\ cash \in Int
  /\ holdings = Booked(orders, "Bid") - Booked(orders, "Ask")
  /\ cash >= Valued(orders, "Ask") - Valued(orders, "Bid")

\* A sum in which one weight has changed.
LEMMA SumMoves ==
  ASSUME NEW S, IsFiniteSet(S), NEW w, Weighs(w, S), NEW v, Weighs(v, S), NEW id \in S,
         \A i \in S : i # id => v[i] = w[i]
  PROVE  SumOver(v, S) = SumOver(w, S) + (v[id] - w[id]) /\ SumOver(w, S) \in Int
<1> DEFINE R == S \ {id}
<1>1. /\ SumOver(w, S) \in Int /\ SumOver(w, R) \in Int /\ SumOver(w, S) = w[id] + SumOver(w, R)
      /\ SumOver(v, R) \in Int /\ SumOver(v, S) = v[id] + SumOver(v, R)
  BY SumWithout
<1>2. IsFiniteSet(R) /\ Weighs(w, R) /\ \A i \in R : w[i] = v[i]
  BY FS_RemoveElement DEF Weighs
<1> HIDE DEF R
<1>3. SumOver(w, R) = SumOver(v, R)
  BY <1>2, SumSame
<1>4. w[id] \in Int /\ v[id] \in Int
  BY DEF Weighs
<1> QED
  BY <1>1, <1>3, <1>4

\* The tables' weights, for sums.
LEMMA TableWeighs ==
  ASSUME NEW orders, Tabled(orders), NEW side
  PROVE  /\ IsFiniteSet(OfSide(orders, side))
         /\ Weighs(Bookings(orders), OfSide(orders, side))
         /\ Weighs(Values(orders), OfSide(orders, side))
         /\ Booked(orders, side) \in Int /\ Valued(orders, side) \in Int
<1>1. orders \in Seq(OrderType) /\ DOMAIN orders = 1..Len(orders) /\ Len(orders) \in Nat
  BY DEF Tabled
<1>2. IsFiniteSet(OfSide(orders, side))
  <2>1. IsFiniteSet(1..Len(orders)) /\ OfSide(orders, side) \in SUBSET (1..Len(orders))
    BY <1>1, FS_Interval DEF OfSide
  <2> QED
    BY <2>1, FS_Subset
<1>3. ASSUME NEW i \in OfSide(orders, side)
      PROVE  Bookings(orders)[i] \in Int /\ Values(orders)[i] \in Int
  <2>1. i \in DOMAIN orders /\ orders[i] \in OrderType
    BY <1>1 DEF OfSide
  <2>2. orders[i].filled_qty \in Int /\ orders[i].price \in Int
    BY <2>1 DEF OrderType
  <2>3. orders[i].filled_qty * orders[i].price \in Int
    BY <2>2
  <2> QED
    BY <2>1, <2>2, <2>3 DEF Bookings, Values
<1>4. Weighs(Bookings(orders), OfSide(orders, side)) /\ Weighs(Values(orders), OfSide(orders, side))
  BY <1>3 DEF Weighs
<1> QED
  BY <1>2, <1>4, SumWithout DEF Booked, Valued

\* Accounts do not depend on the orders' statuses.
LEMMA BalanceStays ==
  ASSUME NEW orders, NEW after, DOMAIN after = DOMAIN orders,
         \A i \in DOMAIN orders : /\ SameTerms(after[i], orders[i])
                                  /\ after[i].filled_qty = orders[i].filled_qty
  PROVE  \A h, c, k, p : Balanced(orders, h, c, k, p) => Balanced(after, h, c, k, p)
<1>1. Bookings(after) = Bookings(orders)
  BY DEF Bookings
<1>2. Values(after) = Values(orders)
  BY DEF Values, SameTerms
<1>3. \A side : OfSide(after, side) = OfSide(orders, side)
  BY DEF OfSide, SameTerms
<1> QED
  BY <1>1, <1>2, <1>3 DEF Balanced, Booked, Valued

\* Nor on an order of which nothing is filled.
LEMMA BalanceGrows ==
  ASSUME NEW orders, Tabled(orders), NEW after, Tabled(after), NEW id, id \notin DOMAIN orders,
         DOMAIN after = DOMAIN orders \cup {id},
         \A i \in DOMAIN orders : after[i] = orders[i], after[id].filled_qty = 0
  PROVE  \A h, c, k, p : Balanced(orders, h, c, k, p) => Balanced(after, h, c, k, p)
<1>1. after[id].price \in Int
  <2>1. after \in Seq(OrderType) /\ id \in DOMAIN after
    BY DEF Tabled
  <2>2. after[id] \in OrderType
    BY <2>1
  <2> QED
    BY <2>2 DEF OrderType
<1>2. 0 * after[id].price = 0
  BY <1>1
<1>3. Bookings(after)[id] = 0 /\ Values(after)[id] = 0
  BY <1>2 DEF Bookings, Values
<1>4. ASSUME NEW side
      PROVE  Booked(after, side) = Booked(orders, side) /\ Valued(after, side) = Valued(orders, side)
  <2> DEFINE S == OfSide(orders, side)
             T == OfSide(after, side)
  <2>1. /\ IsFiniteSet(S) /\ Weighs(Bookings(orders), S) /\ Weighs(Values(orders), S)
        /\ IsFiniteSet(T) /\ Weighs(Bookings(after), T) /\ Weighs(Values(after), T)
    BY TableWeighs
  <2>2. \A i \in S : Bookings(orders)[i] = Bookings(after)[i] /\ Values(orders)[i] = Values(after)[i]
    BY DEF Bookings, Values, OfSide
  <2>3. S = T \ {id}
    BY DEF OfSide
  <2> HIDE DEF S, T
  <2>4. SumOver(Bookings(orders), S) = SumOver(Bookings(after), S)
    BY <2>1, <2>2, SumSame
  <2>5. SumOver(Values(orders), S) = SumOver(Values(after), S)
    BY <2>1, <2>2, SumSame
  <2>6. CASE id \in T
    <3>1. /\ SumOver(Bookings(after), T) = 0 + SumOver(Bookings(after), S)
          /\ SumOver(Values(after), T) = 0 + SumOver(Values(after), S)
          /\ SumOver(Bookings(after), S) \in Int /\ SumOver(Values(after), S) \in Int
      BY <1>3, <2>1, <2>3, <2>6, SumWithout
    <3> QED
      BY <2>4, <2>5, <3>1 DEF Booked, Valued, S, T
  <2>7. CASE id \notin T
    <3>1. S = T
      BY <2>3, <2>7
    <3> QED
      BY <2>4, <2>5, <3>1 DEF Booked, Valued, S, T
  <2> QED
    BY <2>6, <2>7
<1> QED
  BY <1>4 DEF Balanced

\* A product is monotone in a factor.
LEMMA Product ==
  ASSUME NEW a \in Int, NEW b \in Int, NEW k \in Nat, a <= b
  PROVE  k * a \in Int /\ k * b \in Int /\ k * a <= k * b
<1>1. k * a \in Int /\ k * b \in Int
  OBVIOUS
<1>2. b - a \in Nat /\ k * (b - a) >= 0
  <2>1. b - a \in Nat
    OBVIOUS
  <2>2. \A m \in Nat : k * m >= 0
    BY Z3
  <2> QED
    BY <2>1, <2>2
<1>3. k * (b - a) = k * b - k * a
  BY Z3
<1> QED
  BY <1>1, <1>2, <1>3

\* A fill is booked on the order, in the account, in the risk manager and in the
\* strategy, and pays no worse than the order's limit.
LEMMA BalanceFilled ==
  ASSUME NEW orders, Tabled(orders), NEW id \in DOMAIN orders, NEW status \in Status,
         NEW k \in Nat \ {0}, NEW side, side = orders[id].side, NEW paid \in Int,
         ~VX!Better(side, paid, orders[id].price),
         NEW h, NEW c, NEW r, NEW p, Balanced(orders, h, c, r, p),
         NEW bought, bought = IF side = "Bid" THEN k ELSE -k
  PROVE  Balanced([orders EXCEPT ![id] = Restate(orders[id], status, orders[id].filled_qty + k)],
                  h + bought, c - bought * paid,
                  IF side = "Ask" THEN r - k ELSE r + k,
                  IF side = "Bid" THEN p + k ELSE p - k)
<1> DEFINE o      == orders[id]
           filled == o.filled_qty + k
           after  == [orders EXCEPT ![id] = Restate(orders[id], status, orders[id].filled_qty + k)]
           limit  == o.price
<1>1. o \in OrderType
  BY DEF Tabled
<1>2. /\ o.filled_qty \in Nat /\ filled \in Nat /\ limit \in Int /\ side \in Sides
      /\ k \in Nat /\ bought \in Int
  BY <1>1 DEF OrderType
<1>3. /\ Tabled(after) /\ DOMAIN after = DOMAIN orders
      /\ \A i \in DOMAIN orders : i # id => after[i] = orders[i]
      /\ after[id].filled_qty = filled /\ after[id].price = limit /\ after[id].side = side
  <2> HIDE DEF filled
  <2>1. after = [orders EXCEPT ![id] = Restate(orders[id], status, filled)]
    BY DEF filled
  <2> HIDE DEF after
  <2>2. /\ Tabled(after) /\ DOMAIN after = DOMAIN orders
        /\ \A i \in DOMAIN orders : i # id => after[i] = orders[i]
        /\ after[id] = Restate(orders[id], status, filled)
    BY <1>2, <2>1, TableRestated
  <2> QED
    BY <2>2 DEF Restate
<1> HIDE DEF after
<1>4. \A s : OfSide(after, s) = OfSide(orders, s)
  BY <1>3 DEF OfSide
<1> DEFINE S == OfSide(orders, side)
<1>5. id \in S /\ IsFiniteSet(S)
  BY TableWeighs DEF OfSide
<1>6. /\ Weighs(Bookings(orders), S) /\ Weighs(Bookings(after), S)
      /\ Weighs(Values(orders), S) /\ Weighs(Values(after), S)
  <2>1. OfSide(after, side) = S
    BY <1>4
  <2>2. /\ Weighs(Bookings(after), OfSide(after, side))
        /\ Weighs(Values(after), OfSide(after, side))
    BY <1>3, TableWeighs
  <2> QED
    BY <2>1, <2>2, TableWeighs
<1>7. /\ \A i \in S : i # id => Bookings(after)[i] = Bookings(orders)[i]
      /\ \A i \in S : i # id => Values(after)[i] = Values(orders)[i]
      /\ Bookings(after)[id] = filled /\ Bookings(orders)[id] = o.filled_qty
      /\ Values(after)[id] = filled * limit /\ Values(orders)[id] = o.filled_qty * limit
  BY <1>3 DEF Bookings, Values, OfSide
<1> HIDE DEF S
<1>8. /\ SumOver(Bookings(after), S) = SumOver(Bookings(orders), S) + (filled - o.filled_qty)
      /\ SumOver(Values(after), S) = SumOver(Values(orders), S) + (filled * limit - o.filled_qty * limit)
  <2>1. SumOver(Bookings(after), S) = SumOver(Bookings(orders), S)
                                    + (Bookings(after)[id] - Bookings(orders)[id])
    BY <1>5, <1>6, <1>7, SumMoves
  <2>2. SumOver(Values(after), S) = SumOver(Values(orders), S) + (Values(after)[id] - Values(orders)[id])
    BY <1>5, <1>6, <1>7, SumMoves
  <2> QED
    BY <1>7, <2>1, <2>2
<1>9. filled - o.filled_qty = k /\ filled * limit - o.filled_qty * limit = k * limit
  <2>1. \A a, b, l \in Int : (a + b) * l = a * l + b * l
    BY Z3
  <2>2. filled * limit = o.filled_qty * limit + k * limit
    BY <1>2, <2>1
  <2>3. filled * limit \in Int /\ o.filled_qty * limit \in Int /\ k * limit \in Int
    BY <1>2
  <2> QED
    BY <1>2, <2>2, <2>3
<1>10. Booked(after, side) = Booked(orders, side) + k
       /\ Valued(after, side) = Valued(orders, side) + k * limit
  BY <1>4, <1>8, <1>9 DEF Booked, Valued, S
<1>11. ASSUME NEW s, s # side
       PROVE  Booked(after, s) = Booked(orders, s) /\ Valued(after, s) = Valued(orders, s)
  <2> DEFINE T == OfSide(orders, s)
  <2>1. /\ IsFiniteSet(T) /\ Weighs(Bookings(orders), T) /\ Weighs(Values(orders), T)
        /\ OfSide(after, s) = T
    BY <1>4, TableWeighs
  <2>2. \A i \in T : Bookings(orders)[i] = Bookings(after)[i] /\ Values(orders)[i] = Values(after)[i]
    BY <1>3, <1>11 DEF Bookings, Values, OfSide
  <2> HIDE DEF T
  <2>3. SumOver(Bookings(orders), T) = SumOver(Bookings(after), T)
    BY <2>1, <2>2, SumSame
  <2>4. SumOver(Values(orders), T) = SumOver(Values(after), T)
    BY <2>1, <2>2, SumSame
  <2> QED
    BY <2>1, <2>3, <2>4 DEF Booked, Valued, T
<1>12. \A s : Booked(orders, s) \in Int /\ Valued(orders, s) \in Int
  BY TableWeighs
<1>13. k * paid \in Int /\ k * limit \in Int /\ -k * paid = -(k * paid)
  <2>1. \A a, b \in Int : -a * b = -(a * b)
    BY Z3
  <2> QED
    BY <1>2, <2>1
<1>14. CASE side = "Bid"
  <2>1. paid <= limit
    BY <1>2, <1>14 DEF VX!Better
  <2>2. k * paid <= k * limit
    BY <1>2, <2>1, Product
  <2>3. /\ Booked(after, "Bid") = Booked(orders, "Bid") + k
        /\ Valued(after, "Bid") = Valued(orders, "Bid") + k * limit
        /\ Booked(after, "Ask") = Booked(orders, "Ask")
        /\ Valued(after, "Ask") = Valued(orders, "Ask")
    BY <1>10, <1>11, <1>14
  <2>4. /\ Booked(orders, "Bid") \in Int /\ Valued(orders, "Bid") \in Int
        /\ Booked(orders, "Ask") \in Int /\ Valued(orders, "Ask") \in Int
    BY <1>12
  <2>5. /\ h = r /\ r = p /\ c \in Int /\ h = Booked(orders, "Bid") - Booked(orders, "Ask")
        /\ c >= Valued(orders, "Ask") - Valued(orders, "Bid")
    BY DEF Balanced
  <2>6. bought = k /\ bought * paid = k * paid
    BY <1>14
  <2> DEFINE cost == k * paid
             worth == k * limit
  <2>7. cost \in Int /\ worth \in Int /\ cost <= worth /\ bought * paid = cost
    BY <1>13, <2>2, <2>6
  <2>8. Valued(after, "Bid") = Valued(orders, "Bid") + worth
    BY <2>3
  <2> HIDE DEF cost, worth
  <2>9. /\ h + bought = r + k /\ r + k = p + k /\ c - cost \in Int
        /\ h + bought = Booked(after, "Bid") - Booked(after, "Ask")
        /\ c - cost >= Valued(after, "Ask") - Valued(after, "Bid")
    BY <1>2, <2>3, <2>4, <2>5, <2>6, <2>7, <2>8
  <2>10. Balanced(after, h + bought, c - cost, r + k, p + k)
    BY <2>9 DEF Balanced
  <2> QED
    BY <1>14, <2>7, <2>10 DEF after
<1>15. CASE side # "Bid"
  <2>1. side = "Ask" /\ paid >= limit
    BY <1>2, <1>15 DEF VX!Better, Sides
  <2>2. k * limit <= k * paid
    BY <1>2, <2>1, Product
  <2>3. /\ Booked(after, "Ask") = Booked(orders, "Ask") + k
        /\ Valued(after, "Ask") = Valued(orders, "Ask") + k * limit
        /\ Booked(after, "Bid") = Booked(orders, "Bid")
        /\ Valued(after, "Bid") = Valued(orders, "Bid")
    BY <1>10, <1>11, <2>1
  <2>4. /\ Booked(orders, "Bid") \in Int /\ Valued(orders, "Bid") \in Int
        /\ Booked(orders, "Ask") \in Int /\ Valued(orders, "Ask") \in Int
    BY <1>12
  <2>5. /\ h = r /\ r = p /\ c \in Int /\ h = Booked(orders, "Bid") - Booked(orders, "Ask")
        /\ c >= Valued(orders, "Ask") - Valued(orders, "Bid")
    BY DEF Balanced
  <2>6. bought = -k /\ bought * paid = -(k * paid)
    BY <1>13, <1>15
  <2> DEFINE cost == k * paid
             worth == k * limit
  <2>7. cost \in Int /\ worth \in Int /\ worth <= cost /\ bought * paid = -cost
    BY <1>13, <2>2, <2>6
  <2>8. Valued(after, "Ask") = Valued(orders, "Ask") + worth
    BY <2>3
  <2> HIDE DEF cost, worth
  <2>9. /\ h + bought = r - k /\ r - k = p - k /\ c - -cost \in Int
        /\ h + bought = Booked(after, "Bid") - Booked(after, "Ask")
        /\ c - -cost >= Valued(after, "Ask") - Valued(after, "Bid")
    BY <1>2, <2>3, <2>4, <2>5, <2>6, <2>7, <2>8
  <2>10. Balanced(after, h + bought, c - -cost, r - k, p - k)
    BY <2>9 DEF Balanced
  <2> QED
    BY <2>1, <2>7, <2>10 DEF after
<1> QED
  BY <1>14, <1>15

---------------------------------------------------------------------------
(* What the handlers make of the engine's state. *)

\* A handler's state is whole, with what is at the exchange at that time, and balanced.
Good(s, x, now) ==
  /\ IsState(s) /\ s.mm.quote \in [Sides -> Int]
  /\ Whole(s.oms.orders, s.mm.active, s.queue, x, now)
  /\ Balanced(s.oms.orders, s.oms.holdings, s.oms.cash, s.risk, s.mm.position)

\* The orders that have come to their end in `before` are the same in `after`.
Final(before, after) ==
  \A i \in DOMAIN before :
    i \in DOMAIN after /\ (before[i].status \in Terminal => after[i] = before[i])

Full == "OrderManagementSystem is full"

\* What every handler keeps.
Keeps(s, t, x, now) ==
  Good(t, x, now) /\ Final(s.oms.orders, t.oms.orders) /\ t.error \in {s.error, Full}

\* Two handlers one after the other.
LEMMA KeepsTwice ==
  ASSUME NEW s, NEW t, NEW u, NEW x, NEW now, NEW later, Keeps(s, t, x, now), Keeps(t, u, x, later)
  PROVE  Keeps(s, u, x, later)
<1>1. Final(s.oms.orders, u.oms.orders)
  <2> DEFINE a == s.oms.orders
             b == t.oms.orders
             c == u.oms.orders
  <2>1. Final(a, b) /\ Final(b, c)
    BY DEF Keeps
  <2> HIDE DEF a, b, c
  <2>2. Final(a, c)
    BY <2>1 DEF Final
  <2> QED
    BY <2>2 DEF a, c
<1> QED
  BY <1>1 DEF Keeps

\* One order may be restated if it is not at its end.
LEMMA FinalRestated ==
  ASSUME NEW orders, NEW id \in DOMAIN orders, NEW o, NEW after,
         after = [orders EXCEPT ![id] = o],
         orders[id].status \in Terminal => o = orders[id]
  PROVE  Final(orders, after)
  BY DEF Final

\* What the state's parts are.
LEMMA GoodParts ==
  ASSUME NEW s, NEW x, NEW now, Good(s, x, now)
  PROVE  /\ IsState(s) /\ Tabled(s.oms.orders) /\ TracksOwn(s.mm.active, s.oms.orders)
         /\ s.risk \in Int /\ s.oms.holdings \in Int /\ s.oms.cash \in Int
         /\ s.mm.position \in Int /\ now \in Nat
<1>1. Tabled(s.oms.orders) /\ TracksOwn(s.mm.active, s.oms.orders) /\ now \in Nat
  BY DEF Good, Whole
<1>2. Booked(s.oms.orders, "Bid") \in Int /\ Booked(s.oms.orders, "Ask") \in Int
  BY <1>1, TableWeighs
<1> QED
  BY <1>1, <1>2 DEF Good, Balanced

\* The table after a change of status, and nothing else.
LEMMA SetStatusIs ==
  ASSUME NEW s, IsState(s), Tabled(s.oms.orders), NEW id \in DOMAIN s.oms.orders, NEW status
  PROVE  LET t == SetStatus(s, id, status)
             o == s.oms.orders[id]
         IN  /\ IsState(t)
             /\ t.oms.orders = [s.oms.orders EXCEPT ![id] = Restate(o, status, o.filled_qty)]
             /\ t.oms.holdings = s.oms.holdings /\ t.oms.cash = s.oms.cash
             /\ t.risk = s.risk /\ t.mm = s.mm /\ t.queue = s.queue /\ t.error = s.error
<1> DEFINE orders == s.oms.orders
           o == orders[id]
           n == [o EXCEPT !.status = status]
           u == [orders EXCEPT ![id] = n]
<1>1. o \in OrderType
  BY DEF Tabled
<1>2. n = Restate(o, status, o.filled_qty)
  <2> HIDE DEF o
  <2>1. o = [price |-> o.price, qty |-> o.qty, filled_qty |-> o.filled_qty,
             side |-> o.side, status |-> o.status]
    BY <1>1 DEF OrderType
  <2> QED
    BY <2>1 DEF Restate
<1>3. SetStatus(s, id, status) = [s EXCEPT !.oms.orders = u]
  BY DEF SetStatus, IsState
<1> HIDE DEF u
<1> DEFINE t == [s EXCEPT !.oms.orders = u]
<1>4. /\ IsState(t) /\ t.oms.orders = u /\ t.oms.holdings = s.oms.holdings
      /\ t.oms.cash = s.oms.cash
  BY DEF IsState
<1>5. /\ t.risk = s.risk /\ t.mm = s.mm /\ t.queue = s.queue /\ t.error = s.error
  BY DEF IsState
<1> HIDE DEF t
<1>6. u = [orders EXCEPT ![id] = Restate(o, status, o.filled_qty)]
  BY <1>2 DEF u
<1> QED
  BY <1>3, <1>4, <1>5, <1>6 DEF t

\* The accounts after a change of status.
LEMMA RestatedBalance ==
  ASSUME NEW orders, Tabled(orders), NEW id \in DOMAIN orders, NEW status \in Status,
         NEW h, NEW c, NEW k, NEW p, Balanced(orders, h, c, k, p), NEW after,
         after = [orders EXCEPT ![id] = Restate(orders[id], status, orders[id].filled_qty)]
  PROVE  Balanced(after, h, c, k, p)
<1> DEFINE filled == orders[id].filled_qty
<1>1. filled \in Nat
  <2>1. orders[id] \in OrderType
    BY DEF Tabled
  <2> QED
    BY <2>1 DEF OrderType
<1>2. after[id].filled_qty = filled
  BY DEF Restate
<1> HIDE DEF filled
<1>3. after = [orders EXCEPT ![id] = Restate(orders[id], status, filled)]
  BY DEF filled
<1>4. /\ DOMAIN after = DOMAIN orders /\ \A i \in DOMAIN orders : i # id => after[i] = orders[i]
      /\ SameTerms(after[id], orders[id])
  BY <1>1, <1>3, TableRestated
<1>5. \A i \in DOMAIN orders : /\ SameTerms(after[i], orders[i])
                               /\ after[i].filled_qty = orders[i].filled_qty
  <2>1. \A i \in DOMAIN orders : SameTerms(orders[i], orders[i])
    BY DEF SameTerms
  <2> QED
    BY <1>2, <1>4, <2>1 DEF filled
<1> QED
  BY <1>4, <1>5, BalanceStays

\* A side that withdraws its quote.
LEMMA DropKeeps ==
  ASSUME NEW s, NEW x, NEW now, Good(s, x, now), NEW side \in Sides, s.mm.active[side] # NoOrder
  PROVE  Keeps(s, Drop(s, now, side), x, now)
<1> DEFINE orders == s.oms.orders
           active == s.mm.active
           id == active[side]
           after == [orders EXCEPT ![id] = Restate(orders[id], "PENDING_CANCEL", orders[id].filled_qty)]
           active2 == [active EXCEPT ![side] = NoOrder]
           q == SendOutbound(s.queue, now, Cancel(id))
           u == SetStatus(s, id, "PENDING_CANCEL")
           v == [u EXCEPT !.queue = SendOutbound(@, now, Cancel(id))]
           w == [v EXCEPT !.mm.active[side] = NoOrder]
<1>1. /\ IsState(s) /\ Tabled(orders) /\ id \in DOMAIN orders /\ side \in DOMAIN active
  BY GoodParts DEF TracksOwn
<1>2. /\ orders[id].status \in Open /\ Whole(after, active2, q, x, now)
  <2>1. Whole(orders, active, s.queue, x, now)
    BY DEF Good
  <2>2. id = active[side] /\ id # NoOrder
    OBVIOUS
  <2> HIDE DEF orders, active, id
  <2>3. /\ orders[id].status \in Open
        /\ Whole([orders EXCEPT ![id] = Restate(@, "PENDING_CANCEL", @.filled_qty)],
                 [active EXCEPT ![side] = NoOrder],
                 SendOutbound(s.queue, now, Cancel(id)), x, now)
    BY <2>1, <2>2, Withdraws
  <2>4. after = [orders EXCEPT ![id] = Restate(@, "PENDING_CANCEL", @.filled_qty)]
    OBVIOUS
  <2> QED
    BY <2>3, <2>4
<1>3. CancelOrder(s, now, id) = v
  BY <1>2, Zenon DEF CancelOrder, Open
<1>4. /\ IsState(u) /\ u.oms.orders = after
      /\ u.oms.holdings = s.oms.holdings /\ u.oms.cash = s.oms.cash
      /\ u.risk = s.risk /\ u.mm = s.mm /\ u.queue = s.queue /\ u.error = s.error
  BY <1>1, SetStatusIs
<1> HIDE DEF u
<1>5. /\ IsState(v) /\ v.oms = u.oms /\ v.risk = u.risk /\ v.mm = u.mm /\ v.error = u.error
      /\ v.queue = q
  <2>1. u.queue = s.queue
    BY <1>4
  <2> HIDE DEF q
  <2>2. v = [u EXCEPT !.queue = q]
    BY <2>1 DEF q
  <2> HIDE DEF v
  <2> QED
    BY <1>4, <2>2 DEF IsState
<1> HIDE DEF v
<1>6. /\ IsState(w) /\ w.oms = v.oms /\ w.risk = v.risk /\ w.queue = v.queue
      /\ w.error = v.error
  BY <1>5 DEF IsState
<1>7. /\ w.mm.active = [v.mm.active EXCEPT ![side] = NoOrder]
      /\ w.mm.quote = v.mm.quote /\ w.mm.position = v.mm.position
  BY <1>5 DEF IsState
<1>8. w = Drop(s, now, side)
  BY <1>3 DEF Drop
<1> HIDE DEF w
<1>9. Balanced(after, s.oms.holdings, s.oms.cash, s.risk, s.mm.position)
  <2>1. "PENDING_CANCEL" \in Status
    BY DEF Status
  <2>2. Balanced(orders, s.oms.holdings, s.oms.cash, s.risk, s.mm.position)
    BY DEF Good
  <2> HIDE DEF orders, id
  <2> QED
    BY <1>1, <2>1, <2>2, RestatedBalance
<1>10. Final(orders, after)
  <2>1. orders[id].status \notin Terminal
    BY <1>2, Zenon DEF Open, Terminal
  <2> HIDE DEF orders, id
  <2> QED
    BY <1>1, <2>1, FinalRestated
<1> HIDE DEF after, q
<1>11. /\ w.oms.orders = after /\ w.mm.active = active2 /\ w.queue = q
       /\ w.oms.holdings = s.oms.holdings /\ w.oms.cash = s.oms.cash
       /\ w.risk = s.risk /\ w.mm.position = s.mm.position /\ w.mm.quote = s.mm.quote
       /\ w.error = s.error
  BY <1>4, <1>5, <1>6, <1>7
<1> HIDE DEF active2
<1>12. s.mm.quote \in [Sides -> Int]
  BY DEF Good
<1>13. Good(w, x, now)
  BY <1>2, <1>6, <1>9, <1>11, <1>12 DEF Good
<1> QED
  BY <1>8, <1>10, <1>11, <1>13 DEF Keeps

\* A table that has grown by an order of which nothing is filled.
LEMMA GrowthKeeps ==
  ASSUME NEW orders, NEW active, NEW q, NEW x, NEW now, Whole(orders, active, q, x, now),
         NEW o \in OrderType, o.filled_qty = 0, NEW id, NEW after, Grown(orders, o, id, after)
  PROVE  /\ Final(orders, after)
         /\ \A h, c, k, p : Balanced(orders, h, c, k, p) => Balanced(after, h, c, k, p)
<1>1. Fresh(orders, active, q, x, id, o, after)
  BY Grows
<1>2. /\ Tabled(after) /\ DOMAIN after = DOMAIN orders \cup {id}
      /\ id \notin DOMAIN orders /\ after[id] = o
      /\ \A i \in DOMAIN orders : after[i] = orders[i]
  BY <1>1 DEF Fresh
<1>3. Tabled(orders)
  BY DEF Whole
<1> QED
  BY <1>2, <1>3, BalanceGrows DEF Final

\* A new quote is refused by a full table, rejected, or tracked and on its way.
LEMMA SendKeeps ==
  ASSUME NEW s, NEW x, NEW now, Good(s, x, now), NEW side \in Sides,
         s.mm.active[side] = NoOrder, s.error = "none", NEW target \in Int
  PROVE  Keeps(s, Send(s, now, side, target), x, now)
<1> DEFINE orders == s.oms.orders
           active == s.mm.active
           id    == Len(orders) + 1
           status == IF Approved(s.risk, side, OrderQty) THEN "PENDING" ELSE "REJECTED"
           order == [price |-> target, qty |-> OrderQty, filled_qty |-> 0, side |-> side,
                     status |-> status]
           after == Append(orders, order)
           p == Create(id, target, OrderQty, side)
           q == SendOutbound(s.queue, now, p)
           t == CreateOrder(s, now, target, OrderQty, side)
           v == [s EXCEPT !.oms.orders = after]
           w == [v EXCEPT !.queue = SendOutbound(@, now, p)]
           active2 == [active EXCEPT ![side] = Len(t.oms.orders)]
           quote2 == [s.mm.quote EXCEPT ![side] = target]
           u == [t EXCEPT !.mm = [active   |-> [@.active EXCEPT ![side] = Len(t.oms.orders)],
                                  quote    |-> [@.quote EXCEPT ![side] = target],
                                  position |-> @.position]]
<1>1. /\ IsState(s) /\ Tabled(orders) /\ orders \in Seq(OrderType) /\ Len(orders) \in Nat
      /\ Len(orders) <= MaxOrders /\ side \in DOMAIN active /\ s.risk \in Int /\ now \in Nat
  <2>1. /\ IsState(s) /\ Tabled(orders) /\ TracksOwn(active, orders) /\ s.risk \in Int /\ now \in Nat
    BY GoodParts
  <2>2. orders \in Seq(OrderType) /\ Len(orders) <= MaxOrders
    BY <2>1 DEF Tabled
  <2> HIDE DEF orders, active
  <2>3. Len(orders) \in Nat
    BY <2>2, LenProperties
  <2>4. side \in DOMAIN active
    BY <2>1 DEF TracksOwn
  <2> QED
    BY <2>1, <2>2, <2>3, <2>4
<1>2. /\ Whole(orders, active, s.queue, x, now) /\ s.mm.quote \in [Sides -> Int]
      /\ Balanced(orders, s.oms.holdings, s.oms.cash, s.risk, s.mm.position)
  BY DEF Good
<1>3. /\ order \in OrderType /\ order.filled_qty = 0 /\ order.qty > 0 /\ order.side = side
      /\ order.status = status
  BY MarketMakerAssumption DEF OrderType, Status, Open, Terminal
<1>4. CASE Len(orders) = MaxOrders
  <2>1. t = Throw(s, Full)
    BY <1>4 DEF CreateOrder, Full
  <2>2. /\ IsState(Throw(s, Full)) /\ Throw(s, Full).queue = s.queue
        /\ Throw(s, Full).mm = s.mm /\ Throw(s, Full).oms = s.oms
    BY <1>1, ThrowKeeps
  <2>3. Throw(s, Full).error = Full /\ Throw(s, Full).risk = s.risk
    BY <1>1 DEF IsState, Throw
  <2>4. Send(s, now, side, target) = t
    BY <2>1, <2>3 DEF Send, Full
  <2>5. Good(Throw(s, Full), x, now)
    BY <1>2, <2>2, <2>3 DEF Good
  <2>6. Final(orders, orders)
    BY DEF Final
  <2> QED
    BY <2>1, <2>2, <2>3, <2>4, <2>5, <2>6 DEF Keeps
<1>5. CASE Len(orders) # MaxOrders
  <2>1. Grown(orders, order, id, after)
    BY <1>1, <1>5, OmsAssumption DEF Grown
  <2>2. /\ Final(orders, after)
        /\ Balanced(after, s.oms.holdings, s.oms.cash, s.risk, s.mm.position)
    <3> HIDE DEF orders, active, order, id, after
    <3> QED
      BY <1>2, <1>3, <2>1, GrowthKeeps
  <2>3. Len(after) = id /\ after[id] = order
    <3> HIDE DEF order
    <3> QED
      BY <1>1, <1>3
  <2> HIDE DEF after
  <2>4. /\ IsState(v) /\ v.oms.orders = after /\ v.oms.holdings = s.oms.holdings
        /\ v.oms.cash = s.oms.cash
    BY <1>1 DEF IsState
  <2>5. /\ v.risk = s.risk /\ v.mm = s.mm /\ v.queue = s.queue /\ v.error = s.error
    BY <1>1 DEF IsState
  <2>6. CASE ~Approved(s.risk, side, OrderQty)
    <3>1. t = v
      BY <1>5, <2>6 DEF CreateOrder, after
    <3>2. order.status = "REJECTED"
      BY <1>3, <2>6
    <3>3. t.oms.orders[Len(t.oms.orders)] = order
      BY <2>3, <2>4, <3>1
    <3>4. Send(s, now, side, target) = t
      BY <3>2, <3>3 DEF Send
    <3>5. Whole(after, active, s.queue, x, now)
      <4> HIDE DEF orders, active, order, id
      <4> QED
        BY <1>2, <1>3, <2>1, <3>2, Rejects
    <3> HIDE DEF v, t
    <3>6. Good(v, x, now)
      BY <1>2, <2>2, <2>4, <2>5, <3>5 DEF Good
    <3> QED
      BY <2>2, <2>4, <2>5, <3>1, <3>4, <3>6 DEF Keeps
  <2>7. CASE Approved(s.risk, side, OrderQty)
    <3>1. t = w
      BY <1>5, <2>7 DEF CreateOrder, after
    <3>2. order.status = "PENDING"
      BY <1>3, <2>7
    <3> HIDE DEF v
    <3>3. /\ IsState(w) /\ w.oms = v.oms /\ w.risk = v.risk /\ w.mm = v.mm /\ w.error = v.error
          /\ w.queue = q
      <4>1. v.queue = s.queue
        BY <2>5
      <4> HIDE DEF q
      <4>2. w = [v EXCEPT !.queue = q]
        BY <4>1 DEF q
      <4> HIDE DEF w
      <4> QED
        BY <2>4, <4>2 DEF IsState
    <3> HIDE DEF w
    <3>4. /\ t.oms.orders = after /\ t.error = "none" /\ IsState(t) /\ t.oms = v.oms
          /\ t.risk = s.risk /\ t.mm = s.mm /\ t.queue = q
      BY <2>4, <2>5, <3>1, <3>3
    <3>5. t.oms.orders[Len(t.oms.orders)] = order /\ Len(t.oms.orders) = id
      BY <2>3, <3>4
    <3>6. Send(s, now, side, target) = u
      BY <3>2, <3>4, <3>5 DEF Send
    <3> HIDE DEF t
    <3>7. /\ IsState(u) /\ u.oms = t.oms /\ u.risk = t.risk /\ u.queue = t.queue
          /\ u.error = t.error
      BY <3>4 DEF IsState
    <3>8. /\ u.mm.active = [t.mm.active EXCEPT ![side] = Len(t.oms.orders)]
          /\ u.mm.quote = [t.mm.quote EXCEPT ![side] = target]
          /\ u.mm.position = t.mm.position
      BY <3>4 DEF IsState
    <3> HIDE DEF u
    <3>9. active2 = [active EXCEPT ![side] = id] /\ u.mm.active = active2 /\ u.mm.quote = quote2
      BY <3>4, <3>5, <3>8
    <3> HIDE DEF active2
    <3>10. quote2 \in [Sides -> Int]
      BY <1>2
    <3> HIDE DEF quote2
    <3>11. Whole(after, active2, q, x, now)
      <4> DEFINE d == Sent(s.queue, now, Latency("Create"), 0, p)
                 r == s.queue
      <4>1. Asks(p, id, order)
        BY DEF Asks
      <4>2. q = r \cup {d}
        BY DEF SendOutbound, Latency, Outbound
      <4>3. Sends(r, now, "Create", p, d)
        BY DEF Sends
      <4>4. active[order.side] = NoOrder /\ active2 = [active EXCEPT ![order.side] = id]
        BY <1>3, <3>9
      <4>5. Whole(orders, active, r, x, now)
        BY <1>2
      <4> HIDE DEF orders, active, order, id, q, d, p, r
      <4>6. Joined(r, d, q)
        BY <4>2 DEF Joined
      <4> QED
        BY <1>3, <2>1, <3>2, <4>1, <4>3, <4>4, <4>5, <4>6, Creates
    <3>12. Good(u, x, now)
      BY <2>2, <2>4, <3>4, <3>7, <3>8, <3>9, <3>10, <3>11 DEF Good
    <3> QED
      BY <1>2, <2>2, <2>4, <3>4, <3>6, <3>7, <3>12 DEF Keeps
  <2> QED
    BY <2>6, <2>7
<1> QED
  BY <1>4, <1>5

\* A handler that does nothing.
LEMMA KeepsNothing ==
  ASSUME NEW s, NEW x, NEW now, Good(s, x, now)
  PROVE  Keeps(s, s, x, now)
  BY DEF Keeps, Final

\* One side's part of an update of the book.
LEMMA QuoteKeeps ==
  ASSUME NEW s, NEW x, NEW now, Good(s, x, now), NEW side \in Sides, NEW target \in Int
  PROVE  Keeps(s, Quote(s, now, side, target), x, now)
<1>1. \/ Quote(s, now, side, target) = s
      \/ s.mm.active[side] # NoOrder /\ Quote(s, now, side, target) = Drop(s, now, side)
      \/ /\ s.mm.active[side] = NoOrder /\ s.error = "none"
         /\ Quote(s, now, side, target) = Send(s, now, side, target)
  BY DEF Quote
<1> QED
  BY <1>1, KeepsNothing, DropKeeps, SendKeeps

\* A quote's price is a whole number.
LEMMA TargetType ==
  ASSUME NEW side, NEW position \in Int, NEW bid \in Int, NEW ask \in Int
  PROVE  Target(side, position, bid, ask) \in Int
<1> DEFINE mid  == (bid + ask) \div 2
           half == HalfSpread \div 2
           skew == IF position > 0 THEN -half ELSE IF position < 0 THEN half ELSE 0
<1>1. mid \in Int /\ half \in Int /\ HalfSpread \in Int
  BY MarketMakerAssumption
<1>2. Target(side, position, bid, ask)
        = IF side = "Bid" THEN mid - HalfSpread + skew ELSE mid + HalfSpread + skew
  BY DEF Target
<1> HIDE DEF mid, half
<1>3. skew \in Int
  BY <1>1
<1> HIDE DEF skew
<1> QED
  BY <1>1, <1>2, <1>3

\* An update of the book.
LEMMA BookUpdateKeeps ==
  ASSUME NEW s, NEW x, NEW now, Good(s, x, now), NEW bid \in Int, NEW ask \in Int
  PROVE  Keeps(s, OnBookUpdate(s, now, bid, ask), x, now)
<1> DEFINE c == CancelActive(s, now, "Bid")
           d == CancelActive(c, now, "Ask")
           a == Target("Bid", s.mm.position, bid, ask)
           b == Target("Ask", s.mm.position, bid, ask)
           r == Quote(s, now, "Bid", a)
           u == Quote(r, now, "Ask", b)
<1>1. "Bid" \in Sides /\ "Ask" \in Sides
  BY DEF Sides
<1>2. ASSUME NEW t, Good(t, x, now), NEW side \in Sides
      PROVE  Keeps(t, CancelActive(t, now, side), x, now)
  BY <1>2, DropKeeps, KeepsNothing DEF CancelActive
<1>3. Keeps(s, d, x, now)
  <2>1. Keeps(s, c, x, now) /\ Good(c, x, now)
    BY <1>1, <1>2 DEF Keeps
  <2> HIDE DEF c
  <2>2. Keeps(c, d, x, now)
    BY <1>1, <1>2, <2>1
  <2> HIDE DEF d
  <2> QED
    BY <2>1, <2>2, KeepsTwice
<1>4. Keeps(s, u, x, now)
  <2>1. a \in Int /\ b \in Int
    BY GoodParts, TargetType
  <2> HIDE DEF a, b
  <2>2. Keeps(s, r, x, now) /\ Good(r, x, now)
    BY <1>1, <2>1, QuoteKeeps DEF Keeps
  <2> HIDE DEF r
  <2>3. Keeps(r, u, x, now)
    BY <1>1, <2>1, <2>2, QuoteKeeps
  <2> HIDE DEF u
  <2> QED
    BY <2>2, <2>3, KeepsTwice
<1> HIDE DEF c, d, r, u
<1>5. OnBookUpdate(s, now, bid, ask) = d \/ OnBookUpdate(s, now, bid, ask) = u
  BY DEF OnBookUpdate, c, d, a, b, r, u
<1> QED
  BY <1>3, <1>4, <1>5

---------------------------------------------------------------------------
(* Acknowledgements. *)

\* The state of a handler that is given e, the first of the events of q.
Hearing(s, q, e, x, now) ==
  /\ IsState(s) /\ s.mm.quote \in [Sides -> Int]
  /\ Whole(s.oms.orders, s.mm.active, q, x, now)
  /\ Balanced(s.oms.orders, s.oms.holdings, s.oms.cash, s.risk, s.mm.position)
  /\ s.queue = q \ {e} /\ IsTop(e, q) /\ e.timestamp >= now

\* What is known of such a state and its event.
LEMMA Heard ==
  ASSUME NEW s, NEW q, NEW e, NEW x, NEW now, Hearing(s, q, e, x, now)
  PROVE  /\ IsState(s) /\ Tabled(s.oms.orders) /\ e.timestamp \in Nat
         /\ e.payload.order_id \in DOMAIN s.oms.orders
         /\ IsPayload(e.payload, s.oms.orders)
         /\ TracksOwn(s.mm.active, s.oms.orders)
<1>1. Whole(s.oms.orders, s.mm.active, q, x, now) /\ e \in q /\ IsState(s)
  BY DEF Hearing, IsTop
<1>2. Timely(q, now) /\ Tabled(s.oms.orders) /\ IsPayload(e.payload, s.oms.orders)
      /\ TracksOwn(s.mm.active, s.oms.orders)
  BY <1>1 DEF Whole
<1>3. e.timestamp \in Nat
  BY <1>1, <1>2 DEF Timely, IsEvent
<1>4. e.payload.order_id \in DOMAIN s.oms.orders
  BY <1>2 DEF IsPayload
<1> QED
  BY <1>1, <1>2, <1>3, <1>4

\* The order becomes live.
LEMMA LiveKeeps ==
  ASSUME NEW s, NEW q, NEW e, NEW x, NEW now, Hearing(s, q, e, x, now),
         e.payload.kind = "AckCreate"
  PROVE  Keeps(s, AckCreateOrder(s, e.payload.order_id), x, e.timestamp)
<1> DEFINE orders == s.oms.orders
           id == e.payload.order_id
           later == e.timestamp
           after == [orders EXCEPT ![id] = Restate(orders[id], "LIVE", orders[id].filled_qty)]
           t == SetStatus(s, id, "LIVE")
<1>1. IsState(s) /\ Tabled(orders) /\ id \in DOMAIN orders /\ later \in Nat
  BY Heard
<1>2. /\ Whole(orders, s.mm.active, q, x, now) /\ later >= now /\ IsTop(e, q)
      /\ Balanced(orders, s.oms.holdings, s.oms.cash, s.risk, s.mm.position)
      /\ s.queue = q \ {e} /\ s.mm.quote \in [Sides -> Int]
  BY DEF Hearing
<1>3. /\ IsState(t) /\ t.oms.orders = after
      /\ t.oms.holdings = s.oms.holdings /\ t.oms.cash = s.oms.cash
      /\ t.risk = s.risk /\ t.mm = s.mm /\ t.queue = s.queue /\ t.error = s.error
  BY <1>1, SetStatusIs
<1>4. AckCreateOrder(s, id) = t
  BY DEF AckCreateOrder
<1> HIDE DEF t
<1>5. orders[id].status \notin Terminal /\ Whole(after, s.mm.active, q \ {e}, x, later)
  <2> DEFINE active == s.mm.active
  <2>1. Whole(orders, active, q, x, now) /\ id = e.payload.order_id
    BY <1>2
  <2> HIDE DEF orders, active, id, later, after
  <2>2. /\ orders[id].status \notin Terminal
        /\ Whole([orders EXCEPT ![id] = Restate(orders[id], "LIVE", orders[id].filled_qty)],
                 active, q \ {e}, x, later)
    BY <1>1, <1>2, <2>1, HearsCreate
  <2> QED
    BY <2>2 DEF after, active
<1>6. Balanced(after, s.oms.holdings, s.oms.cash, s.risk, s.mm.position)
  <2>1. "LIVE" \in Status
    BY DEF Status, Open
  <2> HIDE DEF orders, id
  <2> QED
    BY <1>1, <1>2, <2>1, RestatedBalance
<1>7. Final(orders, after)
  <2> HIDE DEF orders, id
  <2> QED
    BY <1>1, <1>5, FinalRestated
<1> HIDE DEF after
<1>8. Good(t, x, later)
  BY <1>2, <1>3, <1>5, <1>6 DEF Good
<1> QED
  BY <1>3, <1>4, <1>7, <1>8 DEF Keeps

\* What Untrack does to the strategy.
LEMMA UntrackIs ==
  ASSUME NEW s, IsState(s), s.mm.quote \in [Sides -> Int], NEW id
  PROVE  LET t == Untrack(s, id)
         IN  /\ IsState(t) /\ t.oms = s.oms /\ t.risk = s.risk /\ t.queue = s.queue
             /\ t.error = s.error /\ t.mm.active = Untracked(s.mm.active, id)
             /\ t.mm.position = s.mm.position /\ t.mm.quote \in [Sides -> Int]
<1> DEFINE t == Untrack(s, id)
           quote == [side \in Sides |-> IF s.mm.active[side] = id THEN NoPrice ELSE s.mm.quote[side]]
<1>1. t = [s EXCEPT !.mm = [active |-> Untracked(s.mm.active, id), quote |-> quote,
                            position |-> s.mm.position]]
  BY DEF Untrack, Untracked, IsState
<1>2. quote \in [Sides -> Int]
  BY DEF NoPrice
<1> HIDE DEF t, quote
<1>3. /\ IsState(t) /\ t.oms = s.oms /\ t.risk = s.risk /\ t.queue = s.queue
      /\ t.error = s.error
  BY <1>1 DEF IsState
<1>4. /\ t.mm.active = Untracked(s.mm.active, id) /\ t.mm.quote = quote
      /\ t.mm.position = s.mm.position
  BY <1>1 DEF IsState
<1> QED
  BY <1>2, <1>3, <1>4 DEF t

\* The order is cancelled and forgotten.
LEMMA CancelledKeeps ==
  ASSUME NEW s, NEW q, NEW e, NEW x, NEW now, Hearing(s, q, e, x, now),
         e.payload.kind = "AckCancel"
  PROVE  LET id == e.payload.order_id
         IN  Keeps(s, OnOrderCanceled(AckCancelOrder(s, id), id), x, e.timestamp)
<1> DEFINE orders == s.oms.orders
           active == s.mm.active
           id == e.payload.order_id
           later == e.timestamp
           status == IF orders[id].status = "FILLED" THEN "FILLED" ELSE "CANCELLED"
           after == [orders EXCEPT ![id] = Restate(orders[id], status, orders[id].filled_qty)]
           t == AckCancelOrder(s, id)
           u == Untrack(t, id)
<1>1. IsState(s) /\ Tabled(orders) /\ id \in DOMAIN orders /\ later \in Nat
  BY Heard
<1>2. /\ Whole(orders, active, q, x, now) /\ later >= now /\ IsTop(e, q)
      /\ Balanced(orders, s.oms.holdings, s.oms.cash, s.risk, s.mm.position)
      /\ s.queue = q \ {e} /\ s.mm.quote \in [Sides -> Int]
  BY DEF Hearing
<1>3. /\ IsState(t) /\ t.oms.orders = after
      /\ t.oms.holdings = s.oms.holdings /\ t.oms.cash = s.oms.cash
      /\ t.risk = s.risk /\ t.mm = s.mm /\ t.queue = s.queue /\ t.error = s.error
  <2>1. CASE orders[id].status = "FILLED"
    <3>1. t = s
      BY <2>1 DEF AckCancelOrder
    <3>2. after = orders
      <4>1. orders[id] \in OrderType /\ orders \in Seq(OrderType)
        BY <1>1 DEF Tabled
      <4> DEFINE o == orders[id]
      <4>2. Restate(o, "FILLED", o.filled_qty) = o
        <5>1. o.status = "FILLED" /\ o \in OrderType
          BY <2>1, <4>1
        <5> HIDE DEF o
        <5>2. o = [price |-> o.price, qty |-> o.qty, filled_qty |-> o.filled_qty,
                   side |-> o.side, status |-> o.status]
          BY <5>1 DEF OrderType
        <5> QED
          BY <5>1, <5>2 DEF Restate
      <4>3. after = [orders EXCEPT ![id] = orders[id]]
        BY <2>1, <4>2
      <4> HIDE DEF orders, id, after
      <4> QED
        BY <4>1, <4>3
    <3> QED
      BY <1>1, <3>1, <3>2
  <2>2. CASE orders[id].status # "FILLED"
    <3>1. t = SetStatus(s, id, "CANCELLED")
      BY <2>2 DEF AckCancelOrder
    <3>2. status = "CANCELLED"
      BY <2>2
    <3> QED
      BY <1>1, <3>1, <3>2, SetStatusIs
  <2> QED
    BY <2>1, <2>2
<1>4. OnOrderCanceled(AckCancelOrder(s, id), id) = u
  BY DEF OnOrderCanceled
<1> HIDE DEF t
<1>5. /\ orders[id].status \in Terminal => orders[id].status = "FILLED"
      /\ Whole(after, Untracked(active, id), q \ {e}, x, later)
  <2>1. id = e.payload.order_id
        /\ Ends(orders[id], status)
    BY DEF Ends
  <2> HIDE DEF orders, active, id, later, status, after
  <2>2. /\ AtMostFilled(orders[id])
        /\ Whole([orders EXCEPT ![id] = Restate(orders[id], status, orders[id].filled_qty)],
                 Untracked(active, id), q \ {e}, x, later)
    BY <1>1, <1>2, <2>1, HearsCancel
  <2> QED
    BY <2>2 DEF after, AtMostFilled
<1>6. Balanced(after, s.oms.holdings, s.oms.cash, s.risk, s.mm.position)
  <2>1. status \in Status
    BY DEF Status, Terminal
  <2> HIDE DEF orders, id, status
  <2> QED
    BY <1>1, <1>2, <2>1, RestatedBalance
<1>7. Final(orders, after)
  <2>1. orders[id].status \in Terminal => Restate(orders[id], status, orders[id].filled_qty) = orders[id]
    <3> DEFINE o == orders[id]
    <3>1. o \in OrderType
      BY <1>1 DEF Tabled
    <3>2. o = [price |-> o.price, qty |-> o.qty, filled_qty |-> o.filled_qty,
               side |-> o.side, status |-> o.status]
      <4> HIDE DEF o
      <4> QED
        BY <3>1 DEF OrderType
    <3>3. o.status \in Terminal => o.status = status
      BY <1>5
    <3> HIDE DEF o, status
    <3> QED
      BY <3>2, <3>3 DEF Restate, o
  <2> HIDE DEF orders, id, status
  <2> QED
    BY <1>1, <2>1, FinalRestated
<1> HIDE DEF after
<1>8. /\ IsState(u) /\ u.oms = t.oms /\ u.risk = t.risk /\ u.queue = t.queue
      /\ u.error = t.error /\ u.mm.active = Untracked(t.mm.active, id)
      /\ u.mm.position = t.mm.position /\ u.mm.quote \in [Sides -> Int]
  <2>1. t.mm.quote \in [Sides -> Int]
    BY <1>2, <1>3
  <2> QED
    BY <1>3, <2>1, UntrackIs
<1> HIDE DEF u
<1>9. u.mm.active = Untracked(active, id)
  BY <1>3, <1>8
<1>10. Good(u, x, later)
  BY <1>2, <1>3, <1>5, <1>6, <1>8, <1>9 DEF Good
<1> QED
  BY <1>3, <1>4, <1>7, <1>8, <1>10 DEF Keeps

\* The fill is booked, whole, and the order forgotten if nothing of it is left.
LEMMA FillKeeps ==
  ASSUME NEW s, NEW q, NEW e, NEW x, NEW now, Hearing(s, q, e, x, now),
         e.payload.kind = "AckFill"
  PROVE  LET p == e.payload
             r == AckFillOrder(s, p.order_id, p.filled_qty, p.price)
         IN  r.error = s.error /\ Keeps(s, OnOrderFilled(r, p.order_id, p.filled_qty), x, e.timestamp)
<1> DEFINE orders == s.oms.orders
           active == s.mm.active
           id == e.payload.order_id
           k == e.payload.filled_qty
           paid == e.payload.price
           later == e.timestamp
           o == orders[id]
           filled == o.filled_qty + k
           status == IF filled = o.qty THEN "FILLED" ELSE "PARTIALLY_FILLED"
           side == o.side
           bought == IF side = "Bid" THEN k ELSE -k
           after == [orders EXCEPT ![id] = Restate(o, status, filled)]
           risk2 == IF side = "Ask" THEN s.risk - k ELSE s.risk + k
           place == IF side = "Bid" THEN s.mm.position + k ELSE s.mm.position - k
           active2 == IF status = "FILLED" THEN Untracked(active, id) ELSE active
           new == [orders   |-> after,
                   holdings |-> s.oms.holdings + bought,
                   cash     |-> s.oms.cash - bought * paid]
           b == [s EXCEPT !.oms = new]
           r == [b EXCEPT !.risk = risk2]
           t == [r EXCEPT !.mm.position = place]
           u == IF status = "FILLED" THEN Untrack(t, id) ELSE t
<1>1. /\ IsState(s) /\ Tabled(orders) /\ id \in DOMAIN orders /\ later \in Nat
      /\ IsPayload(e.payload, orders)
  BY Heard
<1>2. /\ Whole(orders, active, q, x, now) /\ later >= now /\ IsTop(e, q)
      /\ Balanced(orders, s.oms.holdings, s.oms.cash, s.risk, s.mm.position)
      /\ s.queue = q \ {e} /\ s.mm.quote \in [Sides -> Int]
  BY DEF Hearing
<1>3. /\ k \in Nat \ {0} /\ o.status \in {"LIVE", "PARTIALLY_FILLED", "PENDING_CANCEL"}
      /\ k <= o.qty - o.filled_qty
      /\ Whole(after, active2, q \ {e}, x, later)
  <2>1. /\ id = e.payload.order_id /\ k = e.payload.filled_qty
        /\ Books(orders[id], k, filled, status) /\ Forgets(active, id, status, active2)
    BY DEF Books, Forgets
  <2> HIDE DEF orders, active, id, k, later, filled, status, active2
  <2>2. /\ k \in Nat \ {0}
        /\ orders[id].status \in {"LIVE", "PARTIALLY_FILLED", "PENDING_CANCEL"}
        /\ k <= orders[id].qty - orders[id].filled_qty
        /\ Whole([orders EXCEPT ![id] = Restate(orders[id], status, filled)],
                 active2, q \ {e}, x, later)
    BY <1>1, <1>2, <2>1, HearsFill, ZenonT(40)
  <2> QED
    BY <2>2
<1>4. paid \in Int /\ ~VX!Better(side, paid, o.price)
  BY <1>1 DEF IsPayload, Create, Cancel, AckCreate, AckCancel
<1>5. o \in OrderType /\ o.qty \in Nat /\ o.filled_qty \in Nat /\ side \in Sides
  <2>1. o \in OrderType
    BY <1>1 DEF Tabled
  <2> HIDE DEF o
  <2> QED
    BY <2>1 DEF OrderType
<1>6. AckFillOrder(s, id, k, paid) = r
  <2>1. AckFillOrder(s, id, k, paid) = BookFill(s, id, k, paid)
    <3> DEFINE booked == BookFill(s, id, k, paid)
    <3>1. ~(k > o.qty - o.filled_qty)
      <4> DEFINE room == o.qty - o.filled_qty
      <4>1. k \in Nat /\ room \in Int /\ k <= room
        <5>1. k \in Nat \ {0} /\ k <= o.qty - o.filled_qty
          BY <1>3, Zenon
        <5> HIDE DEF k, o
        <5>2. k \in Nat /\ room \in Int
          BY <1>5, <5>1
        <5> QED
          BY <5>1, <5>2
      <4> HIDE DEF room, k, o
      <4>2. ~(k > room)
        BY <4>1
      <4> QED
        BY <4>2 DEF room
    <3> HIDE DEF k, paid, booked
    <3> QED
      BY <1>3, <3>1, Zenon DEF AckFillOrder, booked
  <2>2. BookFill(s, id, k, paid) = r
    BY <1>1 DEF BookFill, Restate, IsState
  <2> QED
    BY <2>1, <2>2
<1>7. Balanced(after, s.oms.holdings + bought, s.oms.cash - bought * paid, risk2, place)
  <2>1. status \in Status /\ side = orders[id].side /\ bought = IF side = "Bid" THEN k ELSE -k
    BY DEF Status, Open, Terminal
  <2>2. /\ after = [orders EXCEPT ![id] = Restate(orders[id], status, orders[id].filled_qty + k)]
        /\ ~VX!Better(side, paid, orders[id].price)
        /\ risk2 = IF side = "Ask" THEN s.risk - k ELSE s.risk + k
        /\ place = IF side = "Bid" THEN s.mm.position + k ELSE s.mm.position - k
    BY <1>4
  <2> DEFINE h == s.oms.holdings
             c == s.oms.cash
             risk1 == s.risk
             position == s.mm.position
  <2>3. Balanced(orders, h, c, risk1, position)
    BY <1>2
  <2> HIDE DEF orders, id, k, paid, status, side, bought, h, c, risk1, position
  <2>4. Balanced([orders EXCEPT ![id] = Restate(orders[id], status, orders[id].filled_qty + k)],
                  h + bought, c - bought * paid,
                  IF side = "Ask" THEN risk1 - k ELSE risk1 + k,
                  IF side = "Bid" THEN position + k ELSE position - k)
    BY <1>1, <1>3, <1>4, <2>1, <2>2, <2>3, BalanceFilled
  <2> QED
    BY <2>2, <2>4 DEF h, c, risk1, position
<1>8. Final(orders, after)
  <2>1. orders[id].status \notin Terminal
    BY <1>3, Zenon DEF Terminal
  <2> DEFINE n == Restate(o, status, filled)
  <2> HIDE DEF orders, id, n
  <2> QED
    BY <1>1, <2>1, FinalRestated DEF n
<1> HIDE DEF after, bought, risk2, place, active2, status
<1>9. /\ IsState(b) /\ b.oms = new /\ b.risk = s.risk /\ b.mm = s.mm /\ b.queue = s.queue
      /\ b.error = s.error
  BY <1>1 DEF IsState
<1>10. /\ new.orders = after /\ new.holdings = s.oms.holdings + bought
       /\ new.cash = s.oms.cash - bought * paid
  OBVIOUS
<1> HIDE DEF b, new
<1>11. /\ IsState(r) /\ r.oms = new /\ r.risk = risk2 /\ r.mm = s.mm /\ r.queue = s.queue
       /\ r.error = s.error
  BY <1>9 DEF IsState
<1> HIDE DEF r
<1>12. /\ IsState(t) /\ t.oms = r.oms /\ t.risk = r.risk /\ t.queue = r.queue
       /\ t.error = r.error
  BY <1>11 DEF IsState
<1>13. /\ t.mm.active = r.mm.active /\ t.mm.quote = r.mm.quote /\ t.mm.position = place
  BY <1>11 DEF IsState
<1>14. r.oms.orders[id].side = side /\ r.oms.orders[id].status = status
  BY <1>1, <1>10, <1>11 DEF Restate, after
<1>15. OnOrderFilled(r, id, k) = u
  BY <1>11, <1>14 DEF OnOrderFilled, place
<1> HIDE DEF t
<1>16. /\ IsState(u) /\ u.oms = t.oms /\ u.risk = t.risk /\ u.queue = t.queue
       /\ u.error = t.error /\ u.mm.active = active2
       /\ u.mm.position = t.mm.position /\ u.mm.quote \in [Sides -> Int]
  <2>1. t.mm.quote \in [Sides -> Int] /\ t.mm.active = active
    BY <1>2, <1>11, <1>13
  <2>2. CASE status = "FILLED"
    <3>1. u = Untrack(t, id) /\ active2 = Untracked(active, id)
      BY <2>2 DEF active2
    <3> QED
      BY <1>12, <2>1, <3>1, UntrackIs
  <2>3. CASE status # "FILLED"
    <3>1. u = t /\ active2 = active
      BY <2>3 DEF active2
    <3> QED
      BY <1>12, <2>1, <3>1
  <2> QED
    BY <2>2, <2>3
<1> HIDE DEF u
<1>17. /\ u.oms.orders = after /\ u.oms.holdings = s.oms.holdings + bought
       /\ u.oms.cash = s.oms.cash - bought * paid /\ u.risk = risk2 /\ u.queue = q \ {e}
       /\ u.mm.position = place /\ u.error = s.error
  BY <1>2, <1>10, <1>11, <1>12, <1>13, <1>16
<1>18. Good(u, x, later)
  BY <1>3, <1>7, <1>16, <1>17 DEF Good
<1> QED
  BY <1>6, <1>8, <1>11, <1>15, <1>17, <1>18 DEF Keeps

---------------------------------------------------------------------------
(* The market's book. *)

\* Finitely many orders, each of something.
BookOK == /\ IsFiniteSet(DOMAIN book)
          /\ \A id \in DOMAIN book : book[id] \in [side : Sides, price : Nat, size : Nat \ {0}]

\* The best price of a side is a number, also where there is none.
LEMMA BestType ==
  ASSUME NEW b, IsFiniteSet(DOMAIN b), \A id \in DOMAIN b : b[id].price \in Nat, NEW side
  PROVE  Best(b, side) \in Int
<1> DEFINE R == Resting(b, side)
           prices == {b[id].price : id \in R}
           price == [id \in R |-> b[id].price]
<1>1. IsFiniteSet(R)
  <2>1. R \in SUBSET DOMAIN b
    BY DEF Resting
  <2> QED
    BY <2>1, FS_Subset
<1>2. price \in Surjection(R, prices)
  BY DEF Surjection
<1>3. prices \in SUBSET Int
  BY DEF Resting
<1>4. Best(b, side) = IF prices = {} THEN 0 ELSE IF side = "Bid" THEN Max(prices) ELSE Min(prices)
  BY DEF Best
<1> HIDE DEF R, prices, price
<1>5. IsFiniteSet(prices)
  BY <1>1, <1>2, FS_Surjection
<1>6. prices # {} => Max(prices) \in Int /\ Min(prices) \in Int
  BY <1>3, <1>5, GreatestElement, LeastElement
<1> QED
  BY <1>4, <1>6

\* The volume at a price is a number.
LEMMA LevelQtyType ==
  ASSUME NEW b, IsFiniteSet(DOMAIN b), \A id \in DOMAIN b : b[id].size \in Nat,
         NEW side, NEW price
  PROVE  LevelQty(b, side, price) \in Int
<1> DEFINE R == {id \in Resting(b, side) : b[id].price = price}
           w == [id \in R |-> b[id].size]
           f == CHOOSE g : g = [T \in SUBSET R |-> IF T = {} THEN 0
                  ELSE b[CHOOSE x \in T : TRUE].size + g[T \ {CHOOSE x \in T : TRUE}]]
<1>1. IsFiniteSet(R) /\ Weighs(w, R)
  <2>1. R \in SUBSET DOMAIN b
    BY DEF Resting
  <2> QED
    BY <2>1, FS_Subset DEF Weighs
<1>2. LevelQty(b, side, price) = f[R]
  BY DEF LevelQty, MapThenSumSet, MapThenFoldSet
<1>3. \A T \in SUBSET R : T # {} => w[CHOOSE x \in T : TRUE] = b[CHOOSE x \in T : TRUE].size
  OBVIOUS
<1> HIDE DEF R, w
<1>4. PICK g : Unfolds(g, w, R)
  BY <1>1, SumUnfolds
<1>5. g = [T \in SUBSET R |-> IF T = {} THEN 0
             ELSE b[CHOOSE x \in T : TRUE].size + g[T \ {CHOOSE x \in T : TRUE}]]
  BY <1>3, <1>4 DEF Unfolds
<1>6. f = [T \in SUBSET R |-> IF T = {} THEN 0
             ELSE b[CHOOSE x \in T : TRUE].size + f[T \ {CHOOSE x \in T : TRUE}]]
  BY <1>5 DEF f
<1> HIDE DEF f
<1>7. Unfolds(f, w, R)
  BY <1>3, <1>6 DEF Unfolds
<1>8. f[R] = SumOver(w, R)
  BY <1>1, <1>7, SumUnfolds
<1> QED
  BY <1>1, <1>2, <1>8, SumWithout

---------------------------------------------------------------------------
(* The quantities the properties are about, and those of the invariant. *)

\* The quantity of an order's fills in the network.
LEMMA FillsAreFilling ==
  ASSUME IsFiniteSet(queue), NEW id,
         \A e \in Of(queue, "AckFill", id) : e.payload.filled_qty \in Nat
  PROVE  FillsInFlight(id) = Filling(queue, id)
<1> DEFINE R == Of(queue, "AckFill", id)
           w == [e \in R |-> e.payload.filled_qty]
           f == CHOOSE g : g = [T \in SUBSET R |-> IF T = {} THEN 0
                  ELSE (CHOOSE x \in T : TRUE).payload.filled_qty + g[T \ {CHOOSE x \in T : TRUE}]]
<1>1. IsFiniteSet(R) /\ Weighs(w, R)
  <2>1. R \in SUBSET queue
    BY DEF Of
  <2> QED
    BY <2>1, FS_Subset DEF Weighs
<1>2. FillsInFlight(id) = f[R] /\ Filling(queue, id) = SumOver(w, R)
  BY DEF FillsInFlight, MapThenSumSet, MapThenFoldSet, Filling, Of
<1>3. \A T \in SUBSET R : T # {} =>
        w[CHOOSE x \in T : TRUE] = (CHOOSE x \in T : TRUE).payload.filled_qty
  OBVIOUS
<1> HIDE DEF R, w
<1>4. PICK g : Unfolds(g, w, R)
  BY <1>1, SumUnfolds
<1>5. g = [T \in SUBSET R |-> IF T = {} THEN 0
             ELSE (CHOOSE x \in T : TRUE).payload.filled_qty + g[T \ {CHOOSE x \in T : TRUE}]]
  BY <1>3, <1>4 DEF Unfolds
<1>6. f = [T \in SUBSET R |-> IF T = {} THEN 0
             ELSE (CHOOSE x \in T : TRUE).payload.filled_qty + f[T \ {CHOOSE x \in T : TRUE}]]
  BY <1>5 DEF f
<1> HIDE DEF f
<1>7. Unfolds(f, w, R)
  BY <1>3, <1>6 DEF Unfolds
<1> QED
  BY <1>1, <1>2, <1>7, SumUnfolds

\* What is booked on the orders of a side.
LEMMA BookedIs ==
  ASSUME Tabled(oms.orders), NEW side
  PROVE  BookedOf(side) = Booked(oms.orders, side)
<1> DEFINE R == OfSide(oms.orders, side)
           w == Bookings(oms.orders)
           f == CHOOSE g : g = [T \in SUBSET R |-> IF T = {} THEN 0
                  ELSE oms.orders[CHOOSE x \in T : TRUE].filled_qty + g[T \ {CHOOSE x \in T : TRUE}]]
<1>1. IsFiniteSet(R) /\ Weighs(w, R)
  BY TableWeighs
<1>2. BookedOf(side) = f[R] /\ Booked(oms.orders, side) = SumOver(w, R)
  BY DEF BookedOf, MapThenSumSet, MapThenFoldSet, Booked, OfSide, Ids, Order
<1>3. \A T \in SUBSET R : T # {} =>
        w[CHOOSE x \in T : TRUE] = oms.orders[CHOOSE x \in T : TRUE].filled_qty
  BY DEF Bookings, OfSide
<1> HIDE DEF R, w
<1>4. PICK g : Unfolds(g, w, R)
  BY <1>1, SumUnfolds
<1>5. g = [T \in SUBSET R |-> IF T = {} THEN 0
             ELSE oms.orders[CHOOSE x \in T : TRUE].filled_qty + g[T \ {CHOOSE x \in T : TRUE}]]
  BY <1>3, <1>4 DEF Unfolds
<1>6. f = [T \in SUBSET R |-> IF T = {} THEN 0
             ELSE oms.orders[CHOOSE x \in T : TRUE].filled_qty + f[T \ {CHOOSE x \in T : TRUE}]]
  BY <1>5, ZenonT(40) DEF f
<1> HIDE DEF f
<1>7. Unfolds(f, w, R)
  BY <1>3, <1>6, SMTT(30) DEF Unfolds
<1> QED
  BY <1>1, <1>2, <1>7, SumUnfolds

\* And what that is worth at their limits.
LEMMA ValuedIs ==
  ASSUME Tabled(oms.orders), NEW side
  PROVE  LimitValueOf(side) = Valued(oms.orders, side)
<1> DEFINE R == OfSide(oms.orders, side)
           w == Values(oms.orders)
           value(i) == oms.orders[i].filled_qty * oms.orders[i].price
           f == CHOOSE g : g = [T \in SUBSET R |-> IF T = {} THEN 0
                  ELSE value(CHOOSE x \in T : TRUE) + g[T \ {CHOOSE x \in T : TRUE}]]
<1>1. IsFiniteSet(R) /\ Weighs(w, R)
  BY TableWeighs
<1>2. LimitValueOf(side) = f[R] /\ Valued(oms.orders, side) = SumOver(w, R)
  BY DEF LimitValueOf, MapThenSumSet, MapThenFoldSet, Valued, OfSide, Ids, Order
<1>3. \A T \in SUBSET R : T # {} => w[CHOOSE x \in T : TRUE] = value(CHOOSE x \in T : TRUE)
  BY DEF Values, OfSide
<1> HIDE DEF R, w, value
<1>4. PICK g : Unfolds(g, w, R)
  BY <1>1, SumUnfolds
<1>5. g = [T \in SUBSET R |-> IF T = {} THEN 0
             ELSE value(CHOOSE x \in T : TRUE) + g[T \ {CHOOSE x \in T : TRUE}]]
  BY <1>3, <1>4 DEF Unfolds
<1>6. f = [T \in SUBSET R |-> IF T = {} THEN 0
             ELSE value(CHOOSE x \in T : TRUE) + f[T \ {CHOOSE x \in T : TRUE}]]
  BY <1>5, ZenonT(40) DEF f
<1> HIDE DEF f
<1>7. Unfolds(f, w, R)
  BY <1>3, <1>6 DEF Unfolds
<1> QED
  BY <1>1, <1>2, <1>7, SumUnfolds

---------------------------------------------------------------------------
(* The engine's invariant. *)

\* What the components hold, between two steps of the engine.
Sane == /\ mm.quote \in [Sides -> Int]
        /\ Whole(oms.orders, mm.active, queue, vx, engine_time)
        /\ Balanced(oms.orders, oms.holdings, oms.cash, risk, mm.position)

\* The message in hand is of orders the book can be told of.
MessageOK ==
  /\ msg.action \in {"no message", "Add", "Modify", "Cancel", "Clear", "Fill", "Trade"}
  /\ msg # NoMsg =>
       /\ msg.ts_recv \in Nat
       /\ msg.action \in {"Add", "Modify", "Cancel", "Fill"} =>
            msg.side \in Sides /\ msg.price \in Nat /\ msg.size \in Nat \ {0}
       /\ msg.action = "Cancel" =>
            msg.order_id \in DOMAIN book /\ msg.size <= book[msg.order_id].size

Fed == /\ BookOK /\ MessageOK
       /\ engine_time \in Nat /\ fed \in 0..MaxFeed /\ reading_feed \in BOOLEAN

EngineInv == /\ TimedShape /\ Sane /\ Fed
             /\ error \in {"none", Full}

\* What a step does to the components, when the error is that of s or a full table's.
Progress == /\ Sane' /\ Final(oms.orders, oms'.orders)
            /\ error' \in {"none", Full}

\* An event in the network can be routed now, or later.
LEMMA EventTime ==
  ASSUME EngineInv, NEW e \in queue
  PROVE  e.timestamp \in Nat /\ e.timestamp >= engine_time
<1>1. Timely(queue, engine_time)
  BY DEF EngineInv, Sane, Whole
<1>2. e.timestamp \in Nat
  BY <1>1 DEF Timely, IsEvent
<1> QED
  BY <1>2 DEF EngineInv, TimedShape, TimeInv

\* The state the handlers are given, with the event they are given.
LEMMA StateHears ==
  ASSUME EngineInv, NEW e \in queue, IsTop(e, queue), error = "none"
  PROVE  /\ Hearing(State(queue \ {e}), queue, e, vx, engine_time)
         /\ State(queue \ {e}).error = "none" /\ State(queue \ {e}).oms = oms
<1> DEFINE s == State(queue \ {e})
<1>1. IsState(s) /\ s.queue = queue \ {e}
  BY StateIsState DEF EngineInv, TimedShape
<1>2. s.oms = oms /\ s.mm = mm /\ s.risk = risk /\ s.error = error
  BY DEF State
<1> HIDE DEF s
<1>3. e.timestamp >= engine_time
  BY EventTime
<1>4. Sane
  BY DEF EngineInv
<1>5. Hearing(s, queue, e, vx, engine_time)
  BY <1>1, <1>2, <1>3, <1>4 DEF Hearing, Sane
<1> QED
  BY <1>2, <1>5 DEF s

\* What a handler made of the state is what the engine goes on with.
LEMMA HandlerProgress ==
  ASSUME NEW s, s.oms = oms, s.error = "none", NEW t, Keeps(s, t, vx', engine_time'), Becomes(t)
  PROVE  Progress
<1>1. /\ Good(t, vx', engine_time') /\ Final(s.oms.orders, t.oms.orders) /\ t.error \in {s.error, Full}
  BY DEF Keeps
<1>2. oms' = t.oms /\ risk' = t.risk /\ mm' = t.mm /\ queue' = t.queue /\ error' = t.error
  BY DEF Becomes
<1>3. Sane'
  BY <1>1, <1>2 DEF Good, Sane
<1> QED
  BY <1>1, <1>2, <1>3 DEF Progress

\* The exchange and the network have changed, and nothing else.
LEMMA MarketProgress ==
  ASSUME EngineInv, UNCHANGED trading, UNCHANGED error,
         Whole(oms.orders, mm.active, queue', vx', engine_time')
  PROVE  Progress
<1>1. oms' = oms /\ risk' = risk /\ mm' = mm /\ error' = error
  BY DEF trading
<1>2. Sane /\ error \in {"none", Full}
  BY DEF EngineInv
<1>3. Sane'
  BY <1>1, <1>2 DEF Sane
<1>4. Final(oms.orders, oms'.orders)
  BY <1>1 DEF Final
<1> QED
  BY <1>1, <1>2, <1>3, <1>4 DEF Progress

\* An order reaches the exchange, which does not know it.
LEMMA CreateProgress ==
  ASSUME EngineInv, NEW e \in queue, RouteCreate(e)
  PROVE  Progress
<1> DEFINE id == e.payload.order_id
           shown == LevelQty(book, e.payload.side, e.payload.price)
           r == SendInbound(queue \ {e}, e.timestamp, AckCreate(id))
<1>1. IsTop(e, queue) /\ Is(e, "Create", id) /\ engine_time' = e.timestamp
  BY DEF RouteCreate, Routes, Is
<1>2. e.timestamp \in Nat /\ e.timestamp >= engine_time
  BY EventTime
<1>3. shown \in Int
  <2>1. IsFiniteSet(DOMAIN book) /\ \A i \in DOMAIN book : book[i].size \in Nat
    BY DEF EngineInv, Fed, BookOK
  <2> QED
    BY <2>1, LevelQtyType
<1>4. Whole(oms.orders, mm.active, queue, vx, engine_time)
  BY DEF EngineInv, Sane
<1>5. /\ VX!Knows(vx, id) => FALSE
      /\ Whole(oms.orders, mm.active, r, VX!OnCreateOrder(vx, e.payload, shown), e.timestamp)
  <2> DEFINE orders == oms.orders
             active == mm.active
             later == e.timestamp
  <2>1. Answered(queue, e, later, AckCreate(id), r)
    BY DEF Answered
  <2>2. Whole(orders, active, queue, vx, engine_time) /\ later \in Nat /\ later >= engine_time
    BY <1>2, <1>4
  <2> HIDE DEF orders, active, later, id, shown, r
  <2>3. /\ ~VX!Knows(vx, id)
        /\ Whole(orders, active, r, VX!OnCreateOrder(vx, e.payload, shown), later)
    BY <1>1, <1>3, <2>1, <2>2, Arrives
  <2> QED
    BY <2>3 DEF orders, active, later
<1>6. /\ vx' = VX!OnCreateOrder(vx, e.payload, shown) /\ queue' = r
      /\ UNCHANGED error /\ UNCHANGED trading
  <2> HIDE DEF shown, r
  <2> QED
    BY <1>5 DEF RouteCreate, shown, r
<1> HIDE DEF shown, r, id
<1>7. Whole(oms.orders, mm.active, queue', vx', engine_time')
  BY <1>1, <1>5, <1>6
<1> QED
  BY <1>6, <1>7, MarketProgress

\* A cancel reaches the exchange.
LEMMA CancelProgress ==
  ASSUME EngineInv, NEW e \in queue, RouteCancel(e)
  PROVE  Progress
<1> DEFINE id == e.payload.order_id
           r == SendInbound(queue \ {e}, e.timestamp, AckCancel(id))
<1>1. IsTop(e, queue) /\ Is(e, "Cancel", id) /\ engine_time' = e.timestamp
  BY DEF RouteCancel, Routes, Is
<1>2. e.timestamp \in Nat /\ e.timestamp >= engine_time
  BY EventTime
<1>3. Whole(oms.orders, mm.active, queue, vx, engine_time)
  BY DEF EngineInv, Sane
<1>4. Whole(oms.orders, mm.active, r, VX!OnCancelOrder(vx, id), e.timestamp)
  <2> DEFINE orders == oms.orders
             active == mm.active
             later == e.timestamp
  <2>1. Answered(queue, e, later, AckCancel(id), r)
    BY DEF Answered
  <2>2. Whole(orders, active, queue, vx, engine_time) /\ later \in Nat /\ later >= engine_time
    BY <1>2, <1>3
  <2> HIDE DEF orders, active, later, id, r
  <2>3. Whole(orders, active, r, VX!OnCancelOrder(vx, id), later)
    BY <1>1, <2>1, <2>2, Leaves
  <2> QED
    BY <2>3 DEF orders, active, later
<1>5. /\ vx' = VX!OnCancelOrder(vx, id) /\ queue' = r
      /\ UNCHANGED error /\ UNCHANGED trading
  BY DEF RouteCancel
<1> HIDE DEF r, id
<1>6. Whole(oms.orders, mm.active, queue', vx', engine_time')
  BY <1>1, <1>4, <1>5
<1> QED
  BY <1>5, <1>6, MarketProgress

\* An acknowledgement reaches the order management system and the strategy.
LEMMA AckProgress ==
  ASSUME EngineInv, NEW e \in queue, RouteAckCreate(e) \/ RouteAckCancel(e) \/ RouteAckFill(e)
  PROVE  Progress
<1> DEFINE s == State(queue \ {e})
           id == e.payload.order_id
           k == e.payload.filled_qty
           f == AckFillOrder(s, id, k, e.payload.price)
<1>1. /\ IsTop(e, queue) /\ error = "none" /\ engine_time' = e.timestamp /\ vx' = vx
  BY DEF RouteAckCreate, RouteAckCancel, RouteAckFill, Routes
<1>2. Hearing(s, queue, e, vx, engine_time) /\ s.error = "none" /\ s.oms = oms
  BY <1>1, StateHears
<1>3. CASE RouteAckCreate(e)
  <2>1. e.payload.kind = "AckCreate" /\ Becomes(AckCreateOrder(s, id))
    BY <1>3 DEF RouteAckCreate, Routes
  <2> HIDE DEF s, id
  <2>2. Keeps(s, AckCreateOrder(s, id), vx', engine_time')
    BY <1>1, <1>2, <2>1, LiveKeeps DEF id
  <2> QED
    BY <1>2, <2>1, <2>2, HandlerProgress
<1>4. CASE RouteAckCancel(e)
  <2> DEFINE t == OnOrderCanceled(AckCancelOrder(s, id), id)
  <2>1. e.payload.kind = "AckCancel" /\ Becomes(t)
    BY <1>4 DEF RouteAckCancel, Routes
  <2> HIDE DEF s
  <2>2. Keeps(s, t, vx', engine_time')
    BY <1>1, <1>2, <2>1, CancelledKeeps
  <2> HIDE DEF t
  <2> QED
    BY <1>2, <2>1, <2>2, HandlerProgress
<1>5. CASE RouteAckFill(e)
  <2> DEFINE t == OnOrderFilled(f, id, k)
  <2>1. e.payload.kind = "AckFill" /\ Becomes(IF f.error # "none" THEN f ELSE t)
    BY <1>5 DEF RouteAckFill, Routes
  <2> HIDE DEF s
  <2>2. f.error = s.error /\ Keeps(s, t, vx', engine_time')
    BY <1>1, <1>2, <2>1, FillKeeps
  <2> HIDE DEF f, t
  <2>3. Becomes(t)
    BY <1>2, <2>1, <2>2
  <2> QED
    BY <1>2, <2>2, <2>3, HandlerProgress
<1> QED
  BY <1>3, <1>4, <1>5

\* A message is applied to the state as it is at the message's time.
LEMMA MessageTime ==
  ASSUME EngineInv, NEW actions, Applies(actions)
  PROVE  /\ msg # NoMsg /\ msg.action \in actions /\ error = "none"
         /\ msg.ts_recv \in Nat /\ engine_time' = msg.ts_recv /\ msg' = NoMsg
         /\ Whole(oms.orders, mm.active, queue, vx, msg.ts_recv)
<1>1. /\ msg # NoMsg /\ msg.action \in actions /\ error = "none"
      /\ engine_time' = msg.ts_recv /\ msg' = NoMsg
  BY DEF Applies
<1>2. msg.ts_recv \in Nat /\ msg.ts_recv >= engine_time
  BY <1>1 DEF EngineInv, TimedShape, TimeInv, Fed, MessageOK
<1>3. Whole(oms.orders, mm.active, queue, vx, engine_time)
  BY DEF EngineInv, Sane
<1> DEFINE orders == oms.orders
           active == mm.active
           later == msg.ts_recv
<1>4. Whole(orders, active, queue, vx, later)
  <2>1. Whole(orders, active, queue, vx, engine_time) /\ later \in Nat /\ later >= engine_time
    BY <1>2, <1>3
  <2> HIDE DEF orders, active, later
  <2> QED
    BY <2>1, Passes
<1> QED
  BY <1>1, <1>2, <1>4

\* The book stays one of finitely many orders of something.
LEMMA BookStays ==
  ASSUME EngineInv, ApplyBookUpdate
  PROVE  BookOK'
<1>1. msg # NoMsg /\ msg.action \in {"Add", "Modify", "Cancel", "Clear"}
  BY DEF ApplyBookUpdate, Applies
<1>2. book' = UpdateBook(book, msg)
  BY DEF ApplyBookUpdate
<1>3. /\ IsFiniteSet(DOMAIN book)
      /\ \A id \in DOMAIN book : book[id] \in [side : Sides, price : Nat, size : Nat \ {0}]
  BY DEF EngineInv, Fed, BookOK
<1>4. /\ msg.action # "Clear" =>
           msg.side \in Sides /\ msg.price \in Nat /\ msg.size \in Nat \ {0}
      /\ msg.action = "Cancel" =>
           msg.order_id \in DOMAIN book /\ msg.size <= book[msg.order_id].size
  BY <1>1 DEF EngineInv, Fed, MessageOK
<1> DEFINE id == msg.order_id
           new == [side |-> msg.side, price |-> msg.price, size |-> msg.size]
           Orders == [side : Sides, price : Nat, size : Nat \ {0}]
           added == AddOrder(book, msg)
<1>5. ASSUME msg.action # "Clear" 
      PROVE  IsFiniteSet(DOMAIN added) /\ \A i \in DOMAIN added : added[i] \in Orders
  <2>1. DOMAIN added = DOMAIN book \cup {id}
        /\ \A i \in DOMAIN added : added[i] = IF i = id THEN new ELSE book[i]
    BY DEF AddOrder
  <2>2. IsFiniteSet(DOMAIN book \cup {id})
    BY <1>3, FS_AddElement
  <2>3. new \in Orders
    BY <1>4, <1>5
  <2> HIDE DEF added, new, id, Orders
  <2>4. \A i \in DOMAIN book : book[i] \in Orders
    BY <1>3 DEF Orders
  <2> QED
    BY <2>1, <2>2, <2>3, <2>4
<1>6. CASE msg.action = "Add" \/ (msg.action = "Modify" /\ id \notin DOMAIN book)
  <2>1. book' = added
    BY <1>2, <1>6 DEF UpdateBook, ModifyOrder
  <2> HIDE DEF added
  <2> QED
    BY <1>5, <1>6, <2>1 DEF BookOK
<1>7. CASE msg.action = "Modify" /\ id \in DOMAIN book
  <2> DEFINE o == book[id]
             p == [[o EXCEPT !.price = msg.price] EXCEPT !.size = msg.size]
  <2>1. book' = [[book EXCEPT ![id].price = msg.price] EXCEPT ![id].size = msg.size]
    BY <1>2, <1>7 DEF UpdateBook, ModifyOrder
  <2>2. DOMAIN book' = DOMAIN book /\ \A i \in DOMAIN book : i # id => book'[i] = book[i]
    BY <2>1
  <2>3. book'[id] = p
    BY <1>7, <2>1
  <2>4. p \in Orders
    <3>1. o \in Orders /\ msg.price \in Nat /\ msg.size \in Nat \ {0}
      BY <1>3, <1>4, <1>7
    <3> HIDE DEF o
    <3> QED
      BY <3>1
  <2> HIDE DEF p, Orders
  <2>5. \A i \in DOMAIN book' : book'[i] \in Orders
    BY <1>3, <2>2, <2>3, <2>4 DEF Orders
  <2> QED
    BY <1>3, <2>2, <2>5 DEF BookOK, Orders
<1>8. CASE msg.action = "Cancel"
  <2> DEFINE left == book[id].size - msg.size
             o == book[id]
  <2>1. id \in DOMAIN book /\ o \in Orders /\ left \in Nat
    BY <1>3, <1>4, <1>8
  <2>2. book' = IF left = 0 THEN [i \in DOMAIN book \ {id} |-> book[i]]
                ELSE [book EXCEPT ![id].size = left]
    BY <1>2, <1>8 DEF UpdateBook, CancelBookOrder
  <2>3. CASE left = 0
    <3>1. DOMAIN book' = DOMAIN book \ {id} /\ \A i \in DOMAIN book' : book'[i] = book[i]
      BY <2>2, <2>3
    <3>2. IsFiniteSet(DOMAIN book')
      BY <1>3, <3>1, FS_RemoveElement
    <3> QED
      BY <1>3, <3>1, <3>2 DEF BookOK
  <2>4. CASE left # 0
    <3>1. DOMAIN book' = DOMAIN book /\ \A i \in DOMAIN book : i # id => book'[i] = book[i]
      BY <2>2, <2>4
    <3>2. book'[id] = [o EXCEPT !.size = left]
      BY <2>1, <2>2, <2>4
    <3>3. [o EXCEPT !.size = left] \in Orders
      <4> HIDE DEF o, left
      <4> QED
        BY <2>1, <2>4
    <3>4. \A i \in DOMAIN book' : book'[i] \in Orders
      BY <1>3, <3>1, <3>2, <3>3
    <3> QED
      BY <1>3, <3>1, <3>4 DEF BookOK
  <2> QED
    BY <2>3, <2>4
<1>9. CASE msg.action = "Clear"
  <2>1. book' = [i \in {} |-> 0]
    BY <1>2, <1>9 DEF UpdateBook, EmptyBook
  <2> QED
    BY <2>1, FS_EmptySet DEF BookOK
<1> QED
  BY <1>1, <1>6, <1>7, <1>8, <1>9

\* An update of the book is applied.
LEMMA UpdateProgress ==
  ASSUME EngineInv, ApplyBookUpdate
  PROVE  Progress
<1> DEFINE s == State(queue)
           bid == Best(book', "Bid")
           ask == Best(book', "Ask")
           t == OnBookUpdate(s, msg.ts_recv, bid, ask)
<1>1. Applies({"Add", "Modify", "Cancel", "Clear"}) /\ Becomes(t) /\ vx' = vx
  BY DEF ApplyBookUpdate
<1>2. /\ error = "none" /\ engine_time' = msg.ts_recv
      /\ Whole(oms.orders, mm.active, queue, vx, msg.ts_recv)
  BY <1>1, MessageTime
<1>3. bid \in Int /\ ask \in Int
  <2>1. IsFiniteSet(DOMAIN book') /\ \A id \in DOMAIN book' : book'[id].price \in Nat
    BY BookStays DEF BookOK
  <2> QED
    BY <2>1, BestType
<1>4. IsState(s) /\ s.queue = queue
  BY StateIsState DEF EngineInv, TimedShape
<1>5. s.oms = oms /\ s.mm = mm /\ s.risk = risk /\ s.error = error
  BY DEF State
<1> HIDE DEF s, bid, ask
<1>6. Good(s, vx, msg.ts_recv)
  BY <1>2, <1>4, <1>5 DEF Good, EngineInv, Sane
<1>7. Keeps(s, t, vx, msg.ts_recv)
  BY <1>3, <1>6, BookUpdateKeeps
<1> HIDE DEF t
<1>8. Keeps(s, t, vx', engine_time') /\ s.error = "none"
  BY <1>1, <1>2, <1>5, <1>7
<1> QED
  BY <1>1, <1>5, <1>8, HandlerProgress

\* A fill of the market is applied to the exchange.
LEMMA FillProgress ==
  ASSUME EngineInv, ApplyFill
  PROVE  Progress
<1> DEFINE now == msg.ts_recv
           side == msg.side
           paid == msg.price
           size == msg.size
           orders == oms.orders
           active == mm.active
<1>1. /\ Applies({"Fill"}) /\ UNCHANGED trading /\ UNCHANGED error
      /\ vx' = VX!OnFill(vx, side, paid, size)
      /\ queue' = queue \cup VX!FillAcks(vx, queue, now, side, paid, size)
  BY DEF ApplyFill
<1>2. /\ msg # NoMsg /\ msg.action = "Fill" /\ engine_time' = now
      /\ Whole(orders, active, queue, vx, now)
  BY <1>1, MessageTime
<1>3. side \in Sides /\ paid \in Int /\ size \in Nat
  BY <1>2 DEF EngineInv, Fed, MessageOK
<1>4. Whole(orders, active, queue \cup VX!FillAcks(vx, queue, now, side, paid, size),
            VX!OnFill(vx, side, paid, size), now)
  <2> HIDE DEF now, side, paid, size, orders, active
  <2> QED
    BY <1>2, <1>3, Traded
<1>5. Whole(oms.orders, mm.active, queue', vx', engine_time')
  BY <1>1, <1>2, <1>4
<1> QED
  BY <1>1, <1>5, MarketProgress

\* The message of a step is good to be applied, or none.
LEMMA MessageStays ==
  ASSUME EngineInv, PollFeed
  PROVE  MessageOK' /\ fed' \in 0..MaxFeed
<1>1. PICK m \in Messages, ts \in engine_time..MaxTime :
        msg' = [action |-> m[1], order_id |-> m[2].order_id, side |-> m[2].side,
                price |-> m[2].price, size |-> m[2].size, ts_recv |-> ts]
  BY DEF PollFeed
<1>2. book' = book /\ engine_time \in Nat /\ BookOK
  BY DEF PollFeed, EngineInv, Fed
<1>3. ts \in Nat
  BY <1>1, <1>2, EngineAssumption
<1> DEFINE r == m[2]
           Sound2 == r.side \in Sides /\ r.price \in Nat /\ r.size \in Nat \ {0}
<1>4. ASSUME NEW p \in Resized(DOMAIN book), p.size <= book[p.order_id].size
      PROVE  /\ p.side \in Sides /\ p.price \in Nat /\ p.size \in Nat \ {0}
             /\ p.order_id \in DOMAIN book
  <2>1. PICK id \in DOMAIN book, n \in 1..2 :
          p = [order_id |-> id, side |-> book[id].side, price |-> book[id].price, size |-> n]
    BY DEF Resized
  <2>2. book[id] \in [side : Sides, price : Nat, size : Nat \ {0}]
    BY <1>2 DEF BookOK
  <2>3. n \in Nat \ {0} /\ book[id].side \in Sides /\ book[id].price \in Nat
    BY <2>2
  <2> QED
    BY <2>1, <2>3
<1>5. ASSUME NEW p \in FeedOrders
      PROVE  p.side \in Sides /\ p.price \in Nat /\ p.size \in Nat \ {0}
  BY EngineAssumption
<1> DEFINE resting == {p \in Resized(DOMAIN book) : p.size <= book[p.order_id].size}
           new     == {p \in FeedOrders : p.order_id \notin DOMAIN book}
           changed == {p \in FeedOrders \ new : p.side = book[p.order_id].side}
<1>6. m \in {<<"Add", p>> : p \in new} \cup {<<"Modify", p>> : p \in changed}
              \cup ({"Cancel", "Fill"} \X resting) \cup ({"Clear", "Trade"} \X {Nothing})
  BY DEF Messages
<1>7. \/ m[1] \in {"Add", "Modify"} /\ r \in FeedOrders
      \/ m[1] \in {"Cancel", "Fill"} /\ r \in resting
      \/ m[1] \in {"Clear", "Trade"}
  BY <1>6
<1>8. /\ m[1] \in {"Add", "Modify", "Cancel", "Clear", "Fill", "Trade"}
      /\ m[1] \in {"Add", "Modify", "Cancel", "Fill"} => Sound2
      /\ m[1] = "Cancel" => r.order_id \in DOMAIN book /\ r.size <= book[r.order_id].size
  BY <1>4, <1>5, <1>7
<1>9. MessageOK'
  <2>1. /\ msg'.action = m[1] /\ msg'.side = r.side /\ msg'.price = r.price
        /\ msg'.size = r.size /\ msg'.order_id = r.order_id /\ msg'.ts_recv = ts
    BY <1>1
  <2> QED
    BY <1>2, <1>3, <1>8, <2>1 DEF MessageOK
<1>10. fed' \in 0..MaxFeed
  <2>1. fed \in 0..MaxFeed /\ fed < MaxFeed /\ fed' = fed + 1 /\ MaxFeed \in Nat
    BY EngineAssumption DEF PollFeed, EngineInv, Fed
  <2> QED
    BY <2>1
<1> QED
  BY <1>9, <1>10

\* A step that changes none of the components.
LEMMA NoProgress ==
  ASSUME EngineInv, UNCHANGED trading, UNCHANGED <<vx, queue, engine_time, error>>
  PROVE  Progress
<1>1. Whole(oms.orders, mm.active, queue', vx', engine_time')
  BY DEF EngineInv, Sane
<1> QED
  BY <1>1, MarketProgress

\* Every step keeps the invariant, and every order that has come to its end.
LEMMA EngineInductive ==
  EngineInv /\ [Next]_vars => EngineInv' /\ Final(oms.orders, oms'.orders)
<1> SUFFICES ASSUME EngineInv, [Next]_vars
             PROVE  EngineInv' /\ Final(oms.orders, oms'.orders)
  OBVIOUS
<1>1. TimedShape'
  BY TimeInductive DEF EngineInv
<1>2. ASSUME Progress, Fed'
      PROVE  EngineInv' /\ Final(oms.orders, oms'.orders)
  BY <1>1, <1>2 DEF Progress, EngineInv
<1>3. Fed /\ engine_time \in Nat
  BY DEF EngineInv, Fed
<1>4. ASSUME NEW e \in queue, UNCHANGED book, UNCHANGED feed, engine_time' = e.timestamp
      PROVE  Fed'
  <2>1. e.timestamp \in Nat
    BY EventTime
  <2> QED
    BY <1>3, <1>4, <2>1 DEF Fed, BookOK, MessageOK, feed
<1>5. ASSUME NEW actions, Applies(actions), UNCHANGED <<reading_feed, fed>>, BookOK'
      PROVE  Fed'
  <2>1. msg' = NoMsg /\ engine_time' \in Nat
    BY <1>5, MessageTime
  <2>2. MessageOK'
    BY <2>1 DEF MessageOK, NoMsg
  <2> QED
    BY <1>3, <1>5, <2>1, <2>2 DEF Fed
<1>6. CASE PollFeed
  <2>1. Progress
    BY <1>6, NoProgress DEF PollFeed
  <2>2. /\ MessageOK' /\ fed' \in 0..MaxFeed /\ UNCHANGED book
        /\ UNCHANGED <<reading_feed, engine_time>>
    BY <1>6, MessageStays DEF PollFeed
  <2>3. Fed'
    BY <1>3, <2>2 DEF Fed, BookOK
  <2> QED
    BY <1>2, <2>1, <2>3
<1>7. CASE EndOfFeed
  <2>1. Progress
    BY <1>7, NoProgress DEF EndOfFeed
  <2>2. reading_feed' = FALSE /\ UNCHANGED <<book, msg, fed, engine_time>>
    BY <1>7 DEF EndOfFeed
  <2>3. Fed'
    BY <1>3, <2>2 DEF Fed, BookOK, MessageOK
  <2> QED
    BY <1>2, <2>1, <2>3
<1>8. ASSUME NEW e \in queue, RouteCreate(e) PROVE EngineInv' /\ Final(oms.orders, oms'.orders)
  <2>1. Progress
    BY <1>8, CreateProgress
  <2>2. Fed'
    BY <1>4, <1>8 DEF RouteCreate, Routes
  <2> QED
    BY <1>2, <2>1, <2>2
<1>9. ASSUME NEW e \in queue, RouteCancel(e) PROVE EngineInv' /\ Final(oms.orders, oms'.orders)
  <2>1. Progress
    BY <1>9, CancelProgress
  <2>2. Fed'
    BY <1>4, <1>9 DEF RouteCancel, Routes
  <2> QED
    BY <1>2, <2>1, <2>2
<1>10. ASSUME NEW e \in queue, RouteAckCreate(e) \/ RouteAckCancel(e) \/ RouteAckFill(e)
       PROVE EngineInv' /\ Final(oms.orders, oms'.orders)
  <2>1. Progress
    BY <1>10, AckProgress
  <2>2. Fed'
    BY <1>4, <1>10 DEF RouteAckCreate, RouteAckCancel, RouteAckFill, Routes
  <2> QED
    BY <1>2, <2>1, <2>2
<1>11. CASE ApplyBookUpdate
  <2>1. Progress
    BY <1>11, UpdateProgress
  <2>2. Fed'
    BY <1>5, <1>11, BookStays DEF ApplyBookUpdate
  <2> QED
    BY <1>2, <2>1, <2>2
<1>12. CASE ApplyFill
  <2>1. Progress
    BY <1>12, FillProgress
  <2>2. BookOK'
    BY <1>3, <1>12 DEF ApplyFill, Fed, BookOK
  <2>3. Fed'
    BY <1>5, <1>12, <2>2 DEF ApplyFill
  <2> QED
    BY <1>2, <2>1, <2>3
<1>13. CASE ApplyNothing
  <2>1. Applies({"Trade"}) /\ UNCHANGED trading /\ UNCHANGED <<book, vx, queue, reading_feed, fed, error>>
    BY <1>13 DEF ApplyNothing
  <2>2. Whole(oms.orders, mm.active, queue', vx', engine_time')
    BY <2>1, MessageTime
  <2>3. Progress
    BY <2>1, <2>2, MarketProgress
  <2>4. BookOK'
    BY <1>3, <2>1 DEF Fed, BookOK
  <2>5. Fed'
    BY <1>5, <2>1, <2>4
  <2> QED
    BY <1>2, <2>3, <2>5
<1>14. CASE UNCHANGED vars
  <2>1. Progress
    BY <1>14, NoProgress DEF vars, trading
  <2>2. Fed'
    BY <1>3, <1>14 DEF vars, Fed, BookOK, MessageOK
  <2> QED
    BY <1>2, <2>1, <2>2
<1> QED
  BY <1>6, <1>7, <1>8, <1>9, <1>10, <1>11, <1>12, <1>13, <1>14
  DEF Next, Step, Route, Apply

\* The engine starts with nothing.
LEMMA EngineStarts == Init => EngineInv
<1> SUFFICES ASSUME Init PROVE EngineInv
  OBVIOUS
<1>1. TimedShape
  BY DEF Init, TimedShape, Shape, TimeInv, InitOms, InitMarketMaker
<1>2. /\ oms.orders = <<>> /\ oms.holdings = 0 /\ oms.cash = 0 /\ risk = 0
      /\ mm.active = [side \in Sides |-> NoOrder] /\ mm.quote = [side \in Sides |-> 0]
      /\ mm.position = 0 /\ queue = {} /\ engine_time = 0
      /\ vx = [side \in Sides |-> <<>>]
  BY DEF Init, InitOms, InitMarketMaker, VX!EmptyExchange, Sides
<1>3. Tabled(<<>>)
  <2>1. <<>> \in Seq(OrderType) /\ Len(<<>>) = 0
    BY EmptySeq
  <2> QED
    BY <2>1, OmsAssumption DEF Tabled
<1>4. Sane
  <2>1. mm.quote \in [Sides -> Int]
    BY <1>2
  <2>2. TracksOwn(mm.active, oms.orders)
    BY <1>2 DEF TracksOwn
  <2>3. Timely(queue, 0) /\ Lined(queue)
    BY <1>2, FS_EmptySet DEF Timely, Lined
  <2>4. \A side \in Sides : Stands(vx[side], side, oms.orders)
    BY <1>2 DEF Stands
  <2>5. DOMAIN oms.orders = {}
    BY <1>2
  <2>6. vx = [side \in Sides |-> vx[side]]
    BY <1>2
  <2>7. Tabled(oms.orders) /\ 0 \in Nat /\ \A e \in queue : IsPayload(e.payload, oms.orders)
    BY <1>2, <1>3
  <2>8. Whole(oms.orders, mm.active, queue, vx, 0)
    BY <2>2, <2>3, <2>4, <2>5, <2>6, <2>7 DEF Whole
  <2>9. \A side : Booked(oms.orders, side) = 0 /\ Valued(oms.orders, side) = 0
    <3>1. \A side : OfSide(oms.orders, side) = {}
      BY <2>5 DEF OfSide
    <3> QED
      BY <3>1, SumOfNone DEF Booked, Valued
  <2>10. Balanced(oms.orders, oms.holdings, oms.cash, risk, mm.position)
    BY <1>2, <2>9 DEF Balanced
  <2> QED
    BY <1>2, <2>1, <2>8, <2>10 DEF Sane
<1>5. Fed
  <2>1. BookOK
    BY FS_EmptySet DEF Init, BookOK, EmptyBook
  <2>2. msg = NoMsg /\ MessageOK
    BY DEF Init, NoMsg, MessageOK
  <2>3. fed \in 0..MaxFeed /\ reading_feed \in BOOLEAN
    BY EngineAssumption DEF Init
  <2> QED
    BY <1>2, <2>1, <2>2, <2>3 DEF Fed
<1> QED
  BY <1>1, <1>4, <1>5 DEF EngineInv, Init

---------------------------------------------------------------------------
(* The invariant implies the engine's properties. *)

\* What an order is in, of the invariant, in the words of the properties.
Seen(id) == View(oms.orders, mm.active, queue, vx, id)

\* The exchange holds one order of a side, or none, and says what remains of it.
LEMMA RestsIs ==
  ASSUME EngineInv, NEW id \in Ids
  PROVE  /\ Rests(id) <=> Seen(id).resting > 0
         /\ Rests(id) => RestingQty(id) = Seen(id).resting
<1> DEFINE side == oms.orders[id].side
           n    == Remaining(vx, side, id)
<1>1. Tabled(oms.orders) /\ \A s \in Sides : Stands(vx[s], s, oms.orders)
  BY DEF EngineInv, Sane, Whole
<1>2. id \in DOMAIN oms.orders /\ side \in Sides
  <2>1. oms.orders \in Seq(OrderType) /\ id \in DOMAIN oms.orders
    BY <1>1 DEF Tabled, Ids
  <2>2. oms.orders[id] \in OrderType
    BY <2>1
  <2> QED
    BY <2>1, <2>2 DEF OrderType
<1>3. Seen(id).resting = n
  BY DEF Seen, View
<1>4. ASSUME NEW s \in Sides, NEW k, NEW total, NEW ahead, NEW m \in Nat \ {0},
             vx[s] = Sole(k, oms.orders[k].price, total, ahead, m)
      PROVE  Remaining(vx, s, id) = IF k = id THEN m ELSE 0
  BY <1>4 DEF Sole, Remaining
<1>5. ASSUME NEW s \in Sides, NEW o \in VX!Resting(vx, s), o.order_id = id
      PROVE  s = side /\ o.remaining_qty = n /\ n > 0
  <2>1. vx[s] # <<>>
    BY <1>5, RestingOne
  <2>2. PICK k \in DOMAIN oms.orders, total \in Words, ahead \in Words, m \in Nat \ {0} :
          /\ oms.orders[k].side = s
          /\ vx[s] = Sole(k, oms.orders[k].price, total, ahead, m)
    BY <1>1, <2>1 DEF Stands
  <2>3. VX!Resting(vx, s) = {[order_id |-> k, qty_ahead |-> ahead, remaining_qty |-> m]}
    BY <2>2, RestingOne
  <2>4. k = id /\ o.remaining_qty = m
    BY <1>5, <2>3
  <2>5. s = side /\ Remaining(vx, s, id) = m
    BY <1>4, <2>2, <2>4
  <2> QED
    BY <2>4, <2>5
<1>6. ASSUME n > 0
      PROVE  \E o \in VX!Resting(vx, side) : o.order_id = id
  <2>1. vx[side] # <<>>
    BY <1>6 DEF Remaining
  <2>2. PICK k \in DOMAIN oms.orders, total \in Words, ahead \in Words, m \in Nat \ {0} :
          vx[side] = Sole(k, oms.orders[k].price, total, ahead, m)
    BY <1>1, <1>2, <2>1 DEF Stands
  <2>3. k = id
    BY <1>2, <1>4, <1>6, <2>2
  <2>4. VX!Resting(vx, side) = {[order_id |-> k, qty_ahead |-> ahead, remaining_qty |-> m]}
    BY <2>2, RestingOne
  <2> QED
    BY <2>3, <2>4
<1> HIDE DEF side, n
<1>7. Rests(id) <=> n > 0
  <2>1. Rests(id) <=> \E s \in Sides : \E o \in VX!Resting(vx, s) : o.order_id = id
    BY DEF Rests, VX!Knows, Sides
  <2> QED
    BY <1>2, <1>5, <1>6, <2>1
<1>8. ASSUME Rests(id) PROVE RestingQty(id) = n
  <2>1. RestingQty(id) = (CHOOSE o \in VX!Resting(vx, side) : o.order_id = id).remaining_qty
    BY DEF RestingQty, Order, side
  <2>2. PICK o \in VX!Resting(vx, side) : o.order_id = id
    BY <1>6, <1>7, <1>8
  <2> QED
    BY <1>2, <1>5, <2>1, <2>2
<1> QED
  BY <1>3, <1>7, <1>8

\* An order's life, and its events and quantities in the words of the properties.
LEMMA LifeOf ==
  ASSUME EngineInv, NEW id \in Ids
  PROVE  /\ LifeOK(Seen(id)) /\ Seen(id).order = Order(id)
         /\ Seen(id).filling = FillsInFlight(id)
         /\ \A kind \in Kinds : kind \in Seen(id).flying <=> Flying(kind, id)
         /\ Seen(id).trackers # {} <=> Tracked(id)
         /\ queue = {} => Seen(id).flying = {} /\ Seen(id).filling = 0
<1>1. /\ id \in DOMAIN oms.orders /\ Timely(queue, engine_time)
      /\ \A e \in queue : IsPayload(e.payload, oms.orders)
      /\ LifeOK(Seen(id))
  BY DEF EngineInv, Sane, Whole, Ids, Seen
<1>2. IsFiniteSet(queue)
  BY <1>1 DEF Timely
<1>3. \A e \in Of(queue, "AckFill", id) : e.payload.filled_qty \in Nat
  <2> SUFFICES ASSUME NEW e \in queue, e.payload.kind = "AckFill"
               PROVE  e.payload.filled_qty \in Nat
    BY DEF Of
  <2>1. IsPayload(e.payload, oms.orders)
    BY <1>1
  <2>2. \A p : p.kind = "AckFill" /\ IsPayload(p, oms.orders) => p.filled_qty \in Nat
    BY DEF IsPayload, Create, Cancel, AckCreate, AckCancel
  <2> QED
    BY <2>1, <2>2
<1>4. FillsInFlight(id) = Filling(queue, id)
  BY <1>2, <1>3, FillsAreFilling
<1>5. \A kind : Flying(kind, id) <=> Of(queue, kind, id) # {}
  BY DEF Flying, InFlight, Of
<1>6. Tracked(id) <=> Trackers(mm.active, id) # {}
  BY DEF Tracked, Trackers
<1>7. queue = {} => Underway(queue, id) = {} /\ Filling(queue, id) = 0
  BY <1>2, <1>3, FillingType DEF Underway, Of
<1>8. /\ Seen(id).order = Order(id) /\ Seen(id).filling = Filling(queue, id)
      /\ Seen(id).flying = Underway(queue, id) /\ Seen(id).trackers = Trackers(mm.active, id)
      /\ \A kind \in Kinds : kind \in Seen(id).flying <=> Of(queue, kind, id) # {}
  BY ViewIs DEF Seen, Order
<1> QED
  BY <1>1, <1>4, <1>5, <1>6, <1>7, <1>8

\* The accounts agree.
LEMMA AccountsHold == EngineInv => AccountsAgree
<1> SUFFICES ASSUME EngineInv PROVE AccountsAgree
  OBVIOUS
<1>1. Tabled(oms.orders) /\ Balanced(oms.orders, oms.holdings, oms.cash, risk, mm.position)
  BY DEF EngineInv, Sane, Whole
<1>2. \A side : BookedOf(side) = Booked(oms.orders, side) /\ LimitValueOf(side) = Valued(oms.orders, side)
  BY <1>1, BookedIs, ValuedIs
<1> QED
  BY <1>1, <1>2 DEF Balanced, AccountsAgree

\* No order is left behind.
LEMMA NoneForgotten == EngineInv => NoForgottenOrders
<1> SUFFICES ASSUME EngineInv, NEW id \in Ids, Order(id).status \in Unresolved, ~Tracked(id)
             PROVE  Flying("Cancel", id) \/ Flying("AckCancel", id)
  BY DEF NoForgottenOrders, Unresolved
<1>1. LifeOK(Seen(id)) /\ Seen(id).order.status \in Unresolved /\ Seen(id).trackers = {}
  BY LifeOf
<1>2. "Cancel" \in Seen(id).flying \/ "AckCancel" \in Seen(id).flying
  BY <1>1 DEF LifeOK
<1> QED
  BY <1>2, LifeOf DEF Kinds

\* Every quantity is in its place.
LEMMA QuantitiesHold == EngineInv => QuantityConserved
<1> SUFFICES ASSUME EngineInv, NEW id \in Ids
    PROVE  LET done == Order(id).filled_qty + FillsInFlight(id)
           IN  IF Order(id).status = "REJECTED" \/ Flying("Create", id)
               THEN done = 0 /\ ~Rests(id)
               ELSE IF Rests(id) THEN done + RestingQty(id) = Order(id).qty
               ELSE \/ done = Order(id).qty
                    \/ /\ done < Order(id).qty
                       /\ Flying("AckCancel", id) \/ Order(id).status = "CANCELLED"
  BY DEF QuantityConserved
<1> DEFINE v == Seen(id)
<1>1. /\ LifeOK(v) /\ v.order = Order(id) /\ v.filling = FillsInFlight(id)
      /\ "Create" \in v.flying <=> Flying("Create", id)
      /\ "AckCancel" \in v.flying <=> Flying("AckCancel", id)
  BY LifeOf DEF Kinds
<1>2. /\ Rests(id) <=> v.resting > 0
      /\ Rests(id) => RestingQty(id) = v.resting
  BY RestsIs
<1> HIDE DEF v
<1>3. /\ v.order.filled_qty \in Nat /\ v.filling \in Nat /\ v.resting \in Nat
      /\ v.order.qty \in Nat
  BY <1>1 DEF LifeOK, OrderType
<1>4. v.order.status = "REJECTED" \/ "Create" \in v.flying =>
        v.order.filled_qty + v.filling = 0 /\ v.resting = 0
  BY <1>1, <1>3 DEF LifeOK
<1>5. ~(v.order.status = "REJECTED" \/ "Create" \in v.flying) /\ v.resting > 0 =>
        v.order.filled_qty + v.filling + v.resting = v.order.qty
  BY <1>1, <1>3 DEF LifeOK
<1>6. ~(v.order.status = "REJECTED" \/ "Create" \in v.flying) /\ v.resting = 0 =>
        \/ v.order.filled_qty + v.filling = v.order.qty
        \/ /\ v.order.filled_qty + v.filling < v.order.qty
           /\ "AckCancel" \in v.flying \/ v.order.status = "CANCELLED"
  BY <1>1, <1>3 DEF LifeOK
<1> QED
  BY <1>1, <1>2, <1>3, <1>4, <1>5, <1>6

\* No side has two orders at the exchange.
LEMMA OneAtATime == EngineInv => OneOrderPerSide
<1> SUFFICES ASSUME EngineInv, NEW side \in Sides
             PROVE  Cardinality(VX!Resting(vx, side)) <= 1
  BY DEF OneOrderPerSide
<1>1. Stands(vx[side], side, oms.orders)
  BY DEF EngineInv, Sane, Whole
<1>2. Cardinality({}) = 0 /\ \A o : Cardinality({o}) = 1
  BY FS_EmptySet, FS_Singleton
<1>3. CASE vx[side] = <<>>
  <2>1. VX!Resting(vx, side) = {}
    BY <1>3, RestingOne
  <2> QED
    BY <1>2, <2>1
<1>4. CASE vx[side] # <<>>
  <2>1. PICK id \in DOMAIN oms.orders, total \in Words, ahead \in Words, n \in Nat \ {0} :
          vx[side] = Sole(id, oms.orders[id].price, total, ahead, n)
    BY <1>1, <1>4 DEF Stands
  <2> DEFINE o == [order_id |-> id, qty_ahead |-> ahead, remaining_qty |-> n]
  <2>2. VX!Resting(vx, side) = {o}
    BY <2>1, RestingOne
  <2> HIDE DEF o
  <2>3. Cardinality(VX!Resting(vx, side)) = 1
    BY <1>2, <2>2
  <2> QED
    BY <2>3
<1> QED
  BY <1>3, <1>4

\* With an empty network all components know the same of an order.
LEMMA QuietAgrees == EngineInv => QuietMeansAgreed
<1> SUFFICES ASSUME EngineInv, queue = {}, NEW id \in Ids
    PROVE  /\ Order(id).status \notin {"PENDING", "PENDING_CANCEL"}
           /\ Rests(id) <=> (Order(id).status \in {"LIVE", "PARTIALLY_FILLED"})
           /\ Rests(id) <=> Tracked(id)
  BY DEF QuietMeansAgreed
<1> DEFINE v == Seen(id)
<1>1. /\ LifeOK(v) /\ v.order = Order(id) /\ v.flying = {} /\ v.filling = 0
      /\ v.trackers # {} <=> Tracked(id)
      /\ Rests(id) <=> v.resting > 0
  BY LifeOf, RestsIs
<1> HIDE DEF v
<1>2. /\ v.order.filled_qty \in Nat /\ v.filling \in Nat /\ v.resting \in Nat
      /\ v.order.qty \in Nat /\ v.order.status \in Status
  BY <1>1 DEF LifeOK, OrderType
<1>3. v.order.status \notin {"PENDING", "PENDING_CANCEL"}
  BY <1>1 DEF LifeOK, Unresolved, Open
<1>4. v.order.status \in {"LIVE", "PARTIALLY_FILLED"} => v.resting > 0
  BY <1>1, <1>2 DEF LifeOK, Unresolved, Open
<1>5. v.order.status \notin {"LIVE", "PARTIALLY_FILLED"} => v.resting = 0
  BY <1>1, <1>2, <1>3 DEF LifeOK, Status, Open, Terminal
<1>6. v.trackers # {} <=> v.order.status \in {"LIVE", "PARTIALLY_FILLED"}
  BY <1>1, <1>3 DEF LifeOK, Unresolved, Open
<1> QED
  BY <1>1, <1>2, <1>3, <1>4, <1>5, <1>6

\* A level with one order is a level.
LEMMA SoleType ==
  ASSUME NEW id \in 1..MaxOrders, NEW price \in Int, NEW total \in Words, NEW ahead \in Words,
         NEW n \in Nat
  PROVE  Sole(id, price, total, ahead, n) \in Seq(VirtualLevel)
<1> DEFINE o     == [order_id |-> id, qty_ahead |-> ahead, remaining_qty |-> n]
           level == [price |-> price, total_qty_ahead |-> total, orders |-> <<o>>]
<1>1. o \in VirtualOrder
  BY DEF VirtualOrder, Words
<1> HIDE DEF o
<1>2. <<o>> \in Seq(VirtualOrder)
  BY <1>1
<1>3. level \in VirtualLevel
  BY <1>2 DEF VirtualLevel, Words
<1>4. Sole(id, price, total, ahead, n) = <<level>>
  BY DEF Sole, o
<1> HIDE DEF level
<1> QED
  BY <1>3, <1>4

\* The engine's state has its types.
LEMMA TypesHold == EngineInv => TypeOK
<1> SUFFICES ASSUME EngineInv PROVE TypeOK
  OBVIOUS
<1>1. /\ Shape /\ mm.quote \in [Sides -> Int] /\ Tabled(oms.orders)
      /\ TracksOwn(mm.active, oms.orders) /\ Timely(queue, engine_time)
      /\ \A e \in queue : IsPayload(e.payload, oms.orders)
      /\ vx = [side \in Sides |-> vx[side]]
      /\ \A side \in Sides : Stands(vx[side], side, oms.orders)
      /\ Balanced(oms.orders, oms.holdings, oms.cash, risk, mm.position)
  BY DEF EngineInv, TimedShape, Sane, Whole
<1>2. /\ oms.orders \in Seq(OrderType) /\ Len(oms.orders) \in Nat /\ Len(oms.orders) <= MaxOrders
      /\ DOMAIN oms.orders = 1..Len(oms.orders) /\ MaxOrders \in Nat
  BY <1>1, OmsAssumption DEF Tabled
<1>3. DOMAIN oms.orders \subseteq 1..MaxOrders /\ NoOrder \in 0..MaxOrders
  BY <1>2 DEF NoOrder
<1>4. \A id \in DOMAIN oms.orders : oms.orders[id] \in OrderType
  BY <1>2
<1>5. oms.holdings \in Int /\ oms.cash \in Int /\ risk \in Int /\ mm.position \in Int
  <2>1. Booked(oms.orders, "Bid") \in Int /\ Booked(oms.orders, "Ask") \in Int
    BY <1>1, TableWeighs
  <2> QED
    BY <1>1, <2>1 DEF Balanced
<1>6. oms \in [orders : Seq(OrderType), holdings : Int, cash : Int]
  BY <1>1, <1>2, <1>5 DEF Shape
<1>7. mm.active \in [Sides -> 0..MaxOrders]
  <2>1. \A side \in Sides : mm.active[side] \in 0..MaxOrders
    BY <1>1, <1>2, <1>3 DEF TracksOwn
  <2>2. mm.active = [side \in Sides |-> mm.active[side]]
    BY <1>1 DEF TracksOwn
  <2> QED
    BY <2>1, <2>2
<1>8. mm \in [active : [Sides -> 0..MaxOrders], quote : [Sides -> Int], position : Int]
  BY <1>1, <1>5, <1>7 DEF Shape
<1>9. queue \in SUBSET EventType
  <2> SUFFICES ASSUME NEW e \in queue PROVE e \in EventType
    OBVIOUS
  <2>1. IsEvent(e) /\ IsPayload(e.payload, oms.orders)
    BY <1>1 DEF Timely
  <2>2. \A p : IsPayload(p, oms.orders) => p \in PayloadType
    <3> SUFFICES ASSUME NEW p, IsPayload(p, oms.orders) PROVE p \in PayloadType
      OBVIOUS
    <3>1. p.order_id \in 1..MaxOrders /\ oms.orders[p.order_id] \in OrderType
      BY <1>3, <1>4 DEF IsPayload
    <3>2. /\ oms.orders[p.order_id].price \in Int /\ oms.orders[p.order_id].qty \in Nat
          /\ oms.orders[p.order_id].side \in Sides
      BY <3>1 DEF OrderType
    <3> QED
      BY <3>1, <3>2 DEF IsPayload, Create, Cancel, AckCreate, AckCancel, AckFill, PayloadType
  <2> QED
    BY <2>1, <2>2 DEF IsEvent, EventType
<1>10. vx \in [Sides -> Seq(VirtualLevel)]
  <2>1. ASSUME NEW side \in Sides PROVE vx[side] \in Seq(VirtualLevel)
    <3>1. CASE vx[side] = <<>>
      BY <3>1
    <3>2. CASE vx[side] # <<>>
      <4>1. PICK id \in DOMAIN oms.orders, total \in Words, ahead \in Words, n \in Nat \ {0} :
              vx[side] = Sole(id, oms.orders[id].price, total, ahead, n)
        BY <1>1, <3>2 DEF Stands
      <4>2. id \in 1..MaxOrders /\ oms.orders[id].price \in Int
        BY <1>3, <1>4 DEF OrderType
      <4> QED
        BY <4>1, <4>2, SoleType
    <3> QED
      BY <3>1, <3>2
  <2> QED
    BY <1>1, <2>1
<1>11. /\ \A id \in DOMAIN book : book[id] \in [side : Sides, price : Nat, size : Nat \ {0}]
       /\ reading_feed \in BOOLEAN
       /\ msg.action \in {"no message", "Add", "Modify", "Cancel", "Clear", "Fill", "Trade"}
       /\ engine_time \in Nat /\ fed \in 0..MaxFeed
       /\ error \in {"none", "OrderManagementSystem is full"}
  BY DEF EngineInv, Fed, BookOK, MessageOK, Full
<1> QED
  BY <1>2, <1>5, <1>6, <1>8, <1>9, <1>10, <1>11 DEF TypeOK

---------------------------------------------------------------------------
(* The theorems. *)

\* EngineInv is an invariant of the engine.
LEMMA EngineSafety == Spec => []EngineInv
<1>1. EngineInv /\ [Next]_vars => EngineInv'
  BY EngineInductive
<1> QED
  BY <1>1, EngineStarts, PTL DEF Spec

\* The engine's state is of its types: no sum, queue, level or id leaves its range.
THEOREM EngineTypes == Spec => []TypeOK
BY EngineSafety, TypesHold, PTL

\* The three accounts of the fills - the order management system's holdings, the risk
\* manager's position and the strategy's - and the sums over the orders are equal, and
\* the cash is never worse than the orders' limits (AccountsAgree).
THEOREM AccountSafety == Spec => []AccountsAgree
BY EngineSafety, AccountsHold, PTL

\* Whatever crosses in the network, ack_fill_order and on_create_order never throw:
\* a full order table is all that ends a run.
THEOREM ErrorSafety == Spec => []OnlyCapacityThrows
<1>1. EngineInv => OnlyCapacityThrows
  BY DEF EngineInv, OnlyCapacityThrows, Full
<1> QED
  BY <1>1, EngineSafety, PTL

\* An order that may still trade and that the strategy no longer tracks has its cancel,
\* or the answer to it, in the network.
THEOREM ForgottenSafety == Spec => []NoForgottenOrders
BY EngineSafety, NoneForgotten, PTL

\* Of every order, what is booked, what is acknowledged and under way, and what rests
\* at the exchange make up its quantity until it is cancelled.
THEOREM QuantitySafety == Spec => []QuantityConserved
BY EngineSafety, QuantitiesHold, PTL

\* The exchange never holds two of the strategy's orders on one side, whatever the
\* latencies are: a cancel overtakes no order and is overtaken by none.
THEOREM ExchangeSafety == Spec => []OneOrderPerSide
BY EngineSafety, OneAtATime, PTL

\* When the network is empty, the order table, the exchange and the strategy agree on
\* the orders that rest.
THEOREM QuietSafety == Spec => []QuietMeansAgreed
BY EngineSafety, QuietAgrees, PTL

\* An order that is filled, cancelled or rejected is never changed again.
THEOREM TerminalSafety == Spec => TerminalStatusIsFinal
<1>1. ASSUME EngineInv, [Next]_vars
      PROVE  [\A id \in Ids : Order(id).status \in Terminal => oms'.orders[id] = oms.orders[id]]_vars
  BY <1>1, EngineInductive DEF Final, Ids, Order
<1> QED
  BY <1>1, EngineSafety, PTL DEF Spec, TerminalStatusIsFinal
====
