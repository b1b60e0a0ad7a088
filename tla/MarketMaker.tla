---- MODULE MarketMaker ----
(* The market making strategy (Strategies/MBOStrategies/MarketMaker).

   The handlers are operators on the record s of OrderManagementSystem, with
     mm = [active, quote, position]: on each side the id of the order it believes
          to be resting (NoOrder if none) and the price it was sent at, and the
          position it has counted from its fills. *)
EXTENDS OrderManagementSystem

CONSTANTS HalfSpread, \* half_spread_ticks
          OrderQty    \* quantity of every quote

ASSUME MarketMakerAssumption == HalfSpread \in Nat /\ OrderQty \in Nat \ {0}

NoOrder == 0
NoPrice == 0

Sides == {"Bid", "Ask"}

InitMarketMaker == [active |-> [side \in Sides |-> NoOrder],
                    quote |-> [side \in Sides |-> 0], position |-> 0]

\* Quotes are centred on the middle of the book, and moved down when long, up when short.
Target(side, position, bid, ask) ==
  LET mid  == (bid + ask) \div 2
      skew == IF position > 0 THEN -(HalfSpread \div 2)
              ELSE IF position < 0 THEN HalfSpread \div 2 ELSE 0
  IN  IF side = "Bid" THEN mid - HalfSpread + skew ELSE mid + HalfSpread + skew

Drop(s, now, side) ==
  [CancelOrder(s, now, s.mm.active[side]) EXCEPT !.mm.active[side] = NoOrder]

CancelActive(s, now, side) ==
  IF s.mm.active[side] = NoOrder THEN s ELSE Drop(s, now, side)

\* A new quote is tracked if the risk manager let it through.
Send(s, now, side, target) ==
  LET t  == CreateOrder(s, now, target, OrderQty, side)
      id == Len(t.oms.orders)
  IN  IF t.error = "none" /\ t.oms.orders[id].status = "PENDING"
      THEN [t EXCEPT !.mm = [active   |-> [@.active EXCEPT ![side] = id],
                             quote    |-> [@.quote EXCEPT ![side] = target],
                             position |-> @.position]]
      ELSE t

ReplaceQuote(s, now, side, target) ==
  IF s.error # "none" THEN s
  ELSE IF s.mm.active[side] # NoOrder /\ s.mm.quote[side] # target
  THEN Send(s, now, side, target)
  ELSE IF s.mm.active[side] = NoOrder THEN Send(s, now, side, target)
  ELSE s

\* One side of impl_on_book_update: a stale quote is withdrawn now, and replaced at
\* the next update of the book at the earliest.
Quote(s, now, side, target) ==
  IF s.error # "none" THEN s
  ELSE IF s.mm.active[side] # NoOrder /\ s.mm.quote[side] # target
  THEN Drop(s, now, side)
  ELSE IF s.mm.active[side] = NoOrder THEN Send(s, now, side, target)
  ELSE s

\* impl_on_book_update, with NoPrice for a side of the book that is empty.
OnBookUpdate(s, now, bid, ask) ==
  IF bid = NoPrice \/ ask = NoPrice
  THEN CancelActive(CancelActive(s, now, "Bid"), now, "Ask")
  ELSE Quote(Quote(s, now, "Bid", Target("Bid", s.mm.position, bid, ask)),
             now, "Ask", Target("Ask", s.mm.position, bid, ask))

\* Forgets an order, on whichever side it is tracked.
Untrack(s, id) ==
  LET tracked(side) == s.mm.active[side] = id
  IN  [s EXCEPT !.mm =
         [active   |-> [side \in Sides |-> IF tracked(side) THEN NoOrder ELSE @.active[side]],
          quote    |-> [side \in Sides |-> IF tracked(side) THEN NoPrice ELSE @.quote[side]],
          position |-> @.position]]

OnTrackedOrderFilled(s, id, filled) ==
  LET order == s.oms.orders[id]
      t == [s EXCEPT !.mm.position =
              IF id \notin {s.mm.active[side] : side \in Sides} THEN @
              ELSE IF order.side = "Bid" THEN @ + filled ELSE @ - filled]
  IN  IF order.status = "FILLED" THEN Untrack(t, id) ELSE t

OnOrderFilledKeep(s, id, filled) ==
  [s EXCEPT !.mm.position =
     IF s.oms.orders[id].side = "Bid" THEN @ + filled ELSE @ - filled]

\* The position counts every fill, also of orders that are no longer tracked.
OnOrderFilled(s, id, filled) ==
  LET order == s.oms.orders[id]
      t == [s EXCEPT !.mm.position =
              IF order.side = "Bid" THEN @ + filled ELSE @ - filled]
  IN  IF order.status = "FILLED" THEN Untrack(t, id) ELSE t

OnOrderCanceled(s, id) == Untrack(s, id)
====
