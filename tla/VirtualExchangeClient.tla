---- MODULE VirtualExchangeClient ----
(* The virtual exchange on its own, under any legal sequence of calls: ids are
   created once and in increasing order, orders are cancelled at any time, known
   or not, the market shows any volume when an order arrives, and any fill of the
   market is reported.  This reaches levels that several orders share, which the
   market maker of the engine never builds. *)
EXTENDS VirtualExchange

CONSTANTS Prices, MaxOrders,
          OrderSizes,   \* quantities of the orders
          ShownVolumes, \* what the market may show at a price
          FillSizes     \* sizes of the market's fills

ASSUME ClientAssumption == /\ Prices \subseteq Int /\ MaxOrders \in Nat
                           /\ OrderSizes \cup FillSizes \subseteq Nat \ {0}
                           /\ ShownVolumes \subseteq Nat

VARIABLES vx,
          call,   \* the last call, with its arguments
          acks,   \* the fills it acknowledged
          created \* orders created so far

vars == <<vx, call, acks, created>>

Sides == {"Bid", "Ask"}
VirtualOrder == [order_id : 1..MaxOrders, qty_ahead : 0..(Word - 1), remaining_qty : Nat \ {0}]
VirtualLevel == [price : Prices, total_qty_ahead : 0..(Word - 1), orders : Seq(VirtualOrder)]

Init == /\ vx = EmptyExchange
        /\ call = [op |-> "none"]
        /\ acks = {}
        /\ created = 0

CreateOrder ==
  /\ created < MaxOrders
  /\ created' = created + 1
  /\ \E side \in Sides, price \in Prices, qty \in OrderSizes, shown \in ShownVolumes :
       /\ call' = [op |-> "create", side |-> side, order_id |-> created + 1, shown |-> shown]
       /\ vx' = OnCreateOrder(vx, Create(created + 1, price, qty, side), shown)
  /\ acks' = {}

CancelOrder ==
  \E id \in 1..created : /\ call' = [op |-> "cancel", order_id |-> id]
                         /\ vx' = OnCancelOrder(vx, id)
                         /\ acks' = {}
                         /\ UNCHANGED created

Fill ==
  \E side \in Sides, price \in Prices, size \in FillSizes :
    /\ call' = [op |-> "fill", side |-> side, price |-> price, size |-> size]
    /\ vx' = OnFill(vx, side, price, size)
    /\ acks' = FillAcks(vx, {}, 0, side, price, size)
    /\ UNCHANGED created

Next == CreateOrder \/ CancelOrder \/ Fill

Spec == Init /\ [][Next]_vars

---------------------------------------------------------------------------
\* The orders of a side with their places: <<level, position>>.
Places(x, side) == UNION {{<<i, j>> : j \in DOMAIN x[side][i].orders} : i \in DOMAIN x[side]}
At(x, side, p) == x[side][p[1]].orders[p[2]]
Ahead(p, q) == p[1] < q[1] \/ (p[1] = q[1] /\ p[2] < q[2])

AcksOf(sent, id) == {e \in sent : e.payload.order_id = id}
Acknowledged(sent, id) == MapThenSumSet(LAMBDA e : e.payload.filled_qty, AcksOf(sent, id))
RemainingIn(x, id) ==
  MapThenSumSet(LAMBDA o : o.remaining_qty,
                {o \in Resting(x, "Bid") \cup Resting(x, "Ask") : o.order_id = id})

\* The volume at the places P: the orders' own and what is ahead of them.
VolumeAt(x, side, P) ==
  MapThenSumSet(LAMBDA p : At(x, side, p).qty_ahead + At(x, side, p).remaining_qty, P)

\* The market's volume in front of the order at p, as far as its level counts it.
MarketVolumeBefore(x, side, p) ==
  MapThenSumSet(LAMBDA j : x[side][p[1]].orders[j].qty_ahead, 1..p[2]) % Word

(* The levels of a side are sorted by price, and the orders of a level by arrival;
   none is empty, and no order rests twice.  A level's total_qty_ahead, from which
   the place of the next order is worked out, is the volume ahead of its orders,
   whatever was cancelled or filled between. *)
LevelsIntact ==
  /\ vx \in [Sides -> Seq(VirtualLevel)]
  /\ \A side \in Sides :
       /\ \A i \in DOMAIN vx[side] : HasOrders(vx[side][i])
       /\ \A p, q \in Places(vx, side) : Ahead(p, q) =>
            IF p[1] = q[1] THEN At(vx, side, p).order_id < At(vx, side, q).order_id
            ELSE /\ Better(side, vx[side][p[1]].price, vx[side][q[1]].price)
                 /\ At(vx, side, p).order_id # At(vx, side, q).order_id
       /\ \A i \in DOMAIN vx[side] :
            LET orders == vx[side][i].orders
            IN  vx[side][i].total_qty_ahead =
                  MapThenSumSet(LAMBDA j : orders[j].qty_ahead, DOMAIN orders) % Word

(* Price-time priority: an order is filled only when the volume ahead of it and
   every order in front of it, at its price and at better ones, is used up; the
   acknowledgements leave in that order. *)
PriceTimePriority ==
  [][acks' # {} =>
       LET side == call'.side
           front(p) == AcksOf(acks', At(vx, side, p).order_id)
       IN  \A q \in {p \in Places(vx, side) : front(p) # {}} :
             /\ \A p \in Places(vx, side) : Ahead(p, q) =>
                  /\ RemainingIn(vx', At(vx, side, p).order_id) = 0
                  /\ \A e \in front(p), f \in front(q) : e.sequence_number < f.sequence_number
             /\ \A o \in Resting(vx', side) :
                  o.order_id = At(vx, side, q).order_id => o.qty_ahead = 0]_vars

(* A fill uses up its size in volume at the levels it reaches, or all they have:
   neither virtual fills nor the volume in front of them are counted twice. *)
VolumeUsed ==
  [][call'.op = "fill" =>
       LET side    == call'.side
           reached == {p \in Places(vx, side) : ~Better(side, call'.price, vx[side][p[1]].price)}
           before  == VolumeAt(vx, side, reached)
       IN  VolumeAt(vx, side, Places(vx, side)) - VolumeAt(vx', side, Places(vx', side))
             = MinOf(before, call'.size)]_vars

(* What an order loses is what is acknowledged of it, unless it was cancelled. *)
FillsAreAcknowledged ==
  [][\A id \in 1..created :
       \/ call' = [op |-> "cancel", order_id |-> id]
       \/ RemainingIn(vx, id) = RemainingIn(vx', id) + Acknowledged(acks', id)]_vars

(* A cancel takes no one's place: the market volume in front of every other order,
   that ahead of the orders before it at its level included, stays what it was. *)
CancelKeepsPlaces ==
  [][call'.op = "cancel" =>
       \A side \in Sides : \A p \in Places(vx, side), q \in Places(vx', side) :
         At(vx, side, p).order_id = At(vx', side, q).order_id =>
           MarketVolumeBefore(vx, side, p) = MarketVolumeBefore(vx', side, q)]_vars

(* The volume ahead of an order that has just arrived is part of the volume the
   market shows at its price, as VirtualExchange_test.cpp:153 pictures it.  Not so
   if the volume shown has shrunk below what is counted ahead of the earlier orders. *)
NoMoreAheadThanShown ==
  call.op = "create" =>
    \A o \in Resting(vx, call.side) : o.order_id = call.order_id => o.qty_ahead <= call.shown
====
