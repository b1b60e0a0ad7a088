---- MODULE BarEngineProofs ----
(* Proofs about the engine for daily bars, for every set of tickers, length of the
   recording, account and window. *)
EXTENDS BarEngine, ContainerFacts

---------------------------------------------------------------------------
(* The order of the bars, and what the queue follows from. *)

EventTypes == {"Market", "Signal", "Order", "Fill"}

\* An event that follows from the latest bar of its ticker.
FollowsBar(event) ==
  /\ event.type \in EventTypes
  /\ event.ticker \in Tickers
  /\ last[event.ticker] # NoBar
  /\ event.timestamp = last[event.ticker].time
  /\ \A u \in Tickers : last[u].time <= event.timestamp
  /\ event.type = "Fill" => event.fill_price = PriceInfo(event.ticker).open

\* The files are sorted, and no bar that was handed out is later than one to come.
Sorted ==
  /\ ahead \in [Tickers -> BarsAfter(0)]
  /\ last \in [Tickers -> BarsAfter(0)]
  /\ \A t \in Tickers : HasBar(t) => last[t].time < ahead[t].time
  /\ \A t, u \in Tickers : HasBar(t) => last[u].time <= ahead[t].time

OrderInv == /\ Sorted
            /\ queue # <<>> => \E event : queue = <<event>> /\ FollowsBar(event)
            /\ ~is_running => queue = <<>> /\ \A t \in Tickers : ~HasBar(t)

\* A bar has a time from 1 on, and what stands behind it a later one.
LEMMA BarTimes ==
  ASSUME NEW time \in Nat, NEW b \in BarsAfter(time)
  PROVE  /\ b.time \in Nat
         /\ b # NoBar => b.time > time
         /\ b \in BarsAfter(0)
  BY BarAssumption DEF BarsAfter, NoBar

\* Answering an event leaves its one answer, or none, in the queue.
LEMMA AnsweredOne ==
  ASSUME NEW event, queue = <<event>>, NEW events, events = <<>> \/ \E e : events = <<e>>,
         Answered(events)
  PROVE  queue' = events
<1>1. Tail(queue) = <<>>
  OBVIOUS
<1> QED
  BY <1>1 DEF Answered

\* Every step keeps the order of time and the place of the event in it.
LEMMA OrderInductive == OrderInv /\ [Next]_vars => OrderInv'
<1> SUFFICES ASSUME OrderInv, [Next]_vars PROVE OrderInv'
  OBVIOUS
<1> USE BarAssumption
<1>1. CASE Update
  <2>1. PICK t \in Tickers : \E b \in BarsAfter(ahead[t].time) :
               /\ HasEarliestBar(t)
               /\ queue' = <<Market(t, ahead[t])>>
               /\ last' = [last EXCEPT ![t] = ahead[t]]
               /\ ahead' = [ahead EXCEPT ![t] = b]
    BY <1>1 DEF Update
  <2>2. PICK b \in BarsAfter(ahead[t].time) :
               /\ HasEarliestBar(t)
               /\ queue' = <<Market(t, ahead[t])>>
               /\ last' = [last EXCEPT ![t] = ahead[t]]
               /\ ahead' = [ahead EXCEPT ![t] = b]
    BY <2>1
  <2>3. is_running' /\ is_running = is_running'
    BY <1>1 DEF Update
  <2>4. \A u \in Tickers : /\ ahead[u] \in BarsAfter(0) /\ ahead[u].time \in Nat
                           /\ last[u] \in BarsAfter(0) /\ last[u].time \in Nat
    BY BarTimes DEF OrderInv, Sorted
  <2>5. b \in BarsAfter(0) /\ b.time \in Nat /\ (b # NoBar => b.time > ahead[t].time)
    BY <2>2, <2>4, BarTimes
  <2>6. \A u \in Tickers : /\ ahead'[u] = IF u = t THEN b ELSE ahead[u]
                           /\ last'[u] = IF u = t THEN ahead[t] ELSE last[u]
    BY <2>2 DEF OrderInv, Sorted
  <2>7. Sorted'
    BY <2>2, <2>4, <2>5, <2>6 DEF OrderInv, Sorted, HasBar, HasEarliestBar
  <2>8. PICK event : event = Market(t, ahead[t])
    OBVIOUS
  <2>9. FollowsBar(event)'
    <3>1. /\ event.type = "Market" /\ event.ticker = t /\ event.timestamp = ahead[t].time
      BY <2>8 DEF Market
    <3>2. last'[event.ticker] # NoBar /\ event.timestamp = last'[event.ticker].time
      BY <2>2, <2>6, <3>1 DEF HasEarliestBar, HasBar
    <3>3. \A u \in Tickers : last'[u].time <= event.timestamp
      BY <2>2, <2>4, <2>6, <3>1 DEF OrderInv, Sorted, HasEarliestBar
    <3> QED
      BY <3>1, <3>2, <3>3 DEF FollowsBar, EventTypes
  <2>10. queue' = <<event>> /\ is_running'
    BY <2>2, <2>3, <2>8
  <2> QED
    BY <2>7, <2>9, <2>10 DEF OrderInv
<1>2. CASE EndOfData
  <2>1. /\ queue' = <<>> /\ UNCHANGED <<ahead, last>> /\ \A t \in Tickers : ~HasBar(t)
    BY <1>2 DEF EndOfData
  <2> QED
    BY <2>1 DEF OrderInv, Sorted, HasBar
<1>3. ASSUME NEW type, IsNext(type), UNCHANGED <<ahead, last, is_running>>, NEW events,
             Answered(events),
             events # <<>> => \E e : /\ events = <<e>>
                                     /\ e.type \in EventTypes /\ e.ticker = Head(queue).ticker
                                     /\ e.timestamp = Head(queue).timestamp
                                     /\ e.type = "Fill" => e.fill_price = PriceInfo(e.ticker).open
      PROVE  OrderInv'
  <2>1. PICK event : queue = <<event>> /\ FollowsBar(event)
    BY <1>3 DEF IsNext, OrderInv
  <2>2. Head(queue) = event
    BY <2>1
  <2>3. queue' = events
    BY <1>3, <2>1, AnsweredOne
  <2>4. Sorted' /\ is_running
    BY <1>3, <2>1 DEF OrderInv, Sorted, HasBar
  <2>5. ASSUME NEW e, events = <<e>>, e.type \in EventTypes, e.ticker = event.ticker,
               e.timestamp = event.timestamp,
               e.type = "Fill" => e.fill_price = PriceInfo(e.ticker).open
        PROVE  FollowsBar(e)'
    BY <1>3, <2>1, <2>5 DEF FollowsBar, PriceInfo
  <2>6. queue' # <<>> => \E e : queue' = <<e>> /\ FollowsBar(e)'
    BY <1>3, <2>2, <2>3, <2>5
  <2> QED
    BY <1>3, <2>4, <2>6 DEF OrderInv
<1>4. CASE HandleMarket
  <2> DEFINE event == Head(queue)
             signal == SignalOf(strategy[event.ticker], event.close)
             events == IF signal = NoSignal THEN <<>> ELSE <<Signal(event, signal)>>
  <2>1. IsNext("Market") /\ Answered(events) /\ UNCHANGED <<ahead, last, is_running>>
    BY <1>4 DEF HandleMarket
  <2>2. events # <<>> => events = <<Signal(event, signal)>>
    OBVIOUS
  <2>3. /\ Signal(event, signal).type = "Signal" /\ Signal(event, signal).ticker = event.ticker
        /\ Signal(event, signal).timestamp = event.timestamp
    BY DEF Signal
  <2> HIDE DEF events, signal
  <2> QED
    BY <1>3, <2>1, <2>2, <2>3 DEF EventTypes
<1>5. CASE HandleSignal
  <2> DEFINE events == IF Approved(Head(queue)) THEN <<Order(Head(queue))>> ELSE <<>>
  <2>1. IsNext("Signal") /\ Answered(events) /\ UNCHANGED <<ahead, last, is_running>>
    BY <1>5 DEF HandleSignal
  <2>2. events # <<>> => events = <<Order(Head(queue))>>
    OBVIOUS
  <2>3. /\ Order(Head(queue)).type = "Order" /\ Order(Head(queue)).ticker = Head(queue).ticker
        /\ Order(Head(queue)).timestamp = Head(queue).timestamp
    BY DEF Order
  <2> HIDE DEF events
  <2> QED
    BY <1>3, <2>1, <2>2, <2>3 DEF EventTypes
<1>6. CASE HandleOrder
  <2> DEFINE fill == Fill(Head(queue), PriceInfo(Head(queue).ticker).open)
  <2>1. IsNext("Order") /\ Answered(<<fill>>) /\ UNCHANGED <<ahead, last, is_running>>
    BY <1>6 DEF HandleOrder
  <2>2. /\ fill.type = "Fill" /\ fill.ticker = Head(queue).ticker
        /\ fill.timestamp = Head(queue).timestamp
        /\ fill.fill_price = PriceInfo(fill.ticker).open
    BY DEF Fill
  <2> HIDE DEF fill
  <2> QED
    BY <1>3, <2>1, <2>2 DEF EventTypes
<1>7. CASE HandleFill
  <2>1. IsNext("Fill") /\ Answered(<<>>) /\ UNCHANGED <<ahead, last, is_running>>
    BY <1>7 DEF HandleFill
  <2> QED
    BY <1>3, <2>1
<1>8. CASE UNCHANGED vars
  BY <1>8 DEF vars, OrderInv, Sorted, HasBar, FollowsBar, PriceInfo
<1> QED
  BY <1>1, <1>2, <1>4, <1>5, <1>6, <1>7, <1>8 DEF Next, Stopped

\* It holds of every recording before its first bar.
LEMMA OrderInitially == Init => OrderInv
  BY BarAssumption DEF Init, OrderInv, Sorted, HasBar, BarsAfter, NoBar

(* The files of all tickers are merged into one sequence in time, for every number
   of tickers and days (HistoricCSVDataHandler::update). *)
THEOREM MergeSafety == Spec => []MergedInTimeOrder
<1>1. OrderInv => MergedInTimeOrder
  BY DEF OrderInv, Sorted, FollowsBar, MergedInTimeOrder
<1> QED
  BY <1>1, OrderInitially, OrderInductive, PTL DEF Spec

(* No trade takes place at a price of a bar the strategy has seen, unless the
   recording of its ticker has ended (get_latest_price_info). *)
THEOREM FillSafety == Spec => []FillsAtNextBar
<1>1. OrderInv => FillsAtNextBar
  BY DEF OrderInv, Sorted, FollowsBar, FillsAtNextBar, PriceInfo, HasBar
<1> QED
  BY <1>1, OrderInitially, OrderInductive, PTL DEF Spec

---------------------------------------------------------------------------
(* The cash. *)

Fall == Max({s.open - s.close : s \in Shapes} \cup {0})

Floor == -(PositionSize * Fall + Commission)

\* A trade on its way: at the close of the bar it trades at it could be paid.
Funded(event) ==
  event.type \in {"Order", "Fill"} =>
    /\ event.quantity = PositionSize
    /\ event.direction \in {"BUY", "SELL"}
    /\ portfolio.cash >= PositionSize * PriceInfo(event.ticker).close
    /\ event.type = "Fill" => event.commission = Commission

CashInv ==
  /\ portfolio = [cash |-> portfolio.cash, peak |-> portfolio.peak, positions |-> portfolio.positions]
  /\ portfolio.cash \in Int /\ portfolio.cash >= Floor
  /\ \A k \in DOMAIN queue : Funded(queue[k])

\* The larger factor makes the larger product.
LEMMA ProductOrder ==
  ASSUME NEW n \in Nat, NEW a \in Int, NEW b \in Int, a <= b
  PROVE  n * a \in Int /\ n * b \in Int /\ n * a <= n * b
  OBVIOUS

\* No bar falls by more than Fall between its open and its close.
LEMMA FallBounds ==
  Fall \in Nat /\ \A s \in Shapes : s.open \in Nat /\ s.close \in Nat /\ s.open - s.close <= Fall
<1> DEFINE Falls == {s.open - s.close : s \in Shapes}
           f == [s \in Shapes |-> s.open - s.close]
<1>1. \A s \in Shapes : s.open \in Nat /\ s.close \in Nat /\ s.open - s.close \in Int
  BY BarAssumption
<1>2. IsFiniteSet(Falls)
  <2>1. f \in Surjection(Shapes, Falls)
    BY DEF Surjection
  <2> QED
    BY <2>1, BarAssumption, FS_Surjection
<1>3. IsFiniteSet(Falls \cup {0})
  BY <1>2, FS_AddElement
<1>4. Falls \cup {0} \in SUBSET Int
  BY <1>1
<1> HIDE DEF Falls
<1>5. Max(Falls \cup {0}) \in Falls \cup {0} /\ \A y \in Falls \cup {0} : Max(Falls \cup {0}) >= y
  BY <1>3, <1>4, GreatestElement
<1>6. Fall \in Int /\ Fall >= 0 /\ \A y \in Falls : Fall >= y
  BY <1>4, <1>5 DEF Fall, Falls
<1> QED
  BY <1>1, <1>6 DEF Falls

\* The price of a trade that is due is taken from a bar, the same as long as it is due.
LEMMA PriceIsOfBar ==
  ASSUME Sorted, NEW t \in Tickers, last[t] # NoBar
  PROVE  \E s \in Shapes : PriceInfo(t).open = s.open /\ PriceInfo(t).close = s.close
<1>1. ahead[t] \in BarsAfter(0) /\ last[t] \in BarsAfter(0)
  BY DEF Sorted
<1>2. PriceInfo(t) \in BarsAfter(0) /\ PriceInfo(t) # NoBar
  BY <1>1 DEF PriceInfo
<1> QED
  BY <1>2 DEF BarsAfter

\* A trade that could be paid at the close is paid at the open.
LEMMA PaidAtOpen ==
  ASSUME CashInv, NEW fill, Funded(fill), fill.type = "Fill",
         NEW s \in Shapes, fill.fill_price = s.open, PriceInfo(fill.ticker).close = s.close
  PROVE  LET p == Account!OnFill(portfolio, fill)
         IN  /\ p = [cash |-> p.cash, peak |-> p.peak, positions |-> p.positions]
             /\ p.cash \in Int /\ p.cash >= Floor
<1> DEFINE p    == Account!OnFill(portfolio, fill)
           cost == Account!CostOf(Account!Signed(fill), fill)
<1>1. /\ s.open \in Nat /\ s.close \in Nat /\ s.open - s.close <= Fall /\ Fall \in Nat
      /\ PositionSize \in Nat /\ Commission \in Nat
  BY FallBounds, BarAssumption
<1>2. /\ fill.quantity = PositionSize /\ fill.commission = Commission
      /\ fill.direction \in {"BUY", "SELL"}
      /\ portfolio.cash >= PositionSize * s.close
  BY DEF Funded
<1>3. PositionSize * (s.open - s.close) <= PositionSize * Fall
  BY <1>1, ProductOrder
<1>4. /\ PositionSize * s.open \in Nat /\ PositionSize * s.close \in Nat /\ PositionSize * Fall \in Nat
      /\ PositionSize * (s.open - s.close) = PositionSize * s.open - PositionSize * s.close
  BY <1>1
<1>5. cost \in {PositionSize * s.open + Commission, -(PositionSize * s.open) + Commission}
  <2>1. (-PositionSize) * s.open = -(PositionSize * s.open)
    BY <1>1
  <2> QED
    BY <1>2, <2>1 DEF Account!CostOf, Account!Signed
<1>6. p.cash = portfolio.cash - cost /\ p = [cash |-> p.cash, peak |-> p.peak, positions |-> p.positions]
  <2> DEFINE pos == Account!PositionOf(portfolio, fill.ticker)
             left == pos.quantity + Account!Signed(fill)
             ps == Account!With(portfolio.positions, fill.ticker,
                     [quantity |-> left, market_value |-> left * fill.fill_price,
                      cost_basis |-> Account!CostBasis(pos, fill)])
  <2>1. p = [portfolio EXCEPT !.cash = @ - cost, !.positions = ps]
    BY DEF Account!OnFill
  <2> HIDE DEF p, cost, ps
  <2> QED
    BY <2>1 DEF CashInv
<1>7. portfolio.cash \in Int
  BY DEF CashInv
<1> DEFINE o == PositionSize * s.open
           c == PositionSize * s.close
           m == PositionSize * Fall
<1>8. o \in Nat /\ c \in Nat /\ m \in Nat /\ o - c <= m /\ portfolio.cash >= c
  BY <1>2, <1>3, <1>4
<1>9. p.cash \in {portfolio.cash - (o + Commission), portfolio.cash - (-o + Commission)}
  BY <1>5, <1>6
<1>10. Floor = -(m + Commission)
  BY DEF Floor
<1> HIDE DEF p, cost, o, c, m
<1>11. p.cash \in Int /\ p.cash >= Floor
  BY <1>1, <1>7, <1>8, <1>9, <1>10
<1> QED
  BY <1>6, <1>11 DEF p

OverdraftInv == OrderInv /\ CashInv

\* The cash stays funded: the price of the next bar does not change while a trade is due.
LEMMA OverdraftInductive == OverdraftInv /\ [Next]_vars => OverdraftInv'
<1> SUFFICES ASSUME OrderInv, CashInv, [Next]_vars PROVE CashInv'
  BY OrderInductive DEF OverdraftInv
<1>1. CASE Update
  <2>1. PICK t \in Tickers : queue' = <<Market(t, ahead[t])>>
    BY <1>1 DEF Update
  <2>2. PICK event : event = Market(t, ahead[t])
    OBVIOUS
  <2>3. queue' = <<event>> /\ event.type = "Market" /\ portfolio' = portfolio
    BY <1>1, <2>1, <2>2 DEF Update, Market
  <2> QED
    BY <2>3 DEF CashInv, Funded
<1>2. ASSUME NEW type, IsNext(type)
      PROVE  \E event : queue = <<event>> /\ FollowsBar(event) /\ Head(queue) = event /\ event.type = type
  BY <1>2 DEF IsNext, OrderInv
<1>3. CASE EndOfData
  BY <1>3 DEF EndOfData, CashInv
<1>4. CASE HandleMarket
  <2> DEFINE event == Head(queue)
             signal == SignalOf(strategy[event.ticker], event.close)
             events == IF signal = NoSignal THEN <<>> ELSE <<Signal(event, signal)>>
  <2>1. IsNext("Market") /\ Answered(events) /\ portfolio' = Account!OnMarketData(portfolio, event)
    BY <1>4 DEF HandleMarket
  <2>2. events = <<>> \/ \E e : events = <<e>> /\ e.type = "Signal"
    BY DEF Signal
  <2>3. /\ portfolio' = [cash |-> portfolio'.cash, peak |-> portfolio'.peak,
                         positions |-> portfolio'.positions]
        /\ portfolio'.cash = portfolio.cash
    BY <2>1 DEF CashInv, Account!OnMarketData
  <2> HIDE DEF events
  <2>4. queue' = events
    BY <1>2, <2>1, <2>2, AnsweredOne
  <2> QED
    BY <2>2, <2>3, <2>4 DEF CashInv, Funded
<1>5. CASE HandleSignal
  <2> DEFINE events == IF Approved(Head(queue)) THEN <<Order(Head(queue))>> ELSE <<>>
  <2>1. IsNext("Signal") /\ Answered(events) /\ UNCHANGED <<ahead, last, portfolio>>
    BY <1>5 DEF HandleSignal
  <2>2. events # <<>> => events = <<Order(Head(queue))>> /\ Approved(Head(queue))
    OBVIOUS
  <2>3. PICK order : order = Order(Head(queue))
    OBVIOUS
  <2>4. /\ order.type = "Order" /\ order.ticker = Head(queue).ticker
        /\ order.quantity = PositionSize /\ order.direction \in {"BUY", "SELL"}
    BY <2>3 DEF Order
  <2> HIDE DEF events
  <2>5. queue' = events
    BY <1>2, <2>1, <2>2, AnsweredOne
  <2>6. queue' # <<>> => Funded(order)'
    BY <2>1, <2>2, <2>4, <2>5 DEF Funded, Approved, PriceInfo
  <2> QED
    BY <2>1, <2>2, <2>3, <2>5, <2>6 DEF CashInv
<1>6. CASE HandleOrder
  <2>1. PICK order : queue = <<order>> /\ FollowsBar(order) /\ Head(queue) = order /\ order.type = "Order"
    BY <1>2, <1>6 DEF HandleOrder
  <2>2. PICK fill : fill = Fill(order, PriceInfo(order.ticker).open)
    OBVIOUS
  <2>3. Answered(<<fill>>) /\ UNCHANGED <<ahead, last, portfolio>>
    BY <1>6, <2>1, <2>2 DEF HandleOrder
  <2>4. /\ fill.type = "Fill" /\ fill.ticker = order.ticker /\ fill.quantity = order.quantity
        /\ fill.direction = order.direction /\ fill.commission = Commission
    BY <2>2 DEF Fill
  <2>5. queue' = <<fill>>
    BY <2>1, <2>3, AnsweredOne
  <2>6. Funded(order)
    BY <2>1 DEF CashInv
  <2>7. Funded(fill)'
    BY <2>1, <2>3, <2>4, <2>6 DEF Funded, PriceInfo
  <2> QED
    BY <2>3, <2>5, <2>7 DEF CashInv
<1>7. CASE HandleFill
  <2>1. PICK fill : queue = <<fill>> /\ FollowsBar(fill) /\ Head(queue) = fill /\ fill.type = "Fill"
    BY <1>2, <1>7 DEF HandleFill
  <2>2. Answered(<<>>) /\ portfolio' = Account!OnFill(portfolio, fill)
    BY <1>7, <2>1 DEF HandleFill
  <2>3. queue' = <<>>
    BY <2>1, <2>2, AnsweredOne
  <2>4. Funded(fill)
    BY <2>1 DEF CashInv
  <2>5. PICK s \in Shapes : fill.fill_price = s.open /\ PriceInfo(fill.ticker).close = s.close
    BY <2>1, PriceIsOfBar DEF FollowsBar, OrderInv
  <2> DEFINE p == Account!OnFill(portfolio, fill)
  <2>6. /\ p = [cash |-> p.cash, peak |-> p.peak, positions |-> p.positions]
        /\ p.cash \in Int /\ p.cash >= Floor
    BY <2>1, <2>4, <2>5, PaidAtOpen
  <2> HIDE DEF p
  <2>7. portfolio' = p
    BY <2>2 DEF p
  <2> QED
    BY <2>3, <2>6, <2>7 DEF CashInv
<1>8. CASE UNCHANGED vars
  BY <1>8 DEF vars, CashInv, Funded, PriceInfo
<1> QED
  BY <1>1, <1>3, <1>4, <1>5, <1>6, <1>7, <1>8 DEF Next, Stopped

\* The account starts above the floor.
LEMMA OverdraftInitially == Init => OverdraftInv
<1>1. Init => CashInv
  <2> SUFFICES ASSUME Init PROVE CashInv
    OBVIOUS
  <2>1. /\ portfolio = [cash |-> InitialCapital, peak |-> InitialCapital, positions |-> <<>>]
        /\ queue = <<>>
    BY DEF Init, Account!NewPortfolio
  <2>2. InitialCapital >= Floor
    <3>1. PositionSize * Fall \in Nat /\ Commission \in Nat /\ InitialCapital \in Nat
      BY FallBounds, BarAssumption
    <3> DEFINE m == PositionSize * Fall
    <3>2. m \in Nat /\ Floor = -(m + Commission)
      BY <3>1 DEF Floor
    <3> HIDE DEF m
    <3> QED
      BY <3>1, <3>2
  <2> QED
    BY <2>1, <2>2, BarAssumption DEF CashInv
<1> QED
  BY <1>1, OrderInitially DEF OverdraftInv

(* However the prices move between the check of the cash and the trade, the account
   is overdrawn by no more than the fall of one bar and a commission, for every
   recording: no two orders are ever on their way at once (RiskManager.cpp). *)
THEOREM OverdraftSafety == Spec => []OverdraftBounded
<1>1. OverdraftInv => OverdraftBounded
  BY DEF OverdraftInv, CashInv, OverdraftBounded, Floor, Fall
<1> QED
  BY <1>1, OverdraftInitially, OverdraftInductive, PTL DEF Spec

---------------------------------------------------------------------------
(* The signals. *)

\* What of these closes stands in the long window.
Window(prices) == IF Len(prices) <= LongWindow THEN prices ELSE Tail(prices)

\* The closes that are kept with one more.
Seen(prices, close) ==
  LET seen == Append(prices, close)
  IN  IF Len(seen) > LongWindow + 1 THEN Tail(seen) ELSE seen

\* No price is zero.
LEMMA PricesPositive == Prices \subseteq Nat \ {0}
  BY BarAssumption DEF Prices

\* The fold that adds up the prices is a sum.
LEMMA TotalIsSum ==
  ASSUME NEW prices \in Seq(Nat)
  PROVE  /\ IsFiniteSet(DOMAIN prices) /\ \A i \in DOMAIN prices : prices[i] \in Nat
         /\ Total(prices) = SumOver(prices, DOMAIN prices)
<1> DEFINE D == DOMAIN prices
           greatest == [T \in SUBSET D |-> Max(T)]
           f == CHOOSE g : g = [T \in SUBSET D |->
                  IF T = {} THEN 0 ELSE g[T \ {Max(T)}] + prices[Max(T)]]
<1>1. D = 1..Len(prices) /\ Len(prices) \in Nat /\ \A i \in D : prices[i] \in Nat
  OBVIOUS
<1>2. IsFiniteSet(D)
  BY <1>1, FS_Interval
<1>3. Total(prices) = f[D]
  BY DEF Total, FoldLeft, MapThenFoldSet
<1> HIDE DEF f
<1>4. \A T \in SUBSET D : T # {} => Max(T) \in T
  <2> SUFFICES ASSUME NEW T \in SUBSET D, T # {} PROVE Max(T) \in T
    OBVIOUS
  <2>1. T \in SUBSET Int /\ IsFiniteSet(T)
    BY <1>1, <1>2, FS_Subset
  <2> QED
    BY <2>1, GreatestElement
<1> HIDE DEF D
<1>5. Picks(greatest, D)
  BY <1>4 DEF Picks
<1>6. Weighs(prices, D)
  BY <1>1 DEF Weighs
<1>7. PICK g : AddsUp(g, prices, D, greatest)
  BY <1>2, <1>5, SumExists
<1>8. AnyFirst(g, prices, D)
  BY <1>2, <1>5, <1>6, <1>7, SumAnyFirst
<1>9. g = [T \in SUBSET D |-> IF T = {} THEN 0 ELSE g[T \ {Max(T)}] + prices[Max(T)]]
  <2>1. ASSUME NEW T \in SUBSET D, T # {}
        PROVE  prices[Max(T)] + g[T \ {Max(T)}] = g[T \ {Max(T)}] + prices[Max(T)]
    <3>1. prices[Max(T)] \in Int /\ g[T \ {Max(T)}] \in Int
      BY <1>4, <1>6, <1>8, <2>1 DEF Weighs, AnyFirst
    <3> QED
      BY <3>1
  <2>2. g = [T \in SUBSET D |-> IF T = {} THEN 0 ELSE prices[Max(T)] + g[T \ {Max(T)}]]
    BY <1>7 DEF AddsUp
  <2> QED
    BY <2>1, <2>2
<1>10. f = [T \in SUBSET D |-> IF T = {} THEN 0 ELSE f[T \ {Max(T)}] + prices[Max(T)]]
  BY <1>9 DEF f
<1> DEFINE G == {T \in SUBSET D : f[T] \in Int}
<1>11. {} \in G
  BY <1>10
<1>12. ASSUME NEW T \in SUBSET D, T # {}, \A x \in T : T \ {x} \in G
      PROVE  T \in G
  <2> DEFINE rest == f[T \ {Max(T)}]
  <2>1. rest \in Int /\ prices[Max(T)] \in Int
    BY <1>4, <1>6, <1>12 DEF Weighs
  <2>2. f[T] = rest + prices[Max(T)]
    BY <1>10, <1>12
  <2> HIDE DEF rest
  <2>3. f[T] \in Int
    BY <2>1, <2>2
  <2> QED
    BY <2>3
<1> HIDE DEF G
<1>13. SUBSET D \subseteq G
  BY <1>2, <1>11, <1>12, SubsetInduction
<1>14. AddsUp(f, prices, D, greatest)
  <2>1. ASSUME NEW T \in SUBSET D, T # {}
        PROVE  prices[Max(T)] + f[T \ {Max(T)}] = f[T \ {Max(T)}] + prices[Max(T)]
    <3>1. prices[Max(T)] \in Int /\ f[T \ {Max(T)}] \in Int
      BY <1>4, <1>6, <1>13, <2>1 DEF Weighs, G
    <3> QED
      BY <3>1
  <2> QED
    BY <1>10, <2>1 DEF AddsUp
<1>15. SumOver(prices, D) = f[D]
  BY <1>2, <1>5, <1>6, <1>14, SumFound
<1> QED
  BY <1>1, <1>2, <1>3, <1>15 DEF D

\* The latest prices of a sequence, when it has no more than these.
LEMMA LatestAll ==
  ASSUME NEW prices \in Seq(Prices)
  PROVE  Latest(Len(prices), prices) = prices
<1>1. Len(prices) - Len(prices) + 1 = 1
  BY LenProperties
<1> QED
  BY <1>1 DEF Latest

\* What stood before the latest close.
LEMMA FrontOfAppend ==
  ASSUME NEW prices \in Seq(Prices), NEW close \in Prices
  PROVE  Front(Append(prices, close)) = prices
BY DEF Front

\* The window of the strategy is the end of the closes that are kept, and was the
\* part before the latest of them as soon as it was full.
LEMMA WindowMoves ==
  ASSUME NEW prices \in Seq(Prices), Len(prices) <= LongWindow + 1, NEW close \in Prices
  PROVE  LET next == Seen(prices, close)
         IN  /\ next \in Seq(Prices) /\ Len(next) <= LongWindow + 1
             /\ Pushed(Window(prices), close) = Window(next)
             /\ Len(prices) < LongWindow => Len(next) = Len(prices) + 1
             /\ Len(prices) >= LongWindow =>
                  /\ Len(next) = LongWindow + 1
                  /\ Len(Window(prices)) = LongWindow
                  /\ Front(next) = Window(prices)
<1> DEFINE seen == Append(prices, close)
<1> USE WindowAssumption
<1>1. seen \in Seq(Prices) /\ Len(seen) = Len(prices) + 1 /\ Len(prices) \in Nat
  OBVIOUS
<1>2. CASE Len(prices) <= LongWindow
  <2>1. Seen(prices, close) = seen /\ Window(prices) = prices
    BY <1>1, <1>2 DEF Seen, Window
  <2>2. Pushed(prices, close) = Window(seen)
    BY DEF Pushed, Window
  <2>3. Front(seen) = prices
    BY FrontOfAppend
  <2> QED
    BY <1>1, <1>2, <2>1, <2>2, <2>3
<1>3. CASE Len(prices) = LongWindow + 1
  <2>1. Seen(prices, close) = Tail(seen) /\ Window(prices) = Tail(prices)
    BY <1>1, <1>3 DEF Seen, Window
  <2>2. Tail(seen) = Append(Tail(prices), close)
    BY <1>1, <1>3
  <2>3. Tail(prices) \in Seq(Prices) /\ Len(Tail(prices)) = LongWindow
    BY <1>3
  <2>4. Front(Tail(seen)) = Tail(prices)
    BY <2>2, <2>3, FrontOfAppend
  <2>5. Pushed(Tail(prices), close) = Window(Tail(seen))
    <3> DEFINE rest == Tail(prices)
    <3>1. Len(Append(rest, close)) = LongWindow + 1
      BY <2>3
    <3>2. ~(LongWindow + 1 <= LongWindow) /\ LongWindow + 1 > LongWindow
      OBVIOUS
    <3>3. Pushed(rest, close) = Tail(Append(rest, close))
      BY <3>1, <3>2 DEF Pushed
    <3>4. Window(Append(rest, close)) = Tail(Append(rest, close))
      BY <3>1, <3>2 DEF Window
    <3> QED
      BY <2>2, <3>3, <3>4
  <2> QED
    BY <1>3, <2>1, <2>2, <2>3, <2>4, <2>5
<1> QED
  BY <1>1, <1>2, <1>3

\* Prices that are old enough do not count.
LEMMA LatestOfTail ==
  ASSUME NEW prices \in Seq(Prices), NEW n \in Nat, n < Len(prices)
  PROVE  Latest(n, prices) = Latest(n, Tail(prices))
<1>1. Tail(prices) \in Seq(Prices) /\ Len(Tail(prices)) = Len(prices) - 1
  BY HeadTailProperties
<1> QED
  BY <1>1 DEF Latest

\* The averages that follow from the closes that are kept.
Kept(prices, s) ==
  /\ prices \in Seq(Prices) /\ Len(prices) <= LongWindow + 1
  /\ s = [history |-> Window(prices), short_ma |-> s.short_ma, long_ma |-> s.long_ma]
  /\ IF Len(prices) < LongWindow THEN s.short_ma = 0 /\ s.long_ma = 0
     ELSE /\ s.short_ma = Total(Latest(ShortWindow, s.history)) * LongWindow
          /\ s.long_ma = Total(s.history) * ShortWindow

\* Prices that are not zero do not add up to zero: averages of zero are no averages.
LEMMA TotalPositive ==
  ASSUME NEW prices \in Seq(Prices), prices # <<>>
  PROVE  Total(prices) \in Nat \ {0}
<1>1. prices \in Seq(Nat) /\ 1 \in DOMAIN prices /\ prices[1] > 0 /\ prices[1] \in Nat
  <2>1. 1 \in DOMAIN prices /\ prices[1] \in Prices
    OBVIOUS
  <2>2. prices[1] > 0 /\ prices[1] \in Nat
    <3>1. \A p \in Prices : p > 0 /\ p \in Nat
      BY PricesPositive
    <3> QED
      BY <2>1, <3>1
  <2>3. prices \in [1..Len(prices) -> Prices] /\ Len(prices) \in Nat
    OBVIOUS
  <2>4. prices \in [1..Len(prices) -> Nat]
    BY <2>3, PricesPositive
  <2> QED
    BY <2>1, <2>2, <2>3, <2>4, IsASeq
<1>2. /\ IsFiniteSet(DOMAIN prices) /\ \A i \in DOMAIN prices : prices[i] \in Nat
      /\ Total(prices) = SumOver(prices, DOMAIN prices)
  BY <1>1, TotalIsSum
<1>3. SumOver(prices, DOMAIN prices) \in Nat /\ prices[1] <= SumOver(prices, DOMAIN prices)
  BY <1>1, <1>2, SumOfNaturals
<1> QED
  BY <1>1, <1>2, <1>3

\* What the strategy says when a bar comes is the crossing in the closes up to it.
LEMMA CrossingSound ==
  ASSUME NEW prices, NEW s, Kept(prices, s), NEW close \in Prices
  PROVE  /\ Kept(Seen(prices, close), OnMarketData(s, close))
         /\ SignalOf(s, close) = Crossing(Seen(prices, close))
<1> USE WindowAssumption
<1> DEFINE next == Seen(prices, close)
           t    == OnMarketData(s, close)
<1>1. /\ next \in Seq(Prices) /\ Len(next) <= LongWindow + 1
      /\ Pushed(Window(prices), close) = Window(next)
      /\ Len(prices) < LongWindow => Len(next) = Len(prices) + 1
      /\ Len(prices) >= LongWindow =>
           /\ Len(next) = LongWindow + 1
           /\ Len(Window(prices)) = LongWindow
           /\ Front(next) = Window(prices)
  BY WindowMoves DEF Kept
<1>2. s.history = Window(prices) /\ Len(prices) \in Nat /\ Len(next) \in Nat
  BY <1>1 DEF Kept
<1>3. Len(Window(next)) = IF Len(next) <= LongWindow THEN Len(next) ELSE LongWindow
  BY <1>1, <1>2, HeadTailProperties DEF Window
<1>4. t.history = Window(next) /\ Kept(next, t)
  <2>1. CASE Len(next) < LongWindow
    <3>1. t = [s EXCEPT !.history = Window(next)]
      BY <1>1, <1>2, <1>3, <2>1 DEF OnMarketData
    <3>2. s.short_ma = 0 /\ s.long_ma = 0
      BY <1>1, <1>2, <2>1 DEF Kept
    <3> HIDE DEF t, next
    <3>3. /\ t = [history |-> Window(next), short_ma |-> 0, long_ma |-> 0]
      BY <3>1, <3>2 DEF Kept
    <3> QED
      BY <1>1, <2>1, <3>3 DEF Kept
  <2>2. CASE ~(Len(next) < LongWindow)
    <3>1. t = [history |-> Window(next),
               short_ma |-> Total(Latest(ShortWindow, Window(next))) * LongWindow,
               long_ma |-> Total(Window(next)) * ShortWindow]
      BY <1>1, <1>2, <1>3, <2>2 DEF OnMarketData
    <3> HIDE DEF t, next
    <3> QED
      BY <1>1, <2>2, <3>1 DEF Kept
  <2> QED
    BY <2>1, <2>2
<1>5. CASE Len(prices) < LongWindow
  <2>1. ~HadAverages(s)
    BY <1>5 DEF Kept, HadAverages
  <2>2. Len(next) <= LongWindow
    BY <1>1, <1>2, <1>5
  <2> QED
    BY <1>4, <2>1, <2>2 DEF SignalOf, Crossing
<1>6. CASE Len(prices) >= LongWindow
  <2>1. /\ Len(next) = LongWindow + 1 /\ Len(Window(prices)) = LongWindow
        /\ Front(next) = Window(prices) /\ Len(Window(next)) = LongWindow
        /\ Window(next) = Tail(next)
    BY <1>1, <1>3, <1>6 DEF Window
  <2>2. Window(prices) \in Seq(Prices) /\ Window(next) \in Seq(Prices)
    BY <1>1, <1>6, HeadTailProperties DEF Window, Kept
  <2>3. Latest(LongWindow, Window(prices)) = Window(prices)
    BY <2>1, <2>2, LatestAll
  <2>4. /\ Latest(LongWindow, next) = Window(next)
        /\ Latest(ShortWindow, next) = Latest(ShortWindow, Window(next))
    <3>1. /\ Latest(LongWindow, next) = Latest(LongWindow, Tail(next))
          /\ Latest(ShortWindow, next) = Latest(ShortWindow, Tail(next))
      BY <1>1, <2>1, LatestOfTail
    <3> QED
      BY <2>1, <2>2, <3>1, LatestAll
  <2>5. HadAverages(s)
    <3>1. Total(s.history) \in Nat \ {0}
      BY <1>2, <2>1, <2>2, TotalPositive
    <3> DEFINE total == Total(s.history)
    <3>2. s.long_ma = total * ShortWindow /\ total \in Nat /\ total # 0
      BY <1>2, <1>6, <3>1 DEF Kept
    <3> HIDE DEF total
    <3>3. s.long_ma # 0
      BY <3>2
    <3> QED
      BY <3>3 DEF HadAverages
  <2>6. /\ s.short_ma = Total(Latest(ShortWindow, Window(prices))) * LongWindow
        /\ s.long_ma = Total(Window(prices)) * ShortWindow
    BY <1>2, <1>6 DEF Kept
  <2>7. /\ t.short_ma = Total(Latest(ShortWindow, Window(next))) * LongWindow
        /\ t.long_ma = Total(Window(next)) * ShortWindow
    BY <1>2, <1>4, <2>1 DEF Kept
  <2>8. /\ s.short_ma \in Nat /\ s.long_ma \in Nat /\ t.short_ma \in Nat /\ t.long_ma \in Nat
    <3>1. \A p \in Seq(Prices) : Len(p) = LongWindow =>
             Total(p) \in Nat /\ Total(Latest(ShortWindow, p)) \in Nat
      <4> SUFFICES ASSUME NEW p \in Seq(Prices), Len(p) = LongWindow
                   PROVE  Total(p) \in Nat /\ Total(Latest(ShortWindow, p)) \in Nat
        OBVIOUS
      <4>1. /\ Latest(ShortWindow, p) \in Seq(Prices) /\ Len(Latest(ShortWindow, p)) = ShortWindow
        BY DEF Latest
      <4>2. p # <<>> /\ Latest(ShortWindow, p) # <<>>
        BY <4>1
      <4> QED
        BY <4>1, <4>2, TotalPositive
    <3> DEFINE a == Total(Latest(ShortWindow, Window(prices)))
               b == Total(Window(prices))
               c == Total(Latest(ShortWindow, Window(next)))
               d == Total(Window(next))
    <3>2. a \in Nat /\ b \in Nat /\ c \in Nat /\ d \in Nat
      BY <2>1, <2>2, <3>1
    <3>3. /\ s.short_ma = a * LongWindow /\ s.long_ma = b * ShortWindow
          /\ t.short_ma = c * LongWindow /\ t.long_ma = d * ShortWindow
      BY <2>6, <2>7
    <3> HIDE DEF a, b, c, d
    <3> QED
      BY <3>2, <3>3
  <2>9. /\ IsAbove(Window(prices)) <=> s.short_ma > s.long_ma
        /\ IsBelow(Window(prices)) <=> s.short_ma < s.long_ma
    BY <2>3, <2>6 DEF IsAbove, IsBelow
  <2>10. /\ IsAbove(next) <=> t.short_ma > t.long_ma
         /\ IsBelow(next) <=> t.short_ma < t.long_ma
    BY <2>4, <2>7 DEF IsAbove, IsBelow
  <2>11. Len(t.history) = LongWindow
    BY <1>4, <2>1
  <2> HIDE DEF t, next
  <2>12. Crossing(next) = IF ~(s.short_ma > s.long_ma) /\ t.short_ma > t.long_ma THEN "LONG"
                          ELSE IF ~(s.short_ma < s.long_ma) /\ t.short_ma < t.long_ma THEN "SHORT"
                          ELSE NoSignal
    BY <2>1, <2>9, <2>10 DEF Crossing
  <2>13. SignalOf(s, close) = IF s.short_ma <= s.long_ma /\ t.short_ma > t.long_ma THEN "LONG"
                          ELSE IF s.short_ma >= s.long_ma /\ t.short_ma < t.long_ma THEN "SHORT"
                          ELSE NoSignal
    BY <2>5, <2>11 DEF SignalOf, t
  <2> QED
    BY <1>4, <2>8, <2>12, <2>13 DEF t, next
<1> QED
  BY <1>2, <1>4, <1>5, <1>6

\* The types of what the strategy keeps.
LEMMA KeptTypes ==
  ASSUME NEW prices, NEW s, Kept(prices, s)
  PROVE  /\ Len(s.history) <= LongWindow /\ ToSet(s.history) \subseteq Prices
         /\ s.short_ma \in Nat /\ s.long_ma \in Nat
<1> USE WindowAssumption
<1>1. prices \in Seq(Prices) /\ Len(prices) \in Nat /\ Len(prices) <= LongWindow + 1 /\ s.history = Window(prices)
  BY DEF Kept
<1>2. s.history \in Seq(Prices) /\ Len(s.history) <= LongWindow
      /\ (Len(prices) >= LongWindow => Len(s.history) = LongWindow)
  <2>1. CASE Len(prices) <= LongWindow
    BY <1>1, <2>1 DEF Window
  <2>2. CASE Len(prices) = LongWindow + 1
    <3>1. s.history = Tail(prices)
      BY <1>1, <2>2 DEF Window
    <3> QED
      BY <1>1, <2>2, <3>1, HeadTailProperties
  <2> QED
    BY <1>1, <2>1, <2>2
<1>3. ToSet(s.history) \subseteq Prices
  BY <1>2 DEF ToSet
<1>4. CASE Len(prices) < LongWindow
  BY <1>2, <1>3, <1>4 DEF Kept
<1>5. CASE Len(prices) >= LongWindow
  <2> DEFINE h == s.history
             a == Total(Latest(ShortWindow, h))
             b == Total(h)
  <2>1. /\ Latest(ShortWindow, h) \in Seq(Prices) /\ Len(Latest(ShortWindow, h)) = ShortWindow
    BY <1>2, <1>5 DEF Latest
  <2>2. h # <<>> /\ Latest(ShortWindow, h) # <<>>
    BY <1>2, <1>5, <2>1
  <2>3. a \in Nat /\ b \in Nat
    BY <1>2, <2>1, <2>2, TotalPositive
  <2>4. s.short_ma = a * LongWindow /\ s.long_ma = b * ShortWindow
    BY <1>1, <1>5 DEF Kept
  <2> HIDE DEF a, b
  <2> QED
    BY <1>2, <1>3, <2>3, <2>4
<1> QED
  BY <1>1, <1>4, <1>5

\* The strategy has of each ticker the window of the closes that were delivered.
SignalInv ==
  /\ OrderInv
  /\ strategy = [t \in Tickers |-> strategy[t]] /\ closes = [t \in Tickers |-> closes[t]]
  /\ \A t \in Tickers : Kept(closes[t], strategy[t])
  /\ \A k \in DOMAIN queue : queue[k].type = "Market" => queue[k].close \in Prices

\* A bar moves window and closes together; nothing else touches them.
LEMMA SignalInductive == SignalInv /\ [Next]_vars => SignalInv'
<1> SUFFICES ASSUME SignalInv, [Next]_vars PROVE SignalInv'
  OBVIOUS
<1>1. OrderInv /\ OrderInv'
  BY OrderInductive DEF SignalInv
<1>2. ASSUME UNCHANGED <<strategy, closes>>,
             queue' = queue \/ queue' = <<>>
               \/ \E e : queue' = <<e>> /\ (e.type = "Market" => e.close \in Prices)
      PROVE  SignalInv'
  BY <1>1, <1>2 DEF SignalInv, Kept
<1>3. ASSUME NEW type, IsNext(type)
      PROVE  \E event : queue = <<event>> /\ FollowsBar(event) /\ Head(queue) = event /\ event.type = type
  BY <1>1, <1>3 DEF IsNext, OrderInv
<1>4. CASE Update
  <2>1. PICK t \in Tickers : queue' = <<Market(t, ahead[t])>> /\ HasEarliestBar(t)
    BY <1>4 DEF Update
  <2>2. ahead[t].close \in Prices
    <3>1. ahead[t] \in BarsAfter(0) /\ ahead[t] # NoBar
      BY <1>1, <2>1 DEF OrderInv, Sorted, HasEarliestBar, HasBar
    <3>2. PICK s \in Shapes : ahead[t].close = s.close
      BY <3>1 DEF BarsAfter
    <3> QED
      BY <3>2 DEF Prices
  <2>3. PICK e : e = Market(t, ahead[t])
    OBVIOUS
  <2>4. queue' = <<e>> /\ e.close \in Prices
    BY <2>1, <2>2, <2>3 DEF Market
  <2>5. UNCHANGED <<strategy, closes>>
    BY <1>4 DEF Update
  <2> QED
    BY <1>2, <2>4, <2>5
<1>5. CASE EndOfData
  BY <1>2, <1>5 DEF EndOfData
<1>6. CASE HandleMarket
  <2>1. PICK event : queue = <<event>> /\ FollowsBar(event) /\ Head(queue) = event /\ event.type = "Market"
    BY <1>3, <1>6 DEF HandleMarket
  <2> DEFINE t == event.ticker
             signal == SignalOf(strategy[t], event.close)
             events == IF signal = NoSignal THEN <<>> ELSE <<Signal(event, signal)>>
  <2>2. /\ Answered(events)
        /\ strategy' = [strategy EXCEPT ![t] = OnMarketData(@, event.close)]
        /\ closes' = [closes EXCEPT ![t] = Seen(closes[t], event.close)]
    BY <1>6, <2>1 DEF HandleMarket, Seen
  <2>3. events = <<>> \/ \E e : events = <<e>> /\ e.type = "Signal"
    BY DEF Signal
  <2> HIDE DEF events
  <2>4. queue' = <<>> \/ \E e : queue' = <<e>> /\ e.type = "Signal"
    BY <2>1, <2>2, <2>3, AnsweredOne
  <2>5. t \in Tickers /\ event.close \in Prices /\ Kept(closes[t], strategy[t])
    BY <2>1 DEF SignalInv, FollowsBar
  <2>6. Kept(Seen(closes[t], event.close), OnMarketData(strategy[t], event.close))
    BY <2>5, CrossingSound
  <2>7. \A u \in Tickers :
          /\ strategy'[u] = IF u = t THEN OnMarketData(strategy[t], event.close) ELSE strategy[u]
          /\ closes'[u] = IF u = t THEN Seen(closes[t], event.close) ELSE closes[u]
    BY <2>2, <2>5 DEF SignalInv
  <2>8. /\ strategy' = [u \in Tickers |-> strategy'[u]] /\ closes' = [u \in Tickers |-> closes'[u]]
    BY <2>2, <2>5 DEF SignalInv
  <2>9. \A u \in Tickers : Kept(closes'[u], strategy'[u])
    BY <2>5, <2>6, <2>7 DEF SignalInv
  <2> QED
    BY <1>1, <2>4, <2>8, <2>9 DEF SignalInv, Kept
<1>7. CASE HandleSignal
  <2> DEFINE events == IF Approved(Head(queue)) THEN <<Order(Head(queue))>> ELSE <<>>
  <2>1. IsNext("Signal") /\ Answered(events) /\ UNCHANGED <<strategy, closes>>
    BY <1>7 DEF HandleSignal
  <2>2. events = <<>> \/ \E e : events = <<e>> /\ e.type = "Order"
    BY DEF Order
  <2> HIDE DEF events
  <2>3. queue' = <<>> \/ \E e : queue' = <<e>> /\ e.type = "Order"
    BY <1>3, <2>1, <2>2, AnsweredOne
  <2> QED
    BY <1>2, <2>1, <2>3
<1>8. CASE HandleOrder
  <2>1. PICK fill : fill = Fill(Head(queue), PriceInfo(Head(queue).ticker).open)
    OBVIOUS
  <2>2. IsNext("Order") /\ Answered(<<fill>>) /\ UNCHANGED <<strategy, closes>> /\ fill.type = "Fill"
    BY <1>8, <2>1 DEF HandleOrder, Fill
  <2>3. queue' = <<fill>>
    BY <1>3, <2>2, AnsweredOne
  <2> QED
    BY <1>2, <2>2, <2>3
<1>9. CASE HandleFill
  <2>1. IsNext("Fill") /\ Answered(<<>>) /\ UNCHANGED <<strategy, closes>>
    BY <1>9 DEF HandleFill
  <2>2. queue' = <<>>
    BY <1>3, <2>1, AnsweredOne
  <2> QED
    BY <1>2, <2>1, <2>2
<1>10. CASE UNCHANGED vars
  BY <1>2, <1>10 DEF vars
<1> QED
  BY <1>4, <1>5, <1>6, <1>7, <1>8, <1>9, <1>10 DEF Next, Stopped

\* No closes and no averages.
LEMMA SignalInitially == Init => SignalInv
<1> SUFFICES ASSUME Init PROVE SignalInv
  OBVIOUS
<1>1. queue = <<>> /\ strategy = [t \in Tickers |-> NewStrategy] /\ closes = [t \in Tickers |-> <<>>]
  BY DEF Init
<1>2. Kept(<<>>, NewStrategy)
  <2>1. Len(<<>>) <= LongWindow /\ Len(<<>>) < LongWindow /\ <<>> \in Seq(Prices) /\ Len(<<>>) <= LongWindow + 1
    BY WindowAssumption
  <2> QED
    BY <2>1 DEF Kept, Window, NewStrategy
<1> QED
  BY <1>1, <1>2, OrderInitially DEF SignalInv

(* The strategy speaks up at the crossings of the averages and at no other bar, for
   every pair of windows and every sequence of prices (MovingAverageCrossover.cpp). *)
THEOREM SignalSafety == Spec => SignalsAreCrossings
<1> DEFINE Says ==
      IsNext("Market") =>
        LET event == Head(queue)
            crossing == Crossing(closes'[event.ticker])
        IN  queue' = IF crossing = NoSignal THEN <<>> ELSE <<Signal(event, crossing)>>
<1>1. SignalInv /\ [Next]_vars => [Says]_vars
  <2> SUFFICES ASSUME SignalInv, Next, IsNext("Market"), vars' # vars
               PROVE  Says
    OBVIOUS
  <2>1. PICK event : queue = <<event>> /\ FollowsBar(event) /\ Head(queue) = event /\ event.type = "Market"
    BY DEF IsNext, OrderInv, SignalInv
  <2>2. HandleMarket
    BY <2>1 DEF Next, Stopped, vars, Update, EndOfData, HandleSignal, HandleOrder, HandleFill, IsNext
  <2> DEFINE t == event.ticker
             signal == SignalOf(strategy[t], event.close)
             events == IF signal = NoSignal THEN <<>> ELSE <<Signal(event, signal)>>
  <2>3. Answered(events) /\ closes' = [closes EXCEPT ![t] = Seen(closes[t], event.close)]
    BY <2>1, <2>2 DEF HandleMarket, Seen
  <2>4. queue' = events
    BY <2>1, <2>3, AnsweredOne
  <2>5. t \in Tickers /\ event.close \in Prices /\ Kept(closes[t], strategy[t])
    BY <2>1 DEF SignalInv, FollowsBar
  <2>6. closes'[t] = Seen(closes[t], event.close)
    BY <2>3, <2>5 DEF SignalInv
  <2>7. signal = Crossing(closes'[t])
    BY <2>5, <2>6, CrossingSound
  <2> QED
    BY <2>1, <2>4, <2>7
<1> QED
  BY <1>1, SignalInitially, SignalInductive, PTL DEF Spec, SignalsAreCrossings
---------------------------------------------------------------------------
(* The positions and what they cost. *)

\* The factors of ordered products are ordered.
LEMMA FactorOrder ==
  ASSUME NEW n \in Nat \ {0}, NEW a \in Int, NEW b \in Int, n * a <= n * b
  PROVE  a <= b
  OBVIOUS

\* A product with a sum or a difference.
LEMMA Distributes ==
  ASSUME NEW a \in Int, NEW b \in Int, NEW c \in Int
  PROVE  /\ a * b \in Int /\ a * c \in Int /\ a * b = b * a
         /\ a * (b + c) = a * b + a * c /\ a * (b - c) = a * b - a * c
         /\ (b + c) * a = b * a + c * a /\ (b - c) * a = b * a - c * a
         /\ (-b) * a = -(b * a) /\ a * (-b) = -(a * b)
         /\ a * (b * c) = (a * b) * c
  OBVIOUS

\* What a division leaves over.
LEMMA Divides ==
  ASSUME NEW a \in Int, NEW m \in Nat \ {0}
  PROVE  /\ a \div m \in Int
         /\ m * (a \div m) <= a /\ a < m * (a \div m) + m
<1>1. /\ a = (m * (a \div m)) + (a % m) /\ 0 <= a % m /\ a % m < m
      /\ a % m \in Int /\ (a \div m) \in Int
  OBVIOUS
<1> DEFINE d == m * (a \div m)
           r == a % m
<1>2. d \in Int /\ r \in Int /\ a = d + r /\ 0 <= r /\ r < m
  BY <1>1
<1> HIDE DEF d, r
<1>3. d <= a /\ a < d + m
  BY <1>2
<1> QED
  BY <1>1, <1>3 DEF d

\* What is left of an amount stays between what is left of its bounds.
LEMMA PartLeft ==
  ASSUME NEW m \in Nat \ {0}, NEW q \in 1..m, NEW b \in Int, NEW lo \in Int, NEW hi \in Int,
         m * lo <= b, b <= m * hi
  PROVE  /\ b - ((b * q) \div m) \in Int
         /\ (m - q) * lo <= b - ((b * q) \div m)
         /\ b - ((b * q) \div m) <= (m - q) * hi
<1> DEFINE d == (b * q) \div m
           left == m - q
<1>1. left \in Nat /\ b * q \in Int
  OBVIOUS
<1>2. d \in Int /\ m * d <= b * q /\ b * q < m * d + m
  BY <1>1, Divides
<1> HIDE DEF d
<1>3. /\ m * (b - d) = m * b - m * d /\ b * left = b * m - b * q /\ b * m = m * b
      /\ m * (left * lo) = left * (m * lo) /\ m * (left * hi) = left * (m * hi)
      /\ left * b = b * left
      /\ m * (left * hi + 1) = m * (left * hi) + m
  <2>1. m * (b - d) = m * b - m * d
    BY <1>2
  <2>2. b * left = b * m - b * q /\ b * m = m * b /\ left * b = b * left
    OBVIOUS
  <2>3. m * (left * lo) = left * (m * lo) /\ m * (left * hi) = left * (m * hi)
    BY <1>1
  <2>4. m * (left * hi + 1) = m * (left * hi) + m
    BY <1>1
  <2> QED
    BY <2>1, <2>2, <2>3, <2>4
<1>4. /\ left * (m * lo) <= left * b /\ left * b <= left * (m * hi)
  BY <1>1, ProductOrder
<1>5. m * b \in Int /\ m * d \in Int /\ b * q \in Int /\ left * b \in Int
      /\ left * (m * lo) \in Int /\ left * (m * hi) \in Int /\ left * lo \in Int /\ left * hi \in Int
  BY <1>1, <1>2
<1> HIDE DEF left
<1>6. m * (left * lo) <= m * (b - d)
  BY <1>2, <1>3, <1>4, <1>5
<1>7. m * (b - d) < m * (left * hi + 1)
  BY <1>2, <1>3, <1>4, <1>5
<1>8. left * lo <= b - d
  BY <1>2, <1>5, <1>6, FactorOrder
<1>9. b - d < left * hi + 1
  <2>1. CASE b - d >= left * hi + 1
    <3>1. m * (left * hi + 1) <= m * (b - d)
      BY <1>2, <1>5, <2>1, ProductOrder
    <3> DEFINE x == m * (left * hi + 1)
               y == m * (b - d)
    <3>2. x \in Int /\ y \in Int /\ x <= y /\ y < x
      BY <1>2, <1>5, <1>7, <3>1
    <3> HIDE DEF x, y
    <3> QED
      BY <3>2
  <2> DEFINE z == left * hi
  <2>2. z \in Int
    BY <1>5
  <2> HIDE DEF z
  <2> QED
    BY <1>2, <2>1, <2>2 DEF z
<1>10. b - d <= left * hi
  <2> DEFINE z == left * hi
  <2>2. z \in Int /\ b - d < z + 1
    BY <1>5, <1>9
  <2> HIDE DEF z
  <2>3. b - d <= z
    BY <1>2, <2>2
  <2> QED
    BY <2>3 DEF z
<1> QED
  BY <1>2, <1>8, <1>10 DEF d, left

\* A part of the commission.
LEMMA PartBounds ==
  ASSUME NEW c \in Nat, NEW q \in Nat \ {0}, NEW l \in 1..q
  PROVE  (c * l) \div q \in Int /\ 0 <= (c * l) \div q /\ (c * l) \div q <= c
<1> DEFINE d == (c * l) \div q
<1>1. c * l \in Nat /\ c * l <= q * c
  <2>1. c * l <= c * q
    BY ProductOrder
  <2> QED
    BY <2>1
<1>2. d \in Int /\ q * d <= c * l /\ c * l < q * d + q
  BY <1>1, Divides
<1> HIDE DEF d
<1>3. q * d <= q * c /\ q * d + q = q * (d + 1) /\ q * 0 = 0
  BY <1>1, <1>2
<1>4. d <= c
  BY <1>2, <1>3, FactorOrder
<1>5. 0 <= d + 1 /\ d + 1 # 0
  BY <1>1, <1>2, <1>3, FactorOrder
<1>6. 0 <= d
  BY <1>2, <1>5
<1> QED
  BY <1>2, <1>4, <1>6 DEF d

Low == Min(Prices)
High == Max(Prices)

\* The prices of the feed are bounded.
LEMMA PriceBounds ==
  ASSUME NEW p \in Prices
  PROVE  p \in Nat /\ Low \in Nat /\ High \in Nat /\ Low <= p /\ p <= High
<1> DEFINE Pairs == {{s.open, s.close} : s \in Shapes}
           f == [s \in Shapes |-> {s.open, s.close}]
<1>1. f \in Surjection(Shapes, Pairs)
  BY DEF Surjection
<1>2. IsFiniteSet(Pairs)
  BY <1>1, BarAssumption, FS_Surjection
<1>3. \A P \in Pairs : IsFiniteSet(P)
  <2> SUFFICES ASSUME NEW s \in Shapes PROVE IsFiniteSet({s.open, s.close})
    OBVIOUS
  <2>1. IsFiniteSet({s.open})
    BY FS_Singleton
  <2>2. IsFiniteSet({s.open} \cup {s.close})
    BY <2>1, FS_AddElement
  <2>3. {s.open, s.close} = {s.open} \cup {s.close}
    OBVIOUS
  <2> QED
    BY <2>2, <2>3
<1>4. IsFiniteSet(Prices)
  BY <1>2, <1>3, FS_UNION DEF Prices
<1>5. Prices \in SUBSET Int /\ Prices # {}
  BY PricesPositive
<1>6. Low \in Prices /\ High \in Prices /\ (\A y \in Prices : Low <= y) /\ \A y \in Prices : High >= y
  BY <1>4, <1>5, LeastElement, GreatestElement DEF Low, High
<1>7. \A x \in Prices : x \in Nat
  BY PricesPositive
<1>8. Low <= p /\ p <= High
  <2>1. High >= p /\ High \in Nat /\ p \in Nat
    BY <1>6, <1>7
  <2> QED
    BY <1>6, <2>1
<1> QED
  BY <1>6, <1>7, <1>8

\* A position the account can have, and a fill it can get.
IsPosition(pos) ==
  /\ pos = [quantity |-> pos.quantity, market_value |-> pos.market_value, cost_basis |-> pos.cost_basis]
  /\ pos.quantity \in Int /\ pos.market_value \in Int /\ pos.cost_basis \in Int
  /\ \E k \in Int : pos.quantity = PositionSize * k
  /\ BasisSound(pos)

IsFill(fill) ==
  /\ \E k \in Nat \ {0} : fill.quantity = PositionSize * k
  /\ fill.direction \in {"BUY", "SELL"}
  /\ fill.fill_price \in Prices /\ fill.commission = Commission

\* The position on_fill leaves.
After(pos, fill) ==
  [quantity |-> pos.quantity + Account!Signed(fill),
   market_value |-> (pos.quantity + Account!Signed(fill)) * fill.fill_price,
   cost_basis |-> Account!CostBasis(pos, fill)]

\* The bounds of the cost of n units.
Between(n, b) == /\ n > 0 => n * Low <= b /\ b <= n * (High + Commission)
                 /\ n < 0 => n * High <= b /\ b <= n * (Low - Commission)
                 /\ n = 0 => b = 0

\* A trade that adds to a position.
LEMMA BasisOpened ==
  ASSUME NEW n \in Int, NEW b \in Int, Between(n, b), NEW q \in Nat \ {0}, NEW p \in Prices
  PROVE  /\ n >= 0 => Between(n + q, b + (q * p + Commission))
         /\ n <= 0 => Between(n - q, b + ((-q) * p + Commission))
<1>1. p \in Nat /\ Low \in Nat /\ High \in Nat /\ Low <= p /\ p <= High /\ Commission \in Nat
  BY PriceBounds, BarAssumption
<1>2. q * Low <= q * p /\ q * p <= q * High /\ Commission <= q * Commission
  <2>1. q * Low <= q * p /\ q * p <= q * High
    BY <1>1, ProductOrder
  <2>2. Commission * 1 <= Commission * q
    BY <1>1, ProductOrder
  <2> QED
    BY <1>1, <2>1, <2>2
<1>3. ASSUME NEW x \in Int
      PROVE  /\ (n + q) * x = n * x + q * x /\ (n - q) * x = n * x - q * x
             /\ n * x \in Int /\ q * x \in Int
  BY <1>3, Distributes
<1>4. q * (High + Commission) = q * High + q * Commission /\ q * (Low - Commission) = q * Low - q * Commission
      /\ (-q) * p = -(q * p)
  BY <1>1, Distributes
<1> DEFINE nl == n * Low   ql == q * Low   nh == n * High   qh == q * High   qp == q * p   qc == q * Commission
           nhc == n * (High + Commission)  nlc == n * (Low - Commission)
<1>5. nl \in Int /\ ql \in Int /\ nh \in Int /\ qh \in Int /\ qp \in Int /\ qc \in Int
      /\ nhc \in Int /\ nlc \in Int
  BY <1>1, <1>3
<1>6. /\ ql <= qp /\ qp <= qh /\ Commission <= qc
  BY <1>2
<1>7. ASSUME n >= 0 PROVE Between(n + q, b + (q * p + Commission))
  <2>1. nl <= b /\ b <= nhc
    BY <1>1, <1>7 DEF Between
  <2>2. (n + q) * Low = nl + ql /\ (n + q) * (High + Commission) = nhc + (qh + qc)
    BY <1>1, <1>3, <1>4
  <2>3. n + q > 0
    BY <1>7
  <2>4. q * p + Commission = qp + Commission
    OBVIOUS
  <2> HIDE DEF nl, ql, nh, qh, qp, qc, nhc, nlc
  <2>5. nl + ql <= b + (qp + Commission) /\ b + (qp + Commission) <= nhc + (qh + qc)
    BY <1>1, <1>5, <1>6, <2>1
  <2> QED
    BY <2>2, <2>3, <2>4, <2>5 DEF Between
<1>8. ASSUME n <= 0 PROVE Between(n - q, b + ((-q) * p + Commission))
  <2>1. nh <= b /\ b <= nlc
    BY <1>1, <1>8 DEF Between
  <2>2. (n - q) * High = nh - qh /\ (n - q) * (Low - Commission) = nlc - (ql - qc)
    BY <1>1, <1>3, <1>4
  <2>3. n - q < 0
    BY <1>8
  <2>4. (-q) * p + Commission = -qp + Commission
    BY <1>4
  <2> HIDE DEF nl, ql, nh, qh, qp, qc, nhc, nlc
  <2>5. nh - qh <= b + (-qp + Commission) /\ b + (-qp + Commission) <= nlc - (ql - qc)
    BY <1>1, <1>5, <1>6, <2>1
  <2> QED
    BY <2>2, <2>3, <2>4, <2>5 DEF Between
<1> QED
  BY <1>7, <1>8

\* A trade that closes a position in part, and not the whole of it.
LEMMA BasisClosed ==
  ASSUME NEW m \in Nat \ {0}, NEW b \in Int, NEW q \in Nat \ {0}, q < m, Low \in Nat, High \in Nat
  PROVE  /\ Between(m, b) => Between(m - q, b - ((b * q) \div m))
         /\ Between(-m, b) => Between(-m + q, b - ((b * q) \div m))
<1>1. Commission \in Nat
  BY BarAssumption
<1>2. q \in 1..m /\ m - q > 0 /\ m - q \in Int
  OBVIOUS
<1>3. ASSUME Between(m, b) PROVE Between(m - q, b - ((b * q) \div m))
  <2>1. m * Low <= b /\ b <= m * (High + Commission)
    BY <1>3 DEF Between
  <2>2. /\ (m - q) * Low <= b - ((b * q) \div m)
        /\ b - ((b * q) \div m) <= (m - q) * (High + Commission)
    BY <1>1, <1>2, <2>1, PartLeft
  <2> QED
    BY <1>2, <2>2 DEF Between
<1>4. ASSUME Between(-m, b) PROVE Between(-m + q, b - ((b * q) \div m))
  <2>1. (-m) * High <= b /\ b <= (-m) * (Low - Commission) /\ -m < 0
    BY <1>4 DEF Between
  <2>2. \A x \in Int : (-m) * x = m * (-x) /\ (-m + q) * x = (m - q) * (-x)
    OBVIOUS
  <2>3. m * (-High) <= b /\ b <= m * (-(Low - Commission))
    BY <1>1, <2>1, <2>2
  <2>4. /\ (m - q) * (-High) <= b - ((b * q) \div m)
        /\ b - ((b * q) \div m) <= (m - q) * (-(Low - Commission))
    <3>1. -High \in Int /\ -(Low - Commission) \in Int
      BY <1>1
    <3> QED
      BY <1>2, <2>3, <3>1, PartLeft
  <2>5. -m + q < 0
    OBVIOUS
  <2>6. (-m + q) * High = (m - q) * (-High) /\ (-m + q) * (Low - Commission) = (m - q) * (-(Low - Commission))
    BY <1>1, <2>2
  <2> QED
    BY <2>4, <2>5, <2>6 DEF Between
<1> QED
  BY <1>3, <1>4

\* A trade that turns a position round.
LEMMA BasisTurned ==
  ASSUME NEW q \in Nat \ {0}, NEW l \in 1..q, NEW p \in Prices
  PROVE  /\ Between(l, l * p + ((Commission * l) \div q))
         /\ Between(-l, (-l) * p + ((Commission * l) \div q))
<1>1. p \in Nat /\ Low \in Nat /\ High \in Nat /\ Low <= p /\ p <= High /\ Commission \in Nat
  BY PriceBounds, BarAssumption
<1> DEFINE d == (Commission * l) \div q
<1>2. d \in Int /\ 0 <= d /\ d <= Commission
  BY <1>1, PartBounds
<1> HIDE DEF d
<1>3. l * Low <= l * p /\ l * p <= l * High /\ Commission <= l * Commission
  <2>1. l * Low <= l * p /\ l * p <= l * High
    BY <1>1, ProductOrder
  <2>2. Commission * 1 <= Commission * l
    BY <1>1, ProductOrder
  <2> QED
    BY <1>1, <2>1, <2>2
<1>4. /\ l * (High + Commission) = l * High + l * Commission
      /\ (-l) * p = -(l * p) /\ (-l) * High = -(l * High)
      /\ (-l) * (Low - Commission) = -(l * Low) + l * Commission
  BY <1>1
<1> DEFINE ll == l * Low  lh == l * High  lp == l * p  lc == l * Commission
<1>5. ll \in Int /\ lh \in Int /\ lp \in Int /\ lc \in Int
      /\ ll <= lp /\ lp <= lh /\ Commission <= lc
  BY <1>1, <1>3
<1>6. ll <= lp + d /\ lp + d <= lh + lc /\ -lh <= -lp + d /\ -lp + d <= -ll + lc
  <2> HIDE DEF ll, lh, lp, lc
  <2> QED
    BY <1>1, <1>2, <1>5
<1>7. l > 0 /\ -l < 0
  OBVIOUS
<1> QED
  BY <1>4, <1>6, <1>7 DEF Between, d

\* BasisSound in the terms of Between.
LEMMA BasisIsBetween ==
  ASSUME NEW pos, pos.quantity \in Int, pos.cost_basis \in Int, Prices # {}
  PROVE  BasisSound(pos) <=> /\ Between(pos.quantity, pos.cost_basis)
                             /\ pos.quantity = 0 => pos.market_value = 0
<1> DEFINE n == pos.quantity  c == pos.cost_basis
<1>1. Low \in Nat /\ High \in Nat /\ Commission \in Nat
  BY PriceBounds, BarAssumption
<1>2. n * Low \in Int /\ n * (High + Commission) \in Int /\ n * High \in Int /\ n * (Low - Commission) \in Int
  BY <1>1
<1>3. \A x, y \in Int : c \in x..y <=> x <= c /\ c <= y
  OBVIOUS
<1>4. /\ c \in (n * Low)..(n * (High + Commission)) <=> n * Low <= c /\ c <= n * (High + Commission)
      /\ c \in (n * High)..(n * (Low - Commission)) <=> n * High <= c /\ c <= n * (Low - Commission)
  BY <1>2, <1>3
<1>5. n \in Int
  OBVIOUS
<1>6. CASE n = 0
  BY <1>6 DEF BasisSound, Between
<1>7. CASE n > 0
  <2>1. n # 0 /\ ~(n < 0)
    BY <1>5, <1>7
  <2>2. BasisSound(pos) <=> c \in (n * Low)..(n * (High + Commission))
    BY <1>7, <2>1, Zenon DEF BasisSound, Low, High
  <2> HIDE DEF n, c
  <2> QED
    BY <1>4, <1>7, <2>1, <2>2 DEF Between, n, c
<1>8. CASE n < 0
  <2>1. n # 0 /\ ~(n > 0)
    BY <1>5, <1>8
  <2>2. BasisSound(pos) <=> c \in (n * High)..(n * (Low - Commission))
    BY <1>8, <2>1, Zenon DEF BasisSound, Low, High
  <2> HIDE DEF n, c
  <2> QED
    BY <1>4, <1>8, <2>1, <2>2 DEF Between, n, c
<1> QED
  BY <1>5, <1>6, <1>7, <1>8

\* A fill leaves a position the account can have.
LEMMA PositionFilled ==
  ASSUME NEW pos, IsPosition(pos), NEW fill, IsFill(fill)
  PROVE  IsPosition(After(pos, fill))
<1> DEFINE n == pos.quantity
           b == pos.cost_basis
           q == fill.quantity
           p == fill.fill_price
           trade == Account!Signed(fill)
           left == n + trade
           basis == Account!CostBasis(pos, fill)
<1>1. n \in Int /\ b \in Int /\ p \in Prices /\ Prices # {}
  BY DEF IsPosition, IsFill
<1>2. p \in Nat /\ Low \in Nat /\ High \in Nat /\ Commission \in Nat /\ PositionSize \in Nat \ {0}
  BY <1>1, PriceBounds, BarAssumption
<1>3. PICK k \in Nat \ {0} : q = PositionSize * k
  BY DEF IsFill
<1>4. q \in Nat \ {0}
  BY <1>2, <1>3
<1>5. trade = (IF fill.direction = "BUY" THEN q ELSE -q) /\ trade \in Int /\ trade # 0
  BY <1>4 DEF Account!Signed
<1>6. Between(n, b)
  BY <1>1, BasisIsBetween DEF IsPosition
<1>7. \E j \in Int : left = PositionSize * j
  <2>1. PICK i \in Int : n = PositionSize * i
    BY DEF IsPosition
  <2>2. PositionSize * (i + k) = PositionSize * i + PositionSize * k
        /\ PositionSize * (i - k) = PositionSize * i - PositionSize * k
    BY <1>2
  <2>3. n + q = PositionSize * (i + k) /\ n + (-q) = PositionSize * (i - k)
    BY <1>1, <1>4, <1>3, <2>1, <2>2
  <2>4. i + k \in Int /\ i - k \in Int
    OBVIOUS
  <2> QED
    BY <1>5, <2>3, <2>4
<1>8. left \in Int /\ left * p \in Int /\ (left = 0 => left * p = 0)
  BY <1>1, <1>2, <1>5
<1>9. fill.commission = Commission /\ Account!CostOf(trade, fill) = trade * p + Commission
  BY DEF IsFill, Account!CostOf
<1>10. basis = IF left = 0 THEN 0
               ELSE IF Account!IsOpening(n, trade) THEN b + (trade * p + Commission)
               ELSE IF Account!Size(trade) <= Account!Size(n)
                    THEN b - ((b * Account!Size(trade)) \div Account!Size(n))
                    ELSE left * p + ((Commission * Account!Size(left)) \div Account!Size(trade))
  BY <1>9 DEF Account!CostBasis, Account!Part
<1>11. /\ Account!Size(trade) = q
       /\ Account!Size(n) = IF n < 0 THEN -n ELSE n
       /\ Account!Size(left) = IF left < 0 THEN -left ELSE left
  BY <1>4, <1>5 DEF Account!Size
<1>12. Account!IsOpening(n, trade) <=> n = 0 \/ (n > 0 /\ trade > 0) \/ (n < 0 /\ trade < 0)
  BY DEF Account!IsOpening
<1>13. After(pos, fill) = [quantity |-> left, market_value |-> left * p, cost_basis |-> basis]
  BY DEF After
<1> HIDE DEF n, b, q, p, trade, basis
<1>14. CASE left = 0
  <2>1. basis = 0 /\ Between(left, basis)
    BY <1>10, <1>14 DEF Between
  <2> QED
    BY <1>1, <1>7, <1>8, <1>13, <1>14, <2>1, BasisIsBetween DEF IsPosition
<1>15. ASSUME left # 0, basis \in Int, Between(left, basis)
       PROVE  IsPosition(After(pos, fill))
  BY <1>1, <1>7, <1>8, <1>13, <1>15, BasisIsBetween DEF IsPosition
<1>16. CASE left # 0 /\ Account!IsOpening(n, trade)
  <2>1. basis = b + (trade * p + Commission)
    BY <1>10, <1>16
  <2>2. trade * p \in Int
    BY <1>2, <1>5
  <2>3. CASE n >= 0 /\ trade > 0
    <3>1. trade = q
      BY <1>4, <1>5, <2>3
    <3> QED
      BY <1>1, <1>2, <1>4, <1>6, <1>15, <1>16, <2>1, <2>2, <2>3, <3>1, BasisOpened
  <2>4. CASE n <= 0 /\ trade < 0
    <3>1. trade = -q /\ left = n - q
      BY <1>1, <1>4, <1>5, <2>4
    <3> QED
      BY <1>1, <1>2, <1>4, <1>6, <1>15, <1>16, <2>1, <2>2, <2>4, <3>1, BasisOpened
  <2> QED
    BY <1>1, <1>5, <1>12, <1>16, <2>3, <2>4
<1>17. CASE left # 0 /\ ~Account!IsOpening(n, trade) /\ Account!Size(trade) <= Account!Size(n)
  <2> DEFINE m == Account!Size(n)
  <2>1. basis = b - ((b * q) \div m)
    BY <1>10, <1>11, <1>17
  <2>2. m \in Nat \ {0} /\ q <= m
    BY <1>1, <1>11, <1>12, <1>17
  <2>3. CASE n > 0
    <3>1. m = n /\ trade = -q /\ left = m - q
      BY <1>1, <1>4, <1>5, <1>11, <1>12, <1>17, <2>3
    <3> HIDE DEF m
    <3>2. q < m
      BY <1>1, <1>4, <1>17, <2>2, <3>1
    <3>3. Between(left, basis)
      BY <1>1, <1>2, <1>4, <1>6, <2>1, <2>2, <3>1, <3>2, BasisClosed
    <3>4. basis \in Int
      BY <1>1, <1>4, <2>1, <2>2, Divides, b * q \in Int
    <3> QED
      BY <1>15, <1>17, <3>3, <3>4
  <2>4. CASE n < 0
    <3>1. m = -n /\ n = -m /\ trade = q /\ left = -m + q
      BY <1>1, <1>4, <1>5, <1>11, <1>12, <1>17, <2>4
    <3> HIDE DEF m
    <3>2. q < m
      BY <1>1, <1>4, <1>17, <2>2, <3>1
    <3>3. Between(left, basis)
      BY <1>1, <1>2, <1>4, <1>6, <2>1, <2>2, <3>1, <3>2, BasisClosed
    <3>4. basis \in Int
      BY <1>1, <1>4, <2>1, <2>2, Divides, b * q \in Int
    <3> QED
      BY <1>15, <1>17, <3>3, <3>4
  <2> QED
    BY <1>1, <1>12, <1>17, <2>3, <2>4
<1>18. CASE left # 0 /\ ~Account!IsOpening(n, trade) /\ ~(Account!Size(trade) <= Account!Size(n))
  <2> DEFINE l == Account!Size(left)
  <2>1. basis = left * p + ((Commission * l) \div q)
    BY <1>10, <1>11, <1>18
  <2>2. l \in 1..q /\ (left = l \/ left = -l)
    BY <1>1, <1>4, <1>5, <1>8, <1>11, <1>12, <1>18
  <2> HIDE DEF l
  <2>3. Between(left, basis)
    BY <1>1, <1>4, <2>1, <2>2, BasisTurned
  <2>4. basis \in Int
    BY <1>2, <1>4, <1>8, <2>1, <2>2, PartBounds
  <2> QED
    BY <1>15, <1>18, <2>3, <2>4
<1> QED
  BY <1>14, <1>16, <1>17, <1>18

---------------------------------------------------------------------------
(* The account. *)

\* The value of the positions is a sum over finitely many.
LEMMA ValueIsInt ==
  ASSUME NEW p, p.cash \in Int, IsFiniteSet(DOMAIN p.positions),
         \A t \in DOMAIN p.positions : p.positions[t].market_value \in Int
  PROVE  Account!TotalValue(p) \in Int
<1> DEFINE D == DOMAIN p.positions
           w == [t \in D |-> p.positions[t].market_value]
           any == [T \in SUBSET D |-> CHOOSE x \in T : TRUE]
           f == CHOOSE g : g = [T \in SUBSET D |->
                  IF T = {} THEN 0
                  ELSE p.positions[CHOOSE x \in T : TRUE].market_value + g[T \ {CHOOSE x \in T : TRUE}]]
<1>1. Account!TotalValue(p) = p.cash + f[D]
  BY DEF Account!TotalValue, Account!FoldFunction, Account!FoldFunctionOnSet, Account!MapThenFoldSet
<1> HIDE DEF f
<1>2. Picks(any, D) /\ Weighs(w, D)
  BY DEF Picks, Weighs
<1>3. PICK g : AddsUp(g, w, D, any)
  BY <1>2, SumExists
<1>4. g = [T \in SUBSET D |->
             IF T = {} THEN 0
             ELSE p.positions[CHOOSE x \in T : TRUE].market_value + g[T \ {CHOOSE x \in T : TRUE}]]
  <2>1. \A T \in SUBSET D : T # {} =>
           w[any[T]] + g[T \ {any[T]}]
             = p.positions[CHOOSE x \in T : TRUE].market_value + g[T \ {CHOOSE x \in T : TRUE}]
    OBVIOUS
  <2> QED
    BY <1>3, <2>1 DEF AddsUp
<1>5. f = [T \in SUBSET D |->
             IF T = {} THEN 0
             ELSE p.positions[CHOOSE x \in T : TRUE].market_value + f[T \ {CHOOSE x \in T : TRUE}]]
  BY <1>4, ZenonT(40) DEF f
<1>6. AddsUp(f, w, D, any)
  <2>1. \A T \in SUBSET D : T # {} =>
           w[any[T]] + f[T \ {any[T]}]
             = p.positions[CHOOSE x \in T : TRUE].market_value + f[T \ {CHOOSE x \in T : TRUE}]
    OBVIOUS
  <2> QED
    BY <1>5, <2>1, ZenonT(40) DEF AddsUp
<1> HIDE DEF any, w
<1>7. f[D] \in Int
  BY <1>2, <1>6, SumAnyFirst DEF AnyFirst
<1> QED
  BY <1>1, <1>7

\* The account: whole lots of finitely many tickers, at a sound cost.
AccountInv ==
  /\ SignalInv /\ CashInv /\ is_running \in BOOLEAN
  /\ portfolio.peak \in Int /\ portfolio.peak >= InitialCapital
  /\ IsFiniteSet(DOMAIN portfolio.positions) /\ DOMAIN portfolio.positions \subseteq Tickers
  /\ portfolio.positions = [t \in DOMAIN portfolio.positions |-> portfolio.positions[t]]
  /\ \A t \in DOMAIN portfolio.positions : IsPosition(portfolio.positions[t])

\* What on_market_data makes of the account.
LEMMA AccountMarked ==
  ASSUME AccountInv, NEW event, event.ticker \in Tickers, event.close \in Prices
  PROVE  LET p == Account!OnMarketData(portfolio, event)
         IN  /\ p.peak \in Int /\ p.peak >= InitialCapital
             /\ DOMAIN p.positions = DOMAIN portfolio.positions
             /\ p.positions = [t \in DOMAIN p.positions |-> p.positions[t]]
             /\ \A t \in DOMAIN p.positions : IsPosition(p.positions[t])
<1> DEFINE p == Account!OnMarketData(portfolio, event)
           tk == event.ticker
           pos == portfolio.positions[tk]
           marked == event.close * pos.quantity
           ps == [portfolio.positions EXCEPT ![tk].market_value = marked]
           q == [portfolio EXCEPT !.positions = ps]
<1>1. CASE tk \notin DOMAIN portfolio.positions
  BY <1>1 DEF AccountInv, Account!OnMarketData
<1>2. CASE tk \in DOMAIN portfolio.positions
  <2>1. p = [q EXCEPT !.peak = Account!Highest(portfolio.peak, Account!TotalValue(q))]
    BY <1>2 DEF Account!OnMarketData
  <2>2. portfolio = [cash |-> portfolio.cash, peak |-> portfolio.peak, positions |-> portfolio.positions]
    BY DEF AccountInv, CashInv
  <2>3. event.close \in Int /\ IsPosition(pos) /\ pos.quantity \in Int
    <3>1. \A x \in Prices : x \in Int
      BY PricesPositive
    <3>2. IsPosition(pos)
      BY <1>2 DEF AccountInv
    <3> QED
      BY <3>1, <3>2 DEF IsPosition
  <2>4. marked \in Int /\ (pos.quantity = 0 => marked = 0)
    BY <2>3
  <2> HIDE DEF marked
  <2> DEFINE after == [pos EXCEPT !.market_value = marked]
  <2>5. after = [quantity |-> pos.quantity, market_value |-> marked, cost_basis |-> pos.cost_basis]
    BY <2>3 DEF IsPosition
  <2>6. IsPosition(after)
    <3>1. Prices # {}
      OBVIOUS
    <3>2. /\ pos.quantity \in Int /\ pos.cost_basis \in Int
          /\ BasisSound(pos) /\ \E k \in Int : pos.quantity = PositionSize * k
      BY <2>3 DEF IsPosition
    <3>3. Between(pos.quantity, pos.cost_basis)
      BY <3>1, <3>2, BasisIsBetween
    <3> HIDE DEF pos, after
    <3> QED
      BY <2>4, <2>5, <3>1, <3>2, <3>3, BasisIsBetween DEF IsPosition
  <2>7. /\ DOMAIN ps = DOMAIN portfolio.positions
        /\ ps = [t \in DOMAIN ps |-> ps[t]]
        /\ \A t \in DOMAIN ps : ps[t] = IF t = tk THEN after ELSE portfolio.positions[t]
    <3>1. ps = [portfolio.positions EXCEPT ![tk] = after]
      OBVIOUS
    <3> HIDE DEF ps, after
    <3> QED
      BY <1>2, <3>1 DEF AccountInv
  <2> HIDE DEF after, ps
  <2>8. \A t \in DOMAIN ps : IsPosition(ps[t])
    BY <2>6, <2>7 DEF AccountInv
  <2>9. q = [cash |-> portfolio.cash, peak |-> portfolio.peak, positions |-> ps]
    BY <2>2
  <2> HIDE DEF q
  <2>10. Account!TotalValue(q) \in Int
    <3>1. q.cash \in Int /\ IsFiniteSet(DOMAIN q.positions)
      BY <2>7, <2>9 DEF AccountInv, CashInv
    <3>2. \A t \in DOMAIN q.positions : q.positions[t].market_value \in Int
      BY <2>8, <2>9 DEF IsPosition
    <3> QED
      BY <3>1, <3>2, ValueIsInt
  <2>11. PICK value \in Int : value = Account!TotalValue(q)
    BY <2>10
  <2> HIDE DEF p
  <2>12. p = [cash |-> portfolio.cash, peak |-> Account!Highest(portfolio.peak, value), positions |-> ps]
    BY <2>1, <2>9, <2>11
  <2>13. Account!Highest(portfolio.peak, value) \in Int /\ Account!Highest(portfolio.peak, value) >= InitialCapital
    <3>1. portfolio.peak \in Int /\ portfolio.peak >= InitialCapital /\ InitialCapital \in Nat
      BY BarAssumption DEF AccountInv
    <3>2. ASSUME NEW peak \in Int, peak >= InitialCapital
          PROVE  Account!Highest(peak, value) \in Int /\ Account!Highest(peak, value) >= InitialCapital
      BY <3>1, <3>2 DEF Account!Highest
    <3> QED
      BY <3>1, <3>2
  <2> QED
    BY <2>7, <2>8, <2>12, <2>13 DEF p
<1> QED
  BY <1>1, <1>2

\* What on_fill makes of it.
LEMMA AccountFilled ==
  ASSUME AccountInv, NEW fill, fill.ticker \in Tickers, IsFill(fill)
  PROVE  LET p == Account!OnFill(portfolio, fill)
         IN  /\ p.peak = portfolio.peak
             /\ DOMAIN p.positions = DOMAIN portfolio.positions \cup {fill.ticker}
             /\ IsFiniteSet(DOMAIN p.positions)
             /\ p.positions = [t \in DOMAIN p.positions |-> p.positions[t]]
             /\ \A t \in DOMAIN p.positions : IsPosition(p.positions[t])
<1> DEFINE p == Account!OnFill(portfolio, fill)
           tk == fill.ticker
           old == Account!PositionOf(portfolio, tk)
           new == After(old, fill)
           ps == Account!With(portfolio.positions, tk, new)
           cost == Account!CostOf(Account!Signed(fill), fill)
<1>1. p = [portfolio EXCEPT !.cash = @ - cost, !.positions = ps]
  BY DEF Account!OnFill, After
<1>2. IsPosition(Account!NoPosition)
  <2>1. Between(0, 0) /\ 0 \in Int /\ \E k \in Int : 0 = PositionSize * k
    <3>1. PositionSize * 0 = 0
      BY BarAssumption
    <3> QED
      BY <3>1 DEF Between
  <2>2. Prices # {}
    BY DEF IsFill
  <2> QED
    BY <2>1, <2>2, BasisIsBetween DEF IsPosition, Account!NoPosition
<1>3. IsPosition(old)
  BY <1>2 DEF AccountInv, Account!PositionOf
<1>4. IsPosition(new)
  BY <1>3, PositionFilled
<1> HIDE DEF new, cost
<1>5. /\ DOMAIN ps = DOMAIN portfolio.positions \cup {tk}
      /\ ps = [t \in DOMAIN ps |-> ps[t]]
      /\ \A t \in DOMAIN ps : ps[t] = IF t = tk THEN new ELSE portfolio.positions[t]
  BY DEF Account!With
<1> HIDE DEF ps
<1>6. p.peak = portfolio.peak /\ p.positions = ps
  BY <1>1 DEF AccountInv, CashInv
<1>7. IsFiniteSet(DOMAIN ps)
  BY <1>5, FS_AddElement DEF AccountInv
<1>8. \A t \in DOMAIN ps : IsPosition(ps[t])
  BY <1>4, <1>5 DEF AccountInv
<1> QED
  BY <1>5, <1>6, <1>7, <1>8

\* Only a bar and a fill change the account.
LEMMA AccountInductive == AccountInv /\ [Next]_vars => AccountInv'
<1> SUFFICES ASSUME AccountInv, [Next]_vars PROVE AccountInv'
  OBVIOUS
<1>1. SignalInv /\ SignalInv' /\ CashInv /\ CashInv' /\ OrderInv
  BY SignalInductive, OverdraftInductive DEF AccountInv, OverdraftInv, SignalInv
<1>0. is_running' \in BOOLEAN
  BY DEF AccountInv, Next, Stopped, vars, Update, EndOfData, HandleMarket, HandleSignal, HandleOrder,
         HandleFill
<1>2. CASE UNCHANGED portfolio
  BY <1>0, <1>1, <1>2 DEF AccountInv
<1>3. CASE HandleMarket
  <2>1. PICK event : queue = <<event>> /\ FollowsBar(event) /\ Head(queue) = event /\ event.type = "Market"
    BY <1>1, <1>3 DEF HandleMarket, IsNext, OrderInv
  <2>2. event.ticker \in Tickers /\ event.close \in Prices
    BY <1>1, <2>1 DEF FollowsBar, SignalInv
  <2>3. portfolio' = Account!OnMarketData(portfolio, event)
    BY <1>3, <2>1 DEF HandleMarket
  <2>4. PICK p : p = Account!OnMarketData(portfolio, event)
    OBVIOUS
  <2>5. /\ p.peak \in Int /\ p.peak >= InitialCapital
        /\ DOMAIN p.positions = DOMAIN portfolio.positions
        /\ p.positions = [t \in DOMAIN p.positions |-> p.positions[t]]
        /\ \A t \in DOMAIN p.positions : IsPosition(p.positions[t])
    BY <2>2, <2>4, AccountMarked
  <2> QED
    BY <1>0, <1>1, <2>3, <2>4, <2>5 DEF AccountInv
<1>4. CASE HandleFill
  <2>1. PICK fill : queue = <<fill>> /\ FollowsBar(fill) /\ Head(queue) = fill /\ fill.type = "Fill"
    BY <1>1, <1>4 DEF HandleFill, IsNext, OrderInv
  <2>2. IsFill(fill) /\ fill.ticker \in Tickers
    <3>1. PICK s \in Shapes : fill.fill_price = s.open
      BY <1>1, <2>1, PriceIsOfBar DEF FollowsBar, OrderInv
    <3>2. fill.fill_price \in Prices
      BY <3>1 DEF Prices
    <3>3. Funded(fill)
      BY <1>1, <2>1 DEF CashInv
    <3>4. PositionSize = PositionSize * 1
      BY BarAssumption
    <3> QED
      BY <2>1, <3>2, <3>3, <3>4 DEF Funded, IsFill, FollowsBar
  <2>3. portfolio' = Account!OnFill(portfolio, fill)
    BY <1>4, <2>1 DEF HandleFill
  <2>4. PICK p : p = Account!OnFill(portfolio, fill)
    OBVIOUS
  <2>5. /\ p.peak = portfolio.peak
        /\ DOMAIN p.positions = DOMAIN portfolio.positions \cup {fill.ticker}
        /\ IsFiniteSet(DOMAIN p.positions)
        /\ p.positions = [t \in DOMAIN p.positions |-> p.positions[t]]
        /\ \A t \in DOMAIN p.positions : IsPosition(p.positions[t])
    BY <2>2, <2>4, AccountFilled
  <2> QED
    BY <1>0, <1>1, <2>2, <2>3, <2>4, <2>5 DEF AccountInv
<1> QED
  BY <1>2, <1>3, <1>4 DEF Next, Stopped, vars, Update, EndOfData, HandleSignal, HandleOrder

\* Nothing is held at the start.
LEMMA AccountInitially == Init => AccountInv
<1> SUFFICES ASSUME Init PROVE AccountInv
  OBVIOUS
<1>1. /\ portfolio = [cash |-> InitialCapital, peak |-> InitialCapital, positions |-> <<>>]
      /\ InitialCapital \in Nat /\ is_running = TRUE
  BY BarAssumption DEF Init, Account!NewPortfolio
<1>2. IsFiniteSet(DOMAIN portfolio.positions) /\ DOMAIN portfolio.positions = {}
  BY <1>1, FS_EmptySet
<1>3. portfolio.positions = [t \in DOMAIN portfolio.positions |-> portfolio.positions[t]]
  BY <1>1
<1> QED
  BY <1>1, <1>2, <1>3, SignalInitially, OverdraftInitially DEF AccountInv, OverdraftInv

(* The cost basis of every position lies between the prices of the feed, and would
   still after any fill, also one that closes a part of the position or turns it
   round, for all prices, lots and commissions (Portfolio.cpp). *)
THEOREM BasisSafety == Spec => []BasisWithinPrices
<1>1. AccountInv => BasisWithinPrices
  <2> SUFFICES ASSUME AccountInv, NEW t \in DOMAIN portfolio.positions
               PROVE  /\ BasisSound(portfolio.positions[t])
                      /\ \A direction \in {"BUY", "SELL"}, lots \in 1..3, price \in Prices :
                           BasisSound(Account!OnFill(portfolio,
                             [ticker |-> t, direction |-> direction, quantity |-> lots * PositionSize,
                              fill_price |-> price, commission |-> Commission]).positions[t])
    BY DEF BasisWithinPrices
  <2>1. BasisSound(portfolio.positions[t])
    BY DEF AccountInv, IsPosition
  <2>2. ASSUME NEW direction \in {"BUY", "SELL"}, NEW lots \in 1..3, NEW price \in Prices
        PROVE  BasisSound(Account!OnFill(portfolio,
                 [ticker |-> t, direction |-> direction, quantity |-> lots * PositionSize,
                  fill_price |-> price, commission |-> Commission]).positions[t])
    <3>1. PICK fill : fill = [ticker |-> t, direction |-> direction, quantity |-> lots * PositionSize,
                              fill_price |-> price, commission |-> Commission]
      OBVIOUS
    <3>2. lots \in Nat \ {0} /\ lots * PositionSize = PositionSize * lots
      BY BarAssumption
    <3>3. IsFill(fill) /\ fill.ticker = t /\ t \in Tickers
      BY <3>1, <3>2 DEF IsFill, AccountInv
    <3>4. PICK p : p = Account!OnFill(portfolio, fill)
      OBVIOUS
    <3>5. IsPosition(p.positions[t])
      BY <3>3, <3>4, AccountFilled
    <3> QED
      BY <3>1, <3>4, <3>5 DEF IsPosition
  <2> QED
    BY <2>1, <2>2
<1> QED
  BY <1>1, AccountInitially, AccountInductive, PTL DEF Spec

(* Every component of the engine keeps its types. *)
THEOREM BarTypes == Spec => []TypeOK
<1>1. AccountInv => TypeOK
  <2> SUFFICES ASSUME AccountInv PROVE TypeOK
    OBVIOUS
  <2>1. SignalInv /\ OrderInv /\ CashInv
    BY DEF AccountInv, SignalInv
  <2>2. \A bar \in BarsAfter(0) : bar \in Bars \cup {NoBar}
    BY BarAssumption DEF BarsAfter, Bars
  <2>3. ahead \in [Tickers -> Bars \cup {NoBar}] /\ last \in [Tickers -> Bars \cup {NoBar}]
    BY <2>1, <2>2 DEF OrderInv, Sorted
  <2>4. ASSUME queue # <<>>
        PROVE  /\ Len(queue) <= 1
               /\ \A k \in DOMAIN queue :
                    /\ queue[k].type \in {"Market", "Signal", "Order", "Fill"}
                    /\ queue[k].ticker \in Tickers /\ queue[k].timestamp \in 1..MaxTime
    <3>1. PICK event : queue = <<event>> /\ FollowsBar(event)
      BY <2>1, <2>4 DEF OrderInv
    <3>2. last[event.ticker] \in BarsAfter(0) /\ last[event.ticker] # NoBar
      BY <2>1, <3>1 DEF FollowsBar, OrderInv, Sorted
    <3>3. last[event.ticker].time \in 1..MaxTime
      <4>1. PICK time \in (0 + 1)..MaxTime, s \in Shapes :
                   last[event.ticker] = [time |-> time, open |-> s.open, close |-> s.close]
        BY <3>2 DEF BarsAfter
      <4> QED
        BY <4>1, BarAssumption
    <3> QED
      BY <3>1, <3>3 DEF FollowsBar, EventTypes
  <2>5. is_running \in BOOLEAN
    BY DEF AccountInv
  <2>6. ASSUME NEW t \in Tickers
        PROVE  /\ Len(strategy[t].history) <= LongWindow /\ ToSet(strategy[t].history) \subseteq Prices
               /\ strategy[t].short_ma \in Nat /\ strategy[t].long_ma \in Nat
    BY <2>1, KeptTypes DEF SignalInv
  <2>7. /\ portfolio.cash \in Int /\ portfolio.peak >= InitialCapital
        /\ DOMAIN portfolio.positions \subseteq Tickers
    BY DEF AccountInv, CashInv
  <2>8. ASSUME NEW t \in DOMAIN portfolio.positions
        PROVE  portfolio.positions[t].quantity % PositionSize = 0
    <3>1. PICK k \in Int : portfolio.positions[t].quantity = PositionSize * k
      BY DEF AccountInv, IsPosition
    <3>2. (PositionSize * k) % PositionSize = 0
      BY BarAssumption
    <3> QED
      BY <3>1, <3>2
  <2> QED
    BY <2>3, <2>4, <2>5, <2>6, <2>7, <2>8 DEF TypeOK
<1> QED
  BY <1>1, AccountInitially, AccountInductive, PTL DEF Spec
====
