---- MODULE BarEngine ----
(* The back test on daily bars (main.cpp): one thread hands the bars of all tickers
   to the strategy in the order of time and works off what follows from one bar
   before it takes the next.

   The recording is chosen as it is needed: ahead holds for each ticker the bar at
   its current_index_, and Update picks the one behind it.  Fills are priced and
   orders are checked at the bar ahead. *)
EXTENDS MovingAverageCrossover, FiniteSets, FiniteSetsExt

CONSTANTS Tickers,
          Shapes,          \* the opens and closes that occur: [open, close]
          MaxTime,         \* bars have times 1..MaxTime
          PositionSize, InitialCapital,
          Commission       \* of one trade of PositionSize

\* A recording is a finite number of lines.
ASSUME BarAssumption == /\ Shapes \subseteq [open : Nat \ {0}, close : Nat \ {0}]
                        /\ IsFiniteSet(Shapes) /\ MaxTime \in Nat
                        /\ PositionSize \in Nat \ {0} /\ InitialCapital \in Nat /\ Commission \in Nat

VARIABLES
  ahead,      \* all_data_ at current_index_, or NoBar past its end
  last,       \* the bar before that one, or NoBar
  is_running,
  queue,      \* event_queue
  strategy,   \* what the strategy keeps of each ticker
  portfolio,
  closes      \* of each ticker the latest closes delivered; for the properties only

vars == <<ahead, last, is_running, queue, strategy, portfolio, closes>>

Account == INSTANCE Portfolio

Bars == [time : 1..MaxTime, open : {s.open : s \in Shapes}, close : {s.close : s \in Shapes}]
NoBar == [time |-> 0, open |-> 0, close |-> 0]

\* What may stand behind a bar of that time in a sorted file.
BarsAfter(time) ==
  {NoBar} \cup {[time |-> t, open |-> s.open, close |-> s.close] : t \in (time + 1)..MaxTime, s \in Shapes}

Init == /\ ahead \in [Tickers -> BarsAfter(0)]
        /\ last = [t \in Tickers |-> NoBar]
        /\ is_running = TRUE
        /\ queue = <<>>
        /\ strategy = [t \in Tickers |-> NewStrategy]
        /\ portfolio = Account!NewPortfolio(InitialCapital)
        /\ closes = [t \in Tickers |-> <<>>]

---------------------------------------------------------------------------
Market(ticker, bar) == [type |-> "Market", ticker |-> ticker, timestamp |-> bar.time, close |-> bar.close]
Signal(event, direction) ==
  [type |-> "Signal", ticker |-> event.ticker, timestamp |-> event.timestamp, direction |-> direction]
Order(signal) ==
  [type |-> "Order", ticker |-> signal.ticker, timestamp |-> signal.timestamp,
   direction |-> IF signal.direction = "LONG" THEN "BUY" ELSE "SELL", quantity |-> PositionSize]
Fill(order, price) ==
  [type |-> "Fill", ticker |-> order.ticker, timestamp |-> order.timestamp,
   direction |-> order.direction, quantity |-> order.quantity,
   fill_price |-> price, commission |-> Commission]

PriceInfoDelivered(ticker) == last[ticker]

\* get_latest_price_info: the bar to come, or the last one when there is none.
PriceInfo(ticker) == IF ahead[ticker] # NoBar THEN ahead[ticker] ELSE last[ticker]

HasBar(ticker) == ahead[ticker] # NoBar
HasEarliestBar(ticker) ==
  HasBar(ticker) /\ \A u \in Tickers : HasBar(u) => ahead[ticker].time <= ahead[u].time

---------------------------------------------------------------------------
\* One turn of the outer loop; of several earliest bars the hash map decides.
Update == /\ is_running /\ queue = <<>>
          /\ \E t \in Tickers : \E b \in BarsAfter(ahead[t].time) :
               /\ HasEarliestBar(t)
               /\ queue' = <<Market(t, ahead[t])>>
               /\ last' = [last EXCEPT ![t] = ahead[t]]
               /\ ahead' = [ahead EXCEPT ![t] = b]
          /\ UNCHANGED <<is_running, strategy, portfolio, closes>>

EndOfData == /\ is_running /\ queue = <<>>
             /\ \A t \in Tickers : ~HasBar(t)
             /\ is_running' = FALSE
             /\ UNCHANGED <<ahead, last, queue, strategy, portfolio, closes>>

IsNext(type) == queue # <<>> /\ Head(queue).type = type

\* Pop the event and push what it leads to.
Answered(events) == queue' = Tail(queue) \o events

HandleMarket ==
  /\ IsNext("Market")
  /\ LET event == Head(queue)
         signal == SignalOf(strategy[event.ticker], event.close)
         seen == Append(closes[event.ticker], event.close)
     IN  /\ Answered(IF signal = NoSignal THEN <<>> ELSE <<Signal(event, signal)>>)
         /\ strategy' = [strategy EXCEPT ![event.ticker] = OnMarketData(@, event.close)]
         /\ portfolio' = Account!OnMarketData(portfolio, event)
         /\ closes' = [closes EXCEPT ![event.ticker] =
                         IF Len(seen) > LongWindow + 1 THEN Tail(seen) ELSE seen]
  /\ UNCHANGED <<ahead, last, is_running>>

ApprovedUnfunded(signal) == ~Account!DrawdownTooHigh(portfolio)

\* The risk manager asks for the cash of a purchase, whichever the direction.
Approved(signal) == /\ portfolio.cash >= PositionSize * PriceInfo(signal.ticker).close
                    /\ ~Account!DrawdownTooHigh(portfolio)

HandleSignal == /\ IsNext("Signal")
                /\ Answered(IF Approved(Head(queue)) THEN <<Order(Head(queue))>> ELSE <<>>)
                /\ UNCHANGED <<ahead, last, is_running, strategy, portfolio, closes>>

\* The execution handler: orders of the risk manager are market orders.
HandleOrder == /\ IsNext("Order")
               /\ Answered(<<Fill(Head(queue), PriceInfo(Head(queue).ticker).open)>>)
               /\ UNCHANGED <<ahead, last, is_running, strategy, portfolio, closes>>

HandleFill == /\ IsNext("Fill")
              /\ Answered(<<>>)
              /\ portfolio' = Account!OnFill(portfolio, Head(queue))
              /\ UNCHANGED <<ahead, last, is_running, strategy, closes>>

\* The loop has ended.
Stopped == ~is_running /\ UNCHANGED vars

Next == Update \/ EndOfData \/ HandleMarket \/ HandleSignal \/ HandleOrder \/ HandleFill \/ Stopped

Spec == Init /\ [][Next]_vars

---------------------------------------------------------------------------
Prices == UNION {{s.open, s.close} : s \in Shapes}

(* Every component keeps its types: histories no longer than the long window,
   positions in whole lots, at most one event in the queue. *)
TypeOK ==
  /\ ahead \in [Tickers -> Bars \cup {NoBar}] /\ last \in [Tickers -> Bars \cup {NoBar}]
  /\ is_running \in BOOLEAN
  /\ Len(queue) <= 1
  /\ \A k \in DOMAIN queue : /\ queue[k].type \in {"Market", "Signal", "Order", "Fill"}
                            /\ queue[k].ticker \in Tickers /\ queue[k].timestamp \in 1..MaxTime
  /\ \A t \in Tickers :
       /\ Len(strategy[t].history) <= LongWindow /\ ToSet(strategy[t].history) \subseteq Prices
       /\ strategy[t].short_ma \in Nat /\ strategy[t].long_ma \in Nat
  /\ portfolio.cash \in Int /\ portfolio.peak >= InitialCapital
  /\ DOMAIN portfolio.positions \subseteq Tickers
  /\ \A t \in DOMAIN portfolio.positions : portfolio.positions[t].quantity % PositionSize = 0

(* The files are merged into one sequence in time (HistoricCSVDataHandler::update):
   no bar still to come is earlier than one that was handed out, all that is in
   the queue follows from the latest bar, and the run ends with nothing left over. *)
MergedInTimeOrder ==
  /\ \A t, u \in Tickers : HasBar(t) => last[u].time <= ahead[t].time
  /\ \A k \in DOMAIN queue : \A u \in Tickers :
       /\ queue[k].timestamp = last[queue[k].ticker].time
       /\ last[u].time <= queue[k].timestamp
  /\ ~is_running => queue = <<>> /\ \A t \in Tickers : ~HasBar(t)

(* A trade takes place at the opening of the bar after the one that caused it: the
   strategy never trades at a price it has seen.  Only when there is no such bar
   the trade goes back to the opening of the last one, before its own cause. *)
FillsAtNextBar ==
  \A k \in DOMAIN queue : queue[k].type = "Fill" =>
    LET t == queue[k].ticker
    IN  IF HasBar(t) THEN ahead[t].time > queue[k].timestamp /\ queue[k].fill_price = ahead[t].open
        ELSE last[t].time = queue[k].timestamp /\ queue[k].fill_price = last[t].open

(* The strategy speaks up at the crossings of the averages and at no other bar, as
   the closes alone tell: not before two full windows, and once for each time the
   short average leaves the long one, also after they only touched. *)
SignalsAreCrossings ==
  [][IsNext("Market") =>
       LET event == Head(queue)
           crossing == Crossing(closes'[event.ticker])
       IN  queue' = IF crossing = NoSignal THEN <<>> ELSE <<Signal(event, crossing)>>]_vars

(* The cash is compared with the close of the bar the order will trade at, and paid
   at its open, with the commission on top: that much it can be overdrawn, and no
   more, because no order is checked while another is on its way. *)
OverdraftBounded ==
  LET fall == Max({s.open - s.close : s \in Shapes} \cup {0})
  IN  portfolio.cash >= -(PositionSize * fall + Commission)

\* A long position has cost, a short one has brought, what so many units can: no sign is lost.
BasisSound(position) ==
  LET n == position.quantity
  IN  CASE n = 0 -> position.cost_basis = 0 /\ position.market_value = 0
        [] n > 0 -> position.cost_basis \in (n * Min(Prices))..(n * (Max(Prices) + Commission))
        [] n < 0 -> position.cost_basis \in (n * Max(Prices))..(n * (Min(Prices) - Commission))

(* The cost basis of what the portfolio holds lies between the prices of the feed,
   commission included, and still does after any next fill, also one that closes
   a part of the position or turns it round (Portfolio.cpp:48, which no order of
   this engine is large enough to reach). *)
BasisWithinPrices ==
  \A t \in DOMAIN portfolio.positions :
    /\ BasisSound(portfolio.positions[t])
    /\ \A direction \in {"BUY", "SELL"}, lots \in 1..3, price \in Prices :
         BasisSound(Account!OnFill(portfolio,
           [ticker |-> t, direction |-> direction, quantity |-> lots * PositionSize,
            fill_price |-> price, commission |-> Commission]).positions[t])
====
