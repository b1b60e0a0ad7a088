---- MODULE Portfolio ----
(* The account of the bar engine: cash, positions and the highest equity seen
   (Portfolio/Portfolio.cpp and Portfolio.h).

   A portfolio is a record
     cash, peak = cash_ and peak_equity_,
     positions  = for each ticker ever traded its quantity, market value and cost basis.
   Money is counted in whole units of the feed's price grid; what a division
   leaves over is rounded towards the cost basis. *)
EXTENDS Integers, Functions

NoPosition == [quantity |-> 0, market_value |-> 0, cost_basis |-> 0]

NewPortfolio(capital) == [cash |-> capital, peak |-> capital, positions |-> <<>>]

PositionOf(p, ticker) == IF ticker \in DOMAIN p.positions THEN p.positions[ticker] ELSE NoPosition

Signed(fill) == IF fill.direction = "BUY" THEN fill.quantity ELSE -fill.quantity

Size(n) == IF n < 0 THEN -n ELSE n

\* The part n / of of an amount, rounded down.
Part(amount, n, of) == (amount * n) \div of

---------------------------------------------------------------------------
\* A trade in the direction of the position, or of no position, adds to its cost.
IsOpening(old, trade) == old = 0 \/ (old > 0 /\ trade > 0) \/ (old < 0 /\ trade < 0)

CostOf(trade, fill) == trade * fill.fill_price + fill.commission

CostBasisFlippedOnTop(pos, fill) ==
  LET trade == Signed(fill)
      left == pos.quantity + trade
  IN  IF left = 0 THEN 0
      ELSE IF IsOpening(pos.quantity, trade) THEN pos.cost_basis + CostOf(trade, fill)
      ELSE IF Size(trade) <= Size(pos.quantity)
           THEN pos.cost_basis - Part(pos.cost_basis, Size(trade), Size(pos.quantity))
           ELSE pos.cost_basis + left * fill.fill_price + Part(fill.commission, Size(left), Size(trade))

\* Opening or extending, closing in part, closing, and turning the position round.
CostBasis(pos, fill) ==
  LET trade == Signed(fill)
      left == pos.quantity + trade
  IN  IF left = 0 THEN 0
      ELSE IF IsOpening(pos.quantity, trade) THEN pos.cost_basis + CostOf(trade, fill)
      ELSE IF Size(trade) <= Size(pos.quantity)
           THEN pos.cost_basis - Part(pos.cost_basis, Size(trade), Size(pos.quantity))
           ELSE left * fill.fill_price + Part(fill.commission, Size(left), Size(trade))

With(positions, ticker, pos) ==
  [t \in DOMAIN positions \cup {ticker} |-> IF t = ticker THEN pos ELSE positions[t]]

\* on_fill: the whole position is marked at the price of the fill.
OnFill(p, fill) ==
  LET pos == PositionOf(p, fill.ticker)
      left == pos.quantity + Signed(fill)
  IN  [p EXCEPT !.cash = @ - CostOf(Signed(fill), fill),
                !.positions = With(@, fill.ticker, [quantity |-> left,
                                                    market_value |-> left * fill.fill_price,
                                                    cost_basis |-> CostBasis(pos, fill)])]

---------------------------------------------------------------------------
TotalValue(p) ==
  p.cash + FoldFunction(LAMBDA pos, sum : pos.market_value + sum, 0, p.positions)

Highest(a, b) == IF a >= b THEN a ELSE b

\* on_market_data: the peak moves only with a ticker that was traded before.
OnMarketData(p, event) ==
  IF event.ticker \notin DOMAIN p.positions THEN p
  ELSE LET q == [p EXCEPT !.positions[event.ticker].market_value =
                            event.close * p.positions[event.ticker].quantity]
       IN  [q EXCEPT !.peak = Highest(p.peak, TotalValue(q))]

\* get_current_drawdown() > 0.2
DrawdownTooHigh(p) == p.peak > 0 /\ 5 * (p.peak - TotalValue(p)) > p.peak
====
