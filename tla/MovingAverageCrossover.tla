---- MODULE MovingAverageCrossover ----
(* The strategy of the bar engine, for one ticker
   (Strategies/BarStrategies/MovingAverageCrossover/MovingAverageCrossover.cpp).
   Both averages are kept multiplied by the product of the windows: whole numbers,
   compared as the code compares the averages. *)
EXTENDS Naturals, Sequences, SequencesExt

CONSTANTS ShortWindow, LongWindow

ASSUME WindowAssumption == /\ ShortWindow \in Nat \ {0} /\ LongWindow \in Nat \ {0}
                           /\ ShortWindow <= LongWindow

NoSignal == "none"

NewStrategy == [history |-> <<>>, short_ma |-> 0, long_ma |-> 0]

Total(prices) == FoldLeft(LAMBDA sum, price : sum + price, 0, prices)

\* The latest n prices.
Latest(n, prices) == SubSeq(prices, Len(prices) - n + 1, Len(prices))

PushedUncapped(history, close) == Append(history, close)

Pushed(history, close) ==
  LET h == Append(history, close)
  IN  IF Len(h) > LongWindow THEN Tail(h) ELSE h

\* on_market_data, what it keeps: the averages appear with the first full window.
OnMarketData(s, close) ==
  LET h == Pushed(s.history, close)
  IN  IF Len(h) < LongWindow THEN [s EXCEPT !.history = h]
      ELSE [history |-> h,
            short_ma |-> Total(Latest(ShortWindow, h)) * LongWindow,
            long_ma |-> Total(h) * ShortWindow]

\* The averages of a window that was not full yet are zero.
HadAverages(s) == ~(s.short_ma = 0 /\ s.long_ma = 0)

SignalOnlyFromAcross(s, close) ==
  LET t == OnMarketData(s, close)
  IN  IF Len(t.history) < LongWindow \/ ~HadAverages(s) THEN NoSignal
      ELSE IF s.short_ma < s.long_ma /\ t.short_ma > t.long_ma THEN "LONG"
      ELSE IF s.short_ma > s.long_ma /\ t.short_ma < t.long_ma THEN "SHORT"
      ELSE NoSignal

\* on_market_data, what it says: averages that met before have still to cross.
SignalOf(s, close) ==
  LET t == OnMarketData(s, close)
  IN  IF Len(t.history) < LongWindow \/ ~HadAverages(s) THEN NoSignal
      ELSE IF s.short_ma <= s.long_ma /\ t.short_ma > t.long_ma THEN "LONG"
      ELSE IF s.short_ma >= s.long_ma /\ t.short_ma < t.long_ma THEN "SHORT"
      ELSE NoSignal

---------------------------------------------------------------------------
(* What a crossing is, said of the closes alone: the short average comes from below
   or from the long one and is above it now, or the other way round.  Needs the
   closes of one bar more than the long window. *)
IsAbove(prices) == Total(Latest(ShortWindow, prices)) * LongWindow
                     > Total(Latest(LongWindow, prices)) * ShortWindow
IsBelow(prices) == Total(Latest(ShortWindow, prices)) * LongWindow
                     < Total(Latest(LongWindow, prices)) * ShortWindow
Crossing(closes) ==
  IF Len(closes) <= LongWindow THEN NoSignal
  ELSE LET before == Front(closes)
       IN  IF ~IsAbove(before) /\ IsAbove(closes) THEN "LONG"
           ELSE IF ~IsBelow(before) /\ IsBelow(closes) THEN "SHORT" ELSE NoSignal
====
