\* Two closes make the averages of one and two bars cross, touch and part again.
CONSTANTS
  Tickers = {"AAPL", "GOOG"}
  Shapes <- ThreeShapes
  MaxTime = 5
  ShortWindow = 1
  LongWindow = 2
  PositionSize = 1
  InitialCapital = 31
  Commission = 1
SPECIFICATION Spec
INVARIANTS
  TypeOK
  MergedInTimeOrder
  FillsAtNextBar
  OverdraftBounded
  BasisWithinPrices
PROPERTIES
  SignalsAreCrossings
