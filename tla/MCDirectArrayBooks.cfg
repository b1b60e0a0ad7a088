\* Reach depends on the first price: from 10 the ask 25 is out of it, from 25 the bid 10.
\* The two bids are next to each other; the asks are a gap apart that the search does not cross.
CONSTANTS
  MaxOrders = 3
  IdMapCapacity = 4
  LobCapacity = 4
  TickSize = 5
  ScanTicks = 2
  Ids = {1, 2, 3}
  BidPrices = {10, 15}
  AskPrices = {15, 25}
  Sizes = {1, 2}
SPECIFICATION Spec
INVARIANTS
  TypeOK
  FollowsMarket
  QueriesAgree
  ListsIntact
\* The program ends when the pool is exhausted.
CHECK_DEADLOCK FALSE
