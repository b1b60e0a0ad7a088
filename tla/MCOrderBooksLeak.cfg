\* Ids 3 and 7 share a bucket, and 7 pushes 4 on across the end of the table.
CONSTANTS
  MaxOrders = 3
  IdMapCapacity = 4
  Ids = {3, 4, 7}
  BidPrices = {11, 12}
  AskPrices = {11, 12, 13}
  BidSizes = {1, 2}
  AskSizes = {1}
SPECIFICATION Spec
INVARIANTS
  NodesReturn
\* The program ends when the pool is exhausted.
CHECK_DEADLOCK FALSE
