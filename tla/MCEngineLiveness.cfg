SPECIFICATION FairSpec
CONSTANTS OutboundLatency = 1
          InboundLatency = 1
          MaxOrders = 3
          MaxOrderQty = 2
          MaxPosition = 2
          HalfSpread = 2
          OrderQty = 2
          Word = 8
          MaxFeed = 5
          MaxTime = 2
          FeedOrders <- SmallMarket
PROPERTIES CancelsResolve
