SPECIFICATION Spec
CONSTANTS OutboundLatency = 1
          InboundLatency = 1
          MaxOrders = 4
          MaxOrderQty = 2
          MaxPosition = 2
          HalfSpread = 2
          OrderQty = 2
          Word = 8
          MaxFeed = 7
          MaxTime = 4
          FeedOrders <- SmallMarket
INVARIANTS TypeOK AccountsAgree OnlyCapacityThrows TrackedOrdersAreOpen NoForgottenOrders
           QuantityConserved OneOrderPerSide QuietMeansAgreed NoEventInThePast
PROPERTIES TerminalStatusIsFinal
