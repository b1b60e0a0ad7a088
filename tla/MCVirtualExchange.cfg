SPECIFICATION Spec
CONSTANTS OutboundLatency = 1
          InboundLatency = 1
          Word = 8
          Prices = {10, 11}
          MaxOrders = 3
          OrderSizes = {1, 2}
          ShownVolumes = {0, 2}
          FillSizes = {1, 4}
INVARIANTS LevelsIntact
PROPERTIES PriceTimePriority VolumeUsed FillsAreAcknowledged CancelKeepsPlaces
