SPECIFICATION FairSpec
CONSTANTS Capacity = 4
          Data = {d1, d2}
          NoData = NoData
INVARIANTS TypeOK NoSlotRace StaleIndexIsSafe
PROPERTIES RefinesFifo RefinesFairFifo
