SPECIFICATION FairSpec
CONSTANTS NumMsgs = 7
          Bound = 3
          Leftovers = {}
PROPERTIES EngineEnds
CHECK_DEADLOCK FALSE
