SPECIFICATION FairSpec
CONSTANTS NumMsgs = 7
          Bound = 3
          Leftovers <- EarlierRun
INVARIANTS PollsConstructedRing
CHECK_DEADLOCK FALSE
