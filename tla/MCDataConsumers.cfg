SPECIFICATION EitherSpec
CONSTANTS NumMsgs = 14
          Bound = 7
          Leftovers = {}
          FileLists <- UpToThreeFiles
INVARIANTS ReceivesRecording PollsConstructedRing EndIsAfterData
PROPERTIES AllDelivered MarkerEndsRun
CHECK_DEADLOCK FALSE
