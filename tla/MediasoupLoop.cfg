SPECIFICATION FairLoopSpec
CONSTANTS Channel = {a1, a2}
          MaxListSize = 1
          MayGiveUp = FALSE
          MaxSends = 2
          MaxFailures = 1
INVARIANT MessagesAccounted
PROPERTY LoopStops
CHECK_DEADLOCK FALSE
