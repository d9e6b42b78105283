SPECIFICATION Spec
CONSTANTS SeqMod = 12 MaxDropout = 3 MaxMisorder = 3 BufferSize = 3 Oversized = {12, 23} MaxAge = 4 AgeMod = 14
          FirstPackets = {9, 24} MaxPacket = 25 Late = 2 Ahead = 2 MaxDrops = 1 MaxSyncs = 2
INVARIANTS RenumberingExact StreamsCountRight SentIsStored RetransmissionIsRight
CHECK_DEADLOCK FALSE
