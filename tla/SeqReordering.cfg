SPECIFICATION Spec
CONSTANTS SeqMod = 12 MaxDropout = 3 MaxMisorder = 3 BufferSize = 3 Oversized = {} MaxAge = 4 AgeMod = 14
          FirstPackets = {9} MaxPacket = 14 Late = 2 Ahead = 2 MaxDrops = 1 MaxSyncs = 1
INVARIANT ReorderingHarmless
CHECK_DEADLOCK FALSE
