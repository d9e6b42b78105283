\* Every path, over a circle of 16 numbers.
CONSTANTS
    SeqMod = 16
    MaxPacketAge = 4
    MaxNackPackets = 2
    MaxNackRetries = 2
    DefaultRtt = 1
    TimerInterval = 1
    Rtts = {1}
    MaxAhead = 3
    KeyFrameBound = 1
    RecoveredBound = 1
SPECIFICATION FairNackSpec
INVARIANT NackListRight
PROPERTIES GivingUpJustified NackTerminates
