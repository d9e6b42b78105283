CONSTANTS
    Producers = {p1, p2}
    Consumers = {c1, c2}
    Streams = {0, 1}
    OS = 1
    AddedStreams = 1
    MaxSctpStreams = 2
    Thresholds = {1}
    MaxMessageSize = 2
    Messages <- MCMessages
    MaxBuffered = 1
    None = None
SPECIFICATION Spec
SYMMETRY Symmetry
INVARIANTS
    DataChannelsConsistent
    LowIsTold
    MessagesWhole
CHECK_DEADLOCK FALSE
