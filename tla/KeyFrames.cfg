CONSTANTS
    Ssrc = {s1}
    WaitTime = 1
    Delay = 2
SPECIFICATION AllSpec
INVARIANTS NeedIsRecorded RetriesBounded ForwardsDecodable InactivityNoticed WaitingIsRemembered
PROPERTIES RequestsSpaced NeedsAreServed
