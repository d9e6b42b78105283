SPECIFICATION Spec
CONSTANTS
    Producer = {p1, p2}
    Ssrc = {0, 1, 2, 3}
    Mid = {m1, m2}
    Rid = {r1, r2}
    PayloadType = {mediaPt, rtxPt, otherPt}
    None = None
    m1 = m1
    m2 = m2
    r1 = r1
    r2 = r2
    mediaPt = mediaPt
    rtxPt = rtxPt
    Parameters <- MCParameters
    MaxEncodings = 2
INVARIANTS TablesSound DeclaredGoToOwner
PROPERTIES SsrcsKept
CHECK_DEADLOCK FALSE
