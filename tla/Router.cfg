SPECIFICATION Spec
CONSTANTS
    Transport = {t1, t2}
    ProducerId = {p1, p2}
    ConsumerId = {c1, c2}
    RtpObserver = {o1}
INVARIANTS MapsConsistent FollowersInformed
PROPERTIES OnlyOrphansClosed
