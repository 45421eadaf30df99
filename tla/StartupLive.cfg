\* Two replicas, one of which is asked for a rebuild that ends before its heartbeat thread wakes up.
CONSTANTS
    r1 = r1
    r2 = r2
    s1 = s1
    s2 = s2
    p1 = p1
    p2 = p2
    b1 = b1
    b2 = b2
    Replica = {r1, r2}
    Gate = {s1, s2, p1, p2, b1}
    Host <- MCHost
    Kind <- MCKind
    Degraded = {r2}
    Redeployed = {}
    Long = {}
    Gone = Gone
    NoHolder = NoHolder
    TTL = 1
    MaxSkew = 0
    HeartbeatTTL = 1
    Holder <- MCHolder
    Skew <- NoSkew
SPECIFICATION LiveSpec
PROPERTIES StartsBesidePeer
