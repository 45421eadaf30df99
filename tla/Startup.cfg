\* Two replicas, one of which is asked for a rebuild with heartbeats.
CONSTANTS
    r1 = r1
    r2 = r2
    s1 = s1
    s2 = s2
    p1 = p1
    p2 = p2
    b1 = b1
    b2 = b2
    Replica = {r1, r2}
    Gate = {s1, s2, p1, p2, b1}
    Host <- MCHost
    Kind <- MCKind
    Degraded = {r2}
    Redeployed = {r1}
    Long = {b1}
    Gone = Gone
    NoHolder = NoHolder
    TTL = 1
    MaxSkew = 0
    HeartbeatTTL = 1
    Holder <- MCHolder
    Skew <- NoSkew
SPECIFICATION Spec
INVARIANT StartInvariant
PROPERTIES OnlySilentReset
