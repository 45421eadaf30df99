\* Two replicas, both asked for a rebuild.
CONSTANTS
    r1 = r1
    r2 = r2
    s1 = s1
    s2 = s2
    p1 = p1
    p2 = p2
    b1 = b1
    b2 = b2
    Replica = {r1, r2}
    Gate = {s1, s2, p1, p2, b1, b2}
    Host <- MCHost
    Kind <- MCKind
    Degraded = {}
    Redeployed = {}
    Long = {}
    Gone = Gone
    NoHolder = NoHolder
    TTL = 1
    MaxSkew = 0
    HeartbeatTTL = 1
    Holder <- MCHolder
    Skew <- NoSkew
SPECIFICATION Spec
INVARIANT OneActiveOwner
