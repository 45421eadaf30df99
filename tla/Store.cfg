\* Two symbols in the sample, one more asset in the store; the cache file serves as the graph cache.
CONSTANTS
    a = a
    b = b
    c = c
    e1 = e1
    link = link
    peer = peer
    x1 = x1
    x2 = x2
    x3 = x3
    NoGraph = NoGraph
    NoIssuer = NoIssuer
    Asset = {a, b, c}
    Security = {a, b}
    Contract = {}
    SampleAsset = {a, b}
    Event = {e1}
    Predicate = {link, peer}
    Assertion = {x1, x2, x3}
    Strength = {1, 2}
    RealData = TRUE
    GraphCache = TRUE
    Rank <- MCRank
    Sector <- MCSector
    Issuer <- MCIssuer
    About <- MCAbout
    Related <- MCRelated
    EventRank <- MCEventRank
    EdgeType <- MCEdgeType
    Direction <- MCDirection
    ConflictKey <- MCConflictKey
    Subject <- MCSubject
    Object <- MCObject
    Predicates <- MCPredicates
    StrengthOf <- MCStrengthOf
    HandRow <- MCHandRow
SPECIFICATION Spec
INVARIANTS StoreInvariant LoadIsStable GovernedEdgesExplained
PROPERTIES LegacyStaysOut NeverEmptied
