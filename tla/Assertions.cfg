CONSTANTS
    alice = alice
    bob = bob
    w1 = w1
    w2 = w2
    Assertion = {1, 2}
    Predicate <- Same
    Subject <- Other
    EdgeRank <- Backwards
    Actor = {alice, bob}
    Operator = {bob}
    Writer = {w1, w2}
    Seed <- OneAccepted
    Operation = {"propose", "decide", "register", "supersede"}
    Published <- OnePublished
    Documented = {2}
    Start = 2
    EligibleSet <- Everything
    Lag = 1
    MaxNow = 3
    MaxTime = 4
    MaxEvents = 3
    MaxPublications = 2
SPECIFICATION Spec
SYMMETRY WriterSymmetry
INVARIANTS AssertionInvariant StreamsResolve HandoverHasNoGap
PROPERTIES ImplementsBook
