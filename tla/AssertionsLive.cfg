CONSTANTS
    alice = alice
    bob = bob
    w1 = w1
    w2 = w2
    Assertion = {1, 2, 3}
    Predicate <- Same
    Subject <- Own
    EdgeRank <- Backwards
    Actor = {alice, bob}
    Operator = {bob}
    Writer = {w1, w2}
    Seed <- TwoAccepted
    Operation = {"propose", "register", "supersede"}
    Published <- EmptyPublished
    Documented = {1, 2, 3}
    Start = 0
    EligibleSet <- Everything
    Lag = 0
    MaxNow = 0
    MaxTime = 5
    MaxEvents = 3
    MaxPublications = 2
SPECIFICATION FairSpec
PROPERTIES RequestsFinish
