\* Two rebuilds and one reconciliation loop, clocks that agree.
CONSTANTS
    a1 = a1
    a2 = a2
    r1 = r1
    Attempt = {a1, a2}
    Reconciler = {r1}
    Gone = Gone
    NoHolder = NoHolder
    TTL = 1
    MaxSkew = 0
    Holder <- MCHolder
    Skew <- NoSkew
SPECIFICATION Spec
SYMMETRY AttemptSymmetry
INVARIANTS SingleWriter ResetHitsRunning CancelSignalSound SafetyInvariant
PROPERTIES ImplementsJobs
