\* Termination and recovery: one rebuild and one reconciliation loop, the loop on a
\* host whose clock is ahead.
CONSTANTS
    a1 = a1
    r1 = r1
    Attempt = {a1}
    Reconciler = {r1}
    Gone = Gone
    NoHolder = NoHolder
    TTL = 2
    MaxSkew = 1
    Holder <- MCHolder
    Skew <- FastReconciler
SPECIFICATION LiveSpec
PROPERTIES AttemptEnds LeaseReturns OrphanRecovered
