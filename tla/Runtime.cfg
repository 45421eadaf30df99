\* Two requests, which may overlap after a disconnect, a foreign rebuild and a read, under fairness.
CONSTANTS
    q1 = q1
    q2 = q2
    Request = {q1, q2}
    NoRequest = NoRequest
    MaxOther = 1
SPECIFICATION ReadLiveSpec
INVARIANTS RuntimeInvariant ReadInvariant
PROPERTIES SyncMovesForward RebuildingEnds LabelCatchesUp
