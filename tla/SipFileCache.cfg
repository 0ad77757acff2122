CONSTANTS
    Paths = {p1, p2, p3}
    Entries = {a, b}
    Torn = Torn
    sipFileCacheMax = 2
    MaxWrites = 5
SPECIFICATION Spec
INVARIANTS OrderListsHandles HandlesBounded
PROPERTY ImplementsTraceLog
CHECK_DEADLOCK FALSE
