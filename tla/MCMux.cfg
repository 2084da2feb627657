SPECIFICATION Spec
CONSTANTS
    MaxId = 1
    Calls = {k1, k2}
    Capacity = 1
    MaxData = 2
    Stoppers = {}
    Lingering = {}
INVARIANTS TypeOK NoOrphan FreshConnect InOrder
CHECK_DEADLOCK FALSE
