SPECIFICATION Spec
CONSTANTS
    Sinks = {c1, c2, c3}
    Guards = {g1}
    Keys = {0, 1, 2}
    Cancellable = {c1}
INVARIANTS MutualExclusion ValidKeys
PROPERTIES LockSpec
CHECK_DEADLOCK FALSE
