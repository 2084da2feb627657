SPECIFICATION Spec
CONSTANTS
    Sinks = {c1, c2, c3}
    Guards = {}
    Keys = {0, 1, 2}
    Cancellable = {c1}
INVARIANTS NoLostWakeup
CHECK_DEADLOCK FALSE
