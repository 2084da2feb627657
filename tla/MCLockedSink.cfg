SPECIFICATION FairSpec
CONSTANTS
    Sinks = {c1, c2, c3}
    Guards = {}
    Keys = {0, 1, 2}
    Cancellable = {}
INVARIANTS NoLeakedEntry NoLostWakeup
PROPERTIES OnlyOvertaken
CHECK_DEADLOCK FALSE
