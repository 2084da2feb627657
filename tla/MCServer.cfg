SPECIFICATION FairSpec
CONSTANTS
    Wisp = {w}
    Net = {n}
    Proxy = {p}
    Tasks = {t1, t2}
    None = None
    ProbeBodies = {0, 4}
INVARIANTS StatsExact TermMapLive
PROPERTIES ConnectionCleansUp TableReleased
CHECK_DEADLOCK FALSE
