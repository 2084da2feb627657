SPECIFICATION FairSpec
CONSTANTS
    MaxId = 1
    Calls = {k1}
    Capacity = 1
    MaxData = 0
    Stoppers = {"client"}
    Lingering = {"client"}
PROPERTIES EveryCallAnswered CloseReachesPeer
CHECK_DEADLOCK FALSE
