SPECIFICATION FairSpec
CONSTANTS
    a = a
    b = b
    Calls = {a, b}
    Mixes <- MCMixes
    MaxSockets = 2
    MaxQueue = 1
    Transports = {"websocket", "function"}
    StartUrl <- MCStartUrl
    Locations <- MCLocations
    RedirectLimit = 1
    MaxEvents = 2
    None = None
PROPERTIES CloseTerminates
CHECK_DEADLOCK FALSE
