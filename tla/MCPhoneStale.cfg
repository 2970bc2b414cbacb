SPECIFICATION Spec
CONSTANTS
    AutoReconnect = {TRUE}
    Budget = 2
    MaxCalls = 0
    MaxTokens = 8
    PausesIn = {}
    Overlap = TRUE
CHECK_DEADLOCK FALSE
INVARIANT ConnectedMeansLive
