SPECIFICATION FairSpec
CONSTANTS
    AutoReconnect = {TRUE, FALSE}
    Budget = 5
    MaxCalls = 1
    MaxTokens = 8
    PausesIn = {"paired", "connected", "disconnecting", "unreachable", "certChanged", "unpaired"}
    Overlap = FALSE
CHECK_DEADLOCK FALSE
INVARIANTS StateIsHonest
PROPERTIES WantedIsReached
