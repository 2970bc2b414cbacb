SPECIFICATION Spec
CONSTANTS
    AutoReconnect = {TRUE, FALSE}
    Budget = 3
    MaxCalls = 2
    MaxTokens = 8
    PausesIn = {"paired", "connecting", "connected", "disconnecting", "unreachable", "certChanged", "unpaired"}
    Overlap = TRUE
CHECK_DEADLOCK FALSE
INVARIANTS TerminalIsUnwanted
PROPERTIES AbandonedIsSilent SecretOnlyWhenWanted NothingStartsInBackground
