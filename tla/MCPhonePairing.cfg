SPECIFICATION FairPhoneSpec
CONSTANTS
    Device = {p, q}
    Self = p
    Nonce = {0, 1, 2}
    Ip = {a}
    MaxTime = 3
    MaxDevices = 1
    DiskMayFail = FALSE
    MaxRequests = 2
    MaxPending = 1
    RevealWindow = 1
    PairExpiry = 2
    SecretWindow = 1
    MaxPairRequests = 2
    PairLimiterWindow = 1
    MaxFlows = 2
    MaxErrors = 2
INVARIANTS SavedIsTrusted ToldTruly
PROPERTIES FlowEnds EventuallyForgotten
