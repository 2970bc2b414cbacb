SPECIFICATION Spec
CONSTANTS
    Device = {d1, d2}
    Nonce = {n1}
    Ip = {a}
    MaxTime = 4
    MaxDevices = 2
    DiskMayFail = FALSE
    MaxRequests = 2
    MaxPending = 2
    RevealWindow = 1
    PairExpiry = 2
    SecretWindow = 1
    MaxPairRequests = 2
    PairLimiterWindow = 1
    MaxTokens = 2
    SessionIdle = 2
    SessionMax = 3
    MaxStreams = 2
    MaxAuthFailures = 1
    AuthLimiterWindow = 1
SYMMETRY Symmetric
INVARIANTS OneSessionPerPhone SessionsAreTrusted StreamsAgree SessionLifetime
PROPERTIES TrustIsFresh PolicyHolds
