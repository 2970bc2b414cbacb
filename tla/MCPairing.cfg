SPECIFICATION ServiceSpec
CONSTANTS
    Device = {d1, d2, d3}
    Nonce = {n1, n2}
    Ip = {a}
    MaxTime = 4
    MaxDevices = 1
    DiskMayFail = TRUE
    MaxRequests = 3
    MaxPending = 2
    RevealWindow = 2
    PairExpiry = 3
    SecretWindow = 2
    MaxPairRequests = 3
    PairLimiterWindow = 2
SYMMETRY Symmetric
INVARIANTS WithinLimits
PROPERTIES MovesInTime AnswerSurvives PairedOnlyByUser
