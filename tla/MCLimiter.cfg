SPECIFICATION LimiterSpec
CONSTANTS
    Allowed = 2
    Window = 3
    MaxTime = 8
    MaxCalls = 6
INVARIANTS WindowIsExact
