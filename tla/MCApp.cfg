SPECIFICATION FairSpec
CONSTANTS
    Call = {c1, c2}
    Device = {p}
    MaxPending = 1
CHECK_DEADLOCK FALSE
INVARIANTS AppIsConsistent
PROPERTIES NoCutWithinGrace ShutdownEnds ArrivalsAreAnnounced
