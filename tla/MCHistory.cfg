SPECIFICATION Spec
CONSTANTS
    Phone = {p1, p2}
    Name = {plain, part}
    PartName = {part}
    MaxHistory = 2
    MaxOutbox = 1
    MaxItems = 3
    MaxUploads = 2
    DiskMayFail = TRUE
SYMMETRY Symmetric
CHECK_DEADLOCK FALSE
INVARIANTS AcknowledgedIsKept DeletedIsGone EntriesHaveTheirFiles QuotaExceededOnlyByOverlap
PROPERTIES OrphansOnlyByCrash
