SPECIFICATION SpecList
CONSTANTS
    Phone = {p1, p2}
    Self = p1
    Call = {c1, c2}
    Name = {plain}
    PartName = {}
    MaxHistory = 2
    MaxOutbox = 1
    MaxItems = 3
    MaxUploads = 1
    DiskMayFail = FALSE
CHECK_DEADLOCK FALSE
INVARIANTS ListAgrees
