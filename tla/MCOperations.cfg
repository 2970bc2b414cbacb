SPECIFICATION Spec
CONSTANTS
    Op = {o1, o2}
    MaxAttempts = 3
    MaxOperations = 1
    OperationTtl = 2
    MaxUpload = 1
    MaxTime = 3
    MayRestart = TRUE
    DiskMayFail = TRUE
SYMMETRY Symmetric
CHECK_DEADLOCK FALSE
INVARIANTS StoredOnce DeliveredIsStored CacheIsSound
