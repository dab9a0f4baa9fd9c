CONSTANTS
    Worker = {w1, w2, w3}
    MaxRow = 4
    MaxCrash = 1
SYMMETRY WorkerSymmetry
SPECIFICATION Spec
INVARIANTS TypeOK NoOrphanLock
CHECK_DEADLOCK FALSE
