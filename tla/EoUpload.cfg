SPECIFICATION MCSpec
CONSTANTS
    MaxUpload = 2
    Key = {k1, k2}
    Worker = {w1, w2}
    MaxFault = 1
    k1 = k1
    k2 = k2
    w1 = w1
    w2 = w2
INVARIANTS TypeOK LogTellsTruth OneOrder NoOrphan
PROPERTY Decided
CHECK_DEADLOCK FALSE
