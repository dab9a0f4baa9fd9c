CONSTANTS
    Worker = {w1, w2}
    MaxRow = 3
    MaxCrash = 0
SPECIFICATION Spec
INVARIANT NoDuplicateRun
