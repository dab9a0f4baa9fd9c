CONSTANTS
    Request = {q1, q2}
    Order = {o1, o2}
    Line = {l1, l2}
    RetryCount = 1
    BatchSize = 1
    MaxKill = 1
    q1 = q1
    q2 = q2
    o1 = o1
    o2 = o2
    l1 = l1
    l2 = l2
SPECIFICATION MCSpec
INVARIANTS TypeOK FlaggedUntilSettled FlagIsTracked 
 
CHECK_DEADLOCK FALSE
