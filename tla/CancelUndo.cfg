CONSTANTS
    Line = {l1, l2}
    Request = {r1, r2}
    MaxFault = 2
SPECIFICATION Spec
INVARIANTS TypeOK SettledOrFlagged OrderOfRows
 
SYMMETRY Interchangeable
CHECK_DEADLOCK FALSE
