CONSTANTS
    MaxUpload = 2
    PO = {p1, p2}
    MaxLength = 2
    MaxTask = 2
    MaxTrouble = 1
    p1 = p1
    p2 = p2
SPECIFICATION MCSpec
INVARIANTS TypeOK OneOrderPerPo RowsFollowSap  
PROPERTY FileDecided
CHECK_DEADLOCK FALSE
