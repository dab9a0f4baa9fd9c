CONSTANTS
    Request = {r1}
    Line = {l1}
    Kinds = {"yt65217"}
    None = None
SPECIFICATION Spec
INVARIANT MarkedIsFlagged
CHECK_DEADLOCK FALSE
