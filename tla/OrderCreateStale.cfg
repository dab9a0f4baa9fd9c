CONSTANTS
    Request = {r1, r2}
    Line = {l1}
    Flows = {"export"}
    None = None
SPECIFICATION Spec
INVARIANT NoDuplicateOrder
CHECK_DEADLOCK FALSE
