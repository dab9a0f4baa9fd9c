CONSTANTS
    Request = {r1, r2, r3}
    Line = {l1, l2}
    Flows = {"domestic"}
    None = None
SYMMETRY Interchangeable
SPECIFICATION Spec
INVARIANTS TypeOK NoDuplicateOrder
PROPERTIES NeverReopened ImplementsSubmission
CHECK_DEADLOCK FALSE
