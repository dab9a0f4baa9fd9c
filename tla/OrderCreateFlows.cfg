CONSTANTS
    Request = {r1, r2}
    Line = {l1, l2}
    Flows = {"domestic", "customer", "export", "eo_upload"}
    None = None
SPECIFICATION FairSpec
INVARIANTS ReceivedIsInSap  CommittedIsInSap
PROPERTY RequestEnds
CHECK_DEADLOCK FALSE
