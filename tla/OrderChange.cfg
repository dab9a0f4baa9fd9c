CONSTANTS
    Request = {r1, r2}
    Line = {l1, l2}
    Kinds = {"absent", "same", "plain", "yt65217", "yt65156"}
    None = None
SYMMETRY Interchangeable
SPECIFICATION Spec
INVARIANTS TypeOK DbFollowsSap IPlanFollowsSap CommittedIsInSap FailureReleases 
CHECK_DEADLOCK FALSE
