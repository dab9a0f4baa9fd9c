CONSTANTS
    Line = {l1, l2}
    IPlanTask = {i}
    SapTask = {s}
    Page = {p}
    MaxNews = 1
    MaxPlan = 1
    PlanStatus = {"full", "none"}
    MaxFault = 1
    None = None
SPECIFICATION FairSpec
INVARIANTS TypeOK StatusFollowsItems
 
CHECK_DEADLOCK FALSE
