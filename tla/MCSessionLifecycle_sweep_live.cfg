SPECIFICATION Spec
CONSTANTS
    Ids = {s1}
    NoId = NoId
    Requests = {r1}
    Workloads <- Plain
INVARIANT SweepSparesLive
CHECK_DEADLOCK FALSE
