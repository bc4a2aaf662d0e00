SPECIFICATION Spec
CONSTANTS
    Ids = {s1}
    NoId = NoId
    Requests = {r1}
    Workloads <- Plain
INVARIANT ResetDropsNamespace
CHECK_DEADLOCK FALSE
