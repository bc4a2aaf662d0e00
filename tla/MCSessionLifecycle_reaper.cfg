SPECIFICATION FairSpec
CONSTANTS
    Ids = {s1, s2}
    NoId = NoId
    Requests = {r1}
    Workloads <- Expiring
PROPERTY ExpiredIsTornDown
CHECK_DEADLOCK FALSE
