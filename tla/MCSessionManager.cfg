SPECIFICATION FairSpec
CONSTANTS
    Users = {u1, u2}
    Ids = {s1, s2}
    NoId = NoId
    MIN_TTL = 1
    MAX_TTL = 2
    default_ttl = 3
    DEFAULT_TTL = 1
    Horizon = 3
INVARIANTS
    TypeOK
    OneLiveUnlessLateExtend
    ClocksAgree
    DeadlineWithinMax
PROPERTIES
    DeadlineOnlyGrows
    LapsedIsSwept
    KeepsStore
CHECK_DEADLOCK FALSE
