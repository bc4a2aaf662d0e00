SPECIFICATION Spec
CONSTANTS
    Users = {u1}
    Ids = {s1, s2}
    NoId = NoId
    MIN_TTL = 1
    MAX_TTL = 2
    default_ttl = 2
    DEFAULT_TTL = 2
    Horizon = 3
INVARIANT OneLiveSessionPerUser
CHECK_DEADLOCK FALSE
