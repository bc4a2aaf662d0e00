SPECIFICATION FairSpec
CONSTANTS
    Tasks = {t1, t2}
    Reaper = reaper
    Users = {u1}
    Ids = {s1, s2}
    NoId = NoId
    Never = Never
    ACTION_COOLDOWN = 1
    MAX_EVENTS = 1
    Loads <- MCLoads
    s1 = s1
    s2 = s2
    Horizon = 1
    MaxRecords = 2
INVARIANTS
    TypeOK
    PointerNeverSeenDangling
    Throttled
    LogIsRecent
    ListTruthful
PROPERTIES
    CallsFinish
    CallsAtOnce
