SPECIFICATION FairSpec
CONSTANTS
    Execs = {e1, e2, e3}
    Len = 2
    Scripts = {{1, 2}, {2}}
    PoolMax = 2
    MayFail = TRUE
INVARIANTS
    ScriptsApplyInOrder
    TeardownClears
    PlainNamesInside
PROPERTY DispatchFinishes
CHECK_DEADLOCK FALSE
