SPECIFICATION Spec
CONSTANTS
    Ids = {s1}
    NoId = NoId
    Requests = {r1, r2}
    Workloads <- Mixed
SYMMETRY Symmetry
INVARIANTS
    TeardownOnlyEnded
    StrandedIsSweepable
    EndLeavesSurvivors
    ResettingMeansReset
    BootSweepReaps
CHECK_DEADLOCK FALSE
