SPECIFICATION AdmSpec
CONSTANTS
    Tenants = {t1, t2}
    Requests = {r1, r2}
    NoRequest = NoRequest
    max_per_day = 1
    LastDay = 1
    MaxRestarts = 1
    NoManifest = NoManifest
    Absent = Absent
    Unreadable = Unreadable
    Users = {u1}
    NoUser = NoUser
    auth_token = TRUE
    deployment_kind = "cloud"
    Candidates <- MCCandidates
    ScenarioIds = {"orders", "chaos", "gone"}
    MaxCharges = 3
INVARIANTS
    AdmTypeOK
    CapUnlessReopened
    RefusedOnlyWhenSpent
    SessionsWithinCap
    StartedCountsCharges
    LoadedManifestSound
    GateAgrees
PROPERTY ChargesAsQuota
SYMMETRY Symmetry
CHECK_DEADLOCK FALSE
