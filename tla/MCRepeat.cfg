SPECIFICATION Spec
CONSTANTS
    None = None
    c1 = c1
    p1 = p1
    p2 = p2
    build = build
    verify = verify
    extra = extra
    Campaigns <- MCCampaigns
    Procs <- MCProcs
    Subject = c1
    Plan <- MCPlan
    Revision = extra
    Supervising = {p2}
    Verification <- MCVerification
    PrimaryAttempts = 1
    RepairAttempts = 0
    FallbackAttempts = 1
    MaxAttempts = 2
    MaxRetries = 1
    MaxFaults = 1
    MaxCalls = 2
INVARIANT
    NeverRepeatsCommit
CHECK_DEADLOCK FALSE
