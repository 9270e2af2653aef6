CONSTANTS
    j1 = j1
    s1 = s1
    s2 = s2
    Job = {}
    Session <- MCSession
    NoSession = NoSession
    MaxAct = 2
    MaxStarts = 2
    MaxFaults = 1
    MaxGrants = 1
SPECIFICATION Spec
INVARIANT OwnReserved
PROPERTY NoStartAfterFinish
CHECK_DEADLOCK FALSE
