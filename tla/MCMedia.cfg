CONSTANTS
    j1 = j1
    s1 = s1
    s2 = s2
    Job <- MCJob
    Session <- MCSessions
    NoSession = NoSession
    MaxAct = 2
    MaxStarts = 3
    MaxFaults = 1
    MaxGrants = 0
SPECIFICATION Spec
INVARIANTS Reserved AtMostOnce
PROPERTIES Drained CancelSticks
CHECK_DEADLOCK FALSE
