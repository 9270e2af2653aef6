SPECIFICATION Spec
CONSTANTS
    t1 = t1
    t2 = t2
    n1 = n1
    n2 = n2
    r1 = r1
    r2 = r2
    None = None
    Tasks <- MCTasks
    Nodes <- MCNodes
    Deps <- MCDeps
    ResourcesOf <- MCResourcesOf
    AttemptLimit = 2
    Procs = {pa, pb}
    MaxRuns = 3
    Faults = {"write"}
    pa = pa
    pb = pb
INVARIANTS
    Exclusive
    InvokedOnce
    DependenciesDone
    LeaseAccounted
CHECK_DEADLOCK FALSE
