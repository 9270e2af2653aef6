SPECIFICATION LeaseSpec
CONSTANTS
    None = None
    Campaigns = {c1, c2}
    Procs = {p1, p2, p3}
PROPERTIES
    ExclusiveLease
    DeadLeaseLapses
