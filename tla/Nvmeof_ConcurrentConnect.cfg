SPECIFICATION Spec
CONSTANTS
    p1 = p1
    p2 = p2
    p3 = p3
    t1 = t1
    t2 = t2
    NoTarget = NoTarget
    Pods = {p1, p2}
    Targets = {t1, t2}
    TargetOf <- OwnTarget
    MaxDrives = 3
    MaxFailures = 0
    MaxInFlight = 2
INVARIANT BackedByTarget
CHECK_DEADLOCK FALSE
