SPECIFICATION Spec
CONSTANTS
    p1 = p1
    p2 = p2
    p3 = p3
    t1 = t1
    t2 = t2
    NoTarget = NoTarget
    Pods = {p1, p2, p3}
    Targets = {t1, t2}
    TargetOf <- SharedAndOwn
    MaxDrives = 4
    MaxFailures = 2
    MaxInFlight = 1
INVARIANTS
    TypeOK
    BackedByTarget
    MountedOnce
    ReleasedWhenUnused
PROPERTY DetachesLastReference
CHECK_DEADLOCK FALSE
