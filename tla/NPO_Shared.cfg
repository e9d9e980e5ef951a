SPECIFICATION Spec
CONSTANTS
    v1 = v1
    v2 = v2
    p1 = p1
    p2 = p2
    p3 = p3
    r1 = r1
    r2 = r2
    r3 = r3
    NoVolume = NoVolume
    NoPod = NoPod
    Idle = Idle
    ExponentialBackOffOnError = TRUE
    InitialDurationBeforeRetry = 1
    MaxDurationBeforeRetry = 1
    Volumes = {v1}
    Pods = {p1, p2, p3}
    Routines = {r1, r2, r3}
    Requests <- SharedRequests
    MaxOperations = 5
SYMMETRY RoutineAndPodSymmetry
INVARIANTS
    RoutineHasEntry
CHECK_DEADLOCK FALSE
