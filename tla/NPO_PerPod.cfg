SPECIFICATION FairSpec
CONSTANTS
    v1 = v1
    v2 = v2
    p1 = p1
    p2 = p2
    p3 = p3
    r1 = r1
    r2 = r2
    r3 = r3
    NoVolume = NoVolume
    NoPod = NoPod
    Idle = Idle
    ExponentialBackOffOnError = TRUE
    InitialDurationBeforeRetry = 1
    MaxDurationBeforeRetry = 3
    Volumes = {v1, v2}
    Pods = {p1, p2}
    Routines = {r1, r2, r3}
    Requests <- PerPodRequests
    MaxOperations = 4
INVARIANTS
    TypeOK
    MutualExclusion
    ListMatchesRoutines
PROPERTIES
    NeverStuck
    ExclusiveSpec
