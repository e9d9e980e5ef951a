SPECIFICATION FairSpec
CONSTANTS
    n1 = n1
    v1 = v1
    p1 = p1
    p2 = p2
    NoVolume = NoVolume
    NoPod = NoPod
    NoEntry = NoEntry
    Volumes = {v1}
    Nodes = {n1}
    Pods = {p1}
    PodNode <- OneNode
    PodVolumes <- SameVolume
    ExponentialBackOffOnError = TRUE
    InitialDurationBeforeRetry = 1
    MaxDurationBeforeRetry = 1
    MaxFaults = 1
INVARIANTS
    TypeOK
    ReportedHasEntry
    EntryIsAttached
PROPERTIES
    UnneededIsDetached
