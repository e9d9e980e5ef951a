CONSTANTS
    p1 = p1
    p2 = p2
    v1 = v1
    v2 = v2
    NoVolume = NoVolume
    NoPod = NoPod
    Idle = Idle
    Pods = {p1}
    Volumes = {v1}
    AttachableVolumes = {}
    RemountVolumes = {v1}
    PodVolumes <- OnePod
    Routines <- OneRoutine
    ExponentialBackOffOnError = TRUE
    InitialDurationBeforeRetry = 1
    MaxDurationBeforeRetry = 1
    ControllerAttachDetachEnabled = TRUE
    ForcedDeletion = FALSE
    MaxFailures = 1
    MaxRestarts = 1
    WorkedPods = {p1}
SPECIFICATION FairSpec
INVARIANTS
    TypeOK
    RunningPodKeepsVolumes
PROPERTIES
    Cleanup
    MountProgress
