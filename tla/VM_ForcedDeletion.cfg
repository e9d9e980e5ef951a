CONSTANTS
    p1 = p1
    p2 = p2
    v1 = v1
    v2 = v2
    NoVolume = NoVolume
    NoPod = NoPod
    Idle = Idle
    Pods = {p1}
    Volumes = {v1}
    AttachableVolumes = {v1}
    RemountVolumes = {}
    PodVolumes <- OnePod
    Routines <- OneRoutine
    ExponentialBackOffOnError = TRUE
    InitialDurationBeforeRetry = 1
    MaxDurationBeforeRetry = 1
    ControllerAttachDetachEnabled = TRUE
    ForcedDeletion = TRUE
    MaxFailures = 1
    MaxRestarts = 0
    WorkedPods = {p1}
SPECIFICATION Spec
INVARIANTS
    RunningPodKeepsVolumes
    ReportedIsInUse
    DeviceMountedIsTrue
