CONSTANTS
    p1 = p1
    p2 = p2
    v1 = v1
    v2 = v2
    NoVolume = NoVolume
    NoPod = NoPod
    Idle = Idle
    Pods = {p1,p2}
    Volumes = {v1}
    AttachableVolumes = {v1}
    RemountVolumes = {}
    PodVolumes <- SharedVolume
    Routines <- TwoRoutines
    ExponentialBackOffOnError = TRUE
    InitialDurationBeforeRetry = 1
    MaxDurationBeforeRetry = 1
    ControllerAttachDetachEnabled = FALSE
    ForcedDeletion = FALSE
    MaxFailures = 0
    MaxRestarts = 1
    WorkedPods = {}
SPECIFICATION Spec
INVARIANTS
    PodMountOverDevice
    OneRoutinePerMount
    DeviceMountedIsTrue
