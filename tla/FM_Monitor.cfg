CONSTANTS
    o1 = o1
    Objects = {o1}
    KeyOf <- OwnKeys
    Targets <- Singles
    ClientTargets <- Singles
    MaxMonitorTime = 3
    DelayUnfreezeTime = 1
    LoopTime = 2
    WorkerCount = 1
    MaxPushedWorkers = 2
    MaxOutstanding = 1
    MaxFaults = 1
    Upsets = {}
SPECIFICATION FairSpec
INVARIANT TypeOK
INVARIANT FrozenIsMonitored
INVARIANT WaitingHasRequest
PROPERTY FrozenIsThawed
