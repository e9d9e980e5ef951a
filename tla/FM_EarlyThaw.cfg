CONSTANTS
    o1 = o1
    Objects = {o1}
    KeyOf <- OwnKeys
    Targets <- Singles
    ClientTargets <- Singles
    MaxMonitorTime = 5
    DelayUnfreezeTime = 1
    LoopTime = 2
    WorkerCount = 2
    MaxPushedWorkers = 3
    MaxOutstanding = 1
    MaxFaults = 0
    Upsets = {}
SPECIFICATION Spec
PROPERTY ThawedOnlyWhenDue
