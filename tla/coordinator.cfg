SPECIFICATION FairSpec
CONSTANTS
    t1 = t1
    t2 = t2
    t3 = t3
    a = a
    b = b
    Task <- ThreeTasks
    Subtask <- OneSubtask
    Plan <- MixedPlan
    Faults = {"raise", "resume", "store", "read", "crash"}
    MaxFaults = 2
    MaxTasks = 2
INVARIANTS
    TypeOK
    GaugeCoversTable
    InFlightIsOwned
PROPERTIES
    LeavesTableSettled
    EveryTaskSettles
CHECK_DEADLOCK FALSE
