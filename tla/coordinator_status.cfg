SPECIFICATION Spec
CONSTANTS
    t1 = t1
    t2 = t2
    t3 = t3
    a = a
    b = b
    Task <- TwoTasks
    Subtask <- TwoSubtasks
    Plan <- EmptyPlan
    Faults = {}
    MaxFaults = 0
    MaxTasks = 2
PROPERTIES
    SettledStays
CHECK_DEADLOCK FALSE
