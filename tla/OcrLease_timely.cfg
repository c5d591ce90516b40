SPECIFICATION FairSpec
CONSTANTS
    NumTasks = 1
    Workers = {w1, w2}
    MaxRetries = 1
    LockTimeout = 2
    HbInterval = 1
    Timely = TRUE
    MaxFaults = 3
    NoWorker = NoWorker
PROPERTIES
    LeaseKept
    LifeImplemented
    TaskEnds
CHECK_DEADLOCK FALSE
