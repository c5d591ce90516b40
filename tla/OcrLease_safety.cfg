SPECIFICATION Spec
CONSTANTS
    NumTasks = 2
    Workers = {w1, w2}
    MaxRetries = 1
    LockTimeout = 1
    HbInterval = 1
    Timely = FALSE
    MaxFaults = 2
    NoWorker = NoWorker
SYMMETRY Symmetry
INVARIANTS
    TokenUnique
    CandidatesOnce
    InputKept
    AuditTrue
    AnswerTrue
    RetriesUsed
CHECK_DEADLOCK FALSE
