SPECIFICATION AllSpec
CONSTANTS
    Callbacks = {c1, c2, c3}
    c1 = c1
    c2 = c2
    c3 = c3
    Editors = {c2, c3}
    Saves = {save1, save2}
    Formats = {format}
    Others = {other}
    DocumentFaults = {"http", "minio", "db"}
    PlanItems <- FillItems
    Tasks <- FillTasks
    Scopes <- FillScopes
    Submits = {s1, s2}
    s1 = s1
    s2 = s2
    Singles = {r1, r2}
    Pool = 2
    MaxEdits = 1
    FillFaults = {"fill", "conflict", "crash", "facts"}
    a1 = a1
    a2 = a2
    q1 = q1
    q2 = q2
    q3 = q3
    NoSync = NoSync
    MaxSessions = 3
    Faults = {"http", "conflict", "crash"}
    MaxFaults = 2
SYMMETRY Symmetry
INVARIANTS
    LastSaveKept
    DocumentCurrent
    ChoiceKept
    FolderTracked
PROPERTIES
    EndedSessionsSilent
    NewestKept
    WorkKept
    BatchAccounted
    SyncedIsChosen
CHECK_DEADLOCK FALSE
