SPECIFICATION EitherSpec
CONSTANTS
    p1 = p1
    p2 = p2
    r1 = r1
    r2 = r2
    Projects = {p1}
    Runs = {r1, r2}
    ProjectOf <- OneProject
    PdfRuns = {r1}
    NoRun = NoRun
    MaxCancels = 1
    Faults = {"main", "docling", "api", "push", "handoff", "handback", "clear"}
    MaxFaults = 1
    MaxExpiries = 1
PROPERTIES
    OwnLock
    ResultUnderLocks
CHECK_DEADLOCK FALSE
