SPECIFICATION SceneSpec
CONSTANTS
    p1 = p1
    p2 = p2
    r1 = r1
    r2 = r2
    Projects = {p1, p2}
    Runs = {r1, r2}
    ProjectOf <- TwoProjects
    PdfRuns = {r1}
    NoRun = NoRun
    MaxCancels = 0
    Faults = {"main", "docling", "api"}
    MaxFaults = 1
    MaxExpiries = 0
INVARIANTS
    JobsOnce
    OneWorkflow
    LockKept
PROPERTIES
    RunsImplemented
    RunEnds
CHECK_DEADLOCK FALSE
