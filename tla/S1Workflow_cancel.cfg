SPECIFICATION Spec
CONSTANTS
    p1 = p1
    p2 = p2
    r1 = r1
    r2 = r2
    Projects = {p1}
    Runs = {r1}
    ProjectOf <- OneProject
    PdfRuns = {r1}
    NoRun = NoRun
    MaxCancels = 1
    Faults = {}
    MaxFaults = 0
    MaxExpiries = 0
PROPERTIES
    CancelledStays
CHECK_DEADLOCK FALSE
