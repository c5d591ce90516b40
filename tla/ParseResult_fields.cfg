SPECIFICATION Spec
CONSTANTS
    Appendices = {a1}
    Candidates = {c1}
    Requests = {q1}
    NoSync = NoSync
    MaxParses = 1
    MaxChoices = 1
    MaxRemovals = 0
    Faults = {}
    MaxFaults = 0
PROPERTIES
    ConfirmedShown
CHECK_DEADLOCK FALSE
