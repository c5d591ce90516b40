SPECIFICATION Spec
CONSTANTS
    Appendices = {a1}
    Candidates = {}
    Requests = {q1, q2, q3}
    NoSync = NoSync
    MaxParses = 1
    MaxChoices = 2
    MaxRemovals = 0
    Faults = {"delete"}
    MaxFaults = 1
INVARIANTS
    ChoiceApplied
CHECK_DEADLOCK FALSE
