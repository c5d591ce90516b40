SPECIFICATION FairSpec
CONSTANTS
    s1 = s1
    s2 = s2
    Runs = {"d1"}
    Regenerations = {"g1"}
    Fills = {"f1", "f2"}
    Marks = {40}
    GenEdits = 1
    GenFaults = {"generate", "store", "slow", "crash", "die", "expire"}
    MaxGenFaults = 1
    a = a
    b = b
    c = c
    d = d
    f = f
    g = g
    Writers = {a, b, c, d}
    Fields = {f, g}
    FieldOf <- Shared
    Mixes <- SafeMixes
    Retries = 2
INVARIANTS
    DirectoryHasJob
    DocumentOfOutline
    AckedKept
    RefusedOnlyWhenBeaten
PROPERTIES
    CleaningSettles
    ChangeShown
    SubmitAgain
    OutlineStill
    FillSettles
CHECK_DEADLOCK FALSE
