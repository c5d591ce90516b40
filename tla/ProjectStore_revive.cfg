SPECIFICATION Spec
CONSTANTS
    a = a
    b = b
    c = c
    d = d
    f = f
    g = g
    Writers = {a, b}
    Fields = {f, g}
    FieldOf <- Apart
    Mixes <- DeleteMeetsCheck
    Retries = 2
PROPERTIES
    CheckedOnItsRevision
CHECK_DEADLOCK FALSE
